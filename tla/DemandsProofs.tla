--------------------------- MODULE DemandsProofs ---------------------------
(***************************************************************************)
(* Safety of the waiting, for every capacity.  What holds of two threads   *)
(* and of all Uses comes first: each later part needs it, and asks for no  *)
(* more of the callers than what it shows needs of them.                   *)
(*                                                                         *)
(* One thing is asked of them throughout: AsksForSome.  A slice of nothing *)
(* can disorder the word (try_inc_reader_pos).                             *)
(***************************************************************************)
EXTENDS Demands, RwStateProofs

(* Callers that do not ask for slices of length 0.                           *)
AsksForSome == 0 \notin Lengths

-----------------------------------------------------------------------------
(* The inductive invariant of all Uses *)

(* A demand lives as long as its future may be answered through it.          *)
DemandHeld ==
  \A side \in Sides :
    pc[side] \in {"check", "park", "await", "waiting"} => demand[side]

(* Where a future with a demand can be.                                      *)
Asking == {"poll", "refused", "check", "park", "await", "waiting", "resume",
           "abort", "retry", "denied", "panic_enqueue", "panic_check",
           "panic_slot"}

(* A signal is that of a demand, and a demand that of a future.              *)
SignalHeld ==
  \A side \in Sides :
    /\ signal[side] => demand[side]
    /\ demand[side] => pc[side] \in Asking

(* A try_signal_ under way has found a demand.                               *)
PointerKnown ==
  \A side \in Sides :
    pc[side] \in {"signal_check", "signal_take", "signal_send"}
      => ptr[side] \in Sides

(* WaiterIsReachable, from the parking on.                                   *)
Reachable(side) ==
  \/ slot = side
  \/ signal[side]
  \/ pc[Other(side)] = "signal_send" /\ ptr[Other(side)] = side

ParkedIsReachable ==
  \A side \in Sides : pc[side] \in {"await", "waiting"} => Reachable(side)

(* Only a PeekFuture skips.                                                  *)
SkipPeeks == ~peeking => skip = 0

(* A slice that moves a position is not empty.                               *)
Reclaims(side) == ~(side = "reader" /\ peeking)

SlicesMove ==
  \A side \in Sides : pc[side] = "holding" /\ Reclaims(side) => held[side] > 0

Sound ==
  /\ TypeOK
  /\ Ordered(word)
  /\ DemandHeld
  /\ SignalHeld
  /\ PointerKnown
  /\ ParkedIsReachable
  /\ SkipPeeks
  /\ SlicesMove
  /\ SliceStaysGood

-----------------------------------------------------------------------------
(* Its preservation, by the places where futures and handles change *)

(* The room either side sees is a length of the buffer.                      *)
LEMMA RoomIsLength ==
  ASSUME TypeOK, Ordered(word), NEW side \in Sides
  PROVE  Room(side) \in 0 .. Capacity
  BY WordFacts, CapacityAssumption DEF TypeOK, Room

(* What FutureEnds writes has its type.                                      *)
LEMMA FutureEndsWell ==
  ASSUME TypeOK, NEW side \in Sides, FutureEnds(side)
  PROVE  /\ cell' \in [Sides -> {"null", "demand", "closed"}]
         /\ demand' \in [Sides -> BOOLEAN]
         /\ signal' \in [Sides -> BOOLEAN]
         /\ woken' \in [Sides -> BOOLEAN]
         /\ cancelled' \in [Sides -> BOOLEAN]
  BY DEF TypeOK, FutureEnds, Dequeue

(* So has what AskEnds writes, and what no longer peeks skips nothing.       *)
LEMMA AskEndsWell ==
  ASSUME TypeOK, SkipPeeks, NEW side \in Sides, AskEnds(side)
  PROVE  /\ skip' \in Skips \cup {0}
         /\ peeking' \in BOOLEAN
         /\ kind' \in {"reader", "peeker"}
         /\ dropped' \in [Sides -> BOOLEAN]
         /\ SkipPeeks'
  BY DEF TypeOK, AskEnds, SkipPeeks

(* try_write, try_read and try_peek give a slice that lies in what there is, *)
(* and an empty one only to a PeekFuture.                                    *)
LEMMA GrantsWell ==
  ASSUME AsksForSome, Sound, NEW side \in Sides, Obtains(side),
         NEW n \in Grants(side)
  PROVE  /\ n \in 0 .. Capacity
         /\ n <= Room(side)
         /\ Reclaims(side) => n > 0
<1>1. Room(side) \in 0 .. Capacity
  BY RoomIsLength DEF Sound
<1>2. skip \in Nat
  BY DemandsAssumption DEF Sound, TypeOK
<1>3. CASE Reclaims(side)
  <2>1. PICK m \in Lengths : n = MinOf(Room(side), m)
    BY <1>3 DEF Grants, Reclaims
  <2>2. m \in Nat /\ m # 0
    BY DemandsAssumption DEF AsksForSome
  <2>3. Room(side) > 0
    BY DEF Obtains
  <2>4. QED
    BY <1>1, <2>1, <2>2, <2>3, CapacityAssumption DEF MinOf
<1>4. CASE ~Reclaims(side)
  BY <1>1, <1>2, <1>4, CapacityAssumption
  DEF Obtains, Grants, Skipped, Reclaims
<1>5. QED
  BY <1>3, <1>4

(* The try_ of the first poll, of a later one and of the retry.              *)
LEMMA TrySound ==
  ASSUME AsksForSome, Sound, NEW side \in Sides,
         NEW otherwise \in {"refused", "denied"}, pc[side] \in {"poll", "retry"}, Try(side, otherwise)
  PROVE  Sound'
<1>1. CASE Obtains(side)
  <2>1. PICK n \in Grants(side) :
          /\ held' = [held EXCEPT ![side] = n]
          /\ Goto(side, "holding")
          /\ FutureEnds(side)
          /\ UNCHANGED <<word, slot, ptr, asked>>
    BY <1>1 DEF Try
  <2>2. /\ n \in 0 .. Capacity /\ n <= Room(side)
        /\ Reclaims(side) => n > 0
    BY <1>1, GrantsWell
  <2>3. TypeOK'
    BY <2>1, <2>2, FutureEndsWell DEF Sound, TypeOK, Goto, asked, Resting
  <2>4. Ordered(word)' /\ SkipPeeks'
    BY <2>1 DEF Sound, SkipPeeks, asked
  <2>5. DemandHeld' /\ SignalHeld' /\ PointerKnown' /\ ParkedIsReachable'
    BY <2>1
    DEF Sound, TypeOK, DemandHeld, SignalHeld, Asking, PointerKnown,
        ParkedIsReachable, Reachable, Goto, FutureEnds, Sides, Other
  <2>6. SlicesMove' /\ SliceStaysGood'
    BY <2>1, <2>2 DEF Sound, TypeOK, SlicesMove, SliceStaysGood, Reclaims,
                      Room, Goto, asked
  <2>7. QED
    BY <2>3, <2>4, <2>5, <2>6 DEF Sound
<1>2. CASE ~Obtains(side)
  <2>1. Goto(side, otherwise)
        /\ UNCHANGED <<word, cell, slot, held, future, ptr, asked>>
    BY <1>2 DEF Try
  <2>2. QED
    BY <2>1
    DEF Sound, TypeOK, DemandHeld, SignalHeld, Asking, PointerKnown,
        ParkedIsReachable, Reachable, SkipPeeks, SlicesMove, SliceStaysGood,
        Reclaims, Room, Goto, future, asked, Resting, Panics, Sides, Other
<1>3. QED
  BY <1>1, <1>2

(* A future that ends by the token, by a closing or by its caller.           *)
LEMMA EndSound ==
  ASSUME Sound, NEW side \in Sides,
         \/ FindsClosing(side) \/ Denied(side) \/ Abort(side)
         \/ DropPending(side)
  PROVE  Sound'
<1>1. TypeOK'
  BY FutureEndsWell, AskEndsWell
  DEF Sound, TypeOK, FindsClosing, Denied, Abort, DropPending, Goto, future,
      asked, Resting
<1>2. Ordered(word)' /\ SkipPeeks'
  BY AskEndsWell
  DEF Sound, FindsClosing, Denied, Abort, DropPending, SkipPeeks, asked
<1>3. DemandHeld' /\ SignalHeld' /\ PointerKnown' /\ ParkedIsReachable'
  BY DEF Sound, TypeOK, FindsClosing, Denied, Abort, DropPending, DemandHeld,
      SignalHeld, Asking, PointerKnown, ParkedIsReachable, Reachable, Goto,
      FutureEnds, future, Sides, Other
<1>4. SlicesMove' /\ SliceStaysGood'
  BY DEF Sound, TypeOK, FindsClosing, Denied, Abort, DropPending, SlicesMove,
      SliceStaysGood, Reclaims, Room, Goto, AskEnds, asked
<1>5. QED
  BY <1>1, <1>2, <1>3, <1>4 DEF Sound

(* A future that asks: the demand it makes, checks, parks and awaits.        *)
LEMMA AskSound ==
  ASSUME Sound, NEW side \in Sides,
         \/ Begin(side) \/ Enqueue(side) \/ CheckAgain(side) \/ Check(side)
         \/ Park(side) \/ Await(side) \/ Repoll(side) \/ Cancel(side)
         \/ PollUnasked(side)
  PROVE  Sound'
<1>1. TypeOK'
  BY DEF Sound, TypeOK, Begin, Enqueue, CheckAgain, Check, Park, Await, Repoll,
      PollUnasked, Cancel, Goto, future, asked, Resting, Panics
<1>2. Ordered(word)' /\ SkipPeeks'
  BY DEF Sound, Begin, Enqueue, CheckAgain, Check, Park, Await, Repoll,
      PollUnasked, Cancel, SkipPeeks, asked
<1>3. DemandHeld' /\ SignalHeld' /\ PointerKnown' /\ ParkedIsReachable'
  BY DEF Sound, TypeOK, Begin, Enqueue, CheckAgain, Check, Park, Await, Repoll,
      PollUnasked, Cancel, DemandHeld, SignalHeld, Asking, PointerKnown, ParkedIsReachable,
      Reachable, Goto, future, Sides, Other
<1>4. SlicesMove' /\ SliceStaysGood'
  BY DEF Sound, TypeOK, Begin, Enqueue, CheckAgain, Check, Park, Await, Repoll,
      PollUnasked, Cancel, SlicesMove, SliceStaysGood, Reclaims, Room, Goto, asked
<1>5. QED
  BY <1>1, <1>2, <1>3, <1>4 DEF Sound

(* try_signal_: between the emptying of the slot and the send, the waiter is *)
(* found through the pointer.                                                *)
LEMMA SignalSound ==
  ASSUME Sound, NEW side \in Sides,
         \/ SignalLoad(side) \/ SignalCheck(side) \/ SignalTake(side)
         \/ SignalSend(side)
  PROVE  Sound'
<1> USE DEF SignalLoad, SignalCheck, SignalTake, SignalSend, SignalDone, Goto
<1>1. TypeOK'
  <2>1. CASE SignalLoad(side) \/ SignalCheck(side) \/ SignalTake(side)
    BY <2>1 DEF Sound, TypeOK, future, asked, Resting
  <2>2. CASE SignalSend(side)
    BY <2>2 DEF Sound, TypeOK, PointerKnown, future, asked, Resting
  <2>3. QED
    BY <2>1, <2>2
<1>2. Ordered(word)' /\ SkipPeeks'
  BY DEF Sound, SkipPeeks, asked
<1>3. DemandHeld' /\ SignalHeld' /\ PointerKnown'
  BY DEF Sound, TypeOK, DemandHeld, SignalHeld, Asking, PointerKnown, future,
      Sides
<1>4. ParkedIsReachable'
  BY DEF Sound, TypeOK, DemandHeld, SignalHeld, Asking, PointerKnown,
      ParkedIsReachable, Reachable, future, Sides, Other
<1>5. SlicesMove' /\ SliceStaysGood'
  BY DEF Sound, TypeOK, SlicesMove, SliceStaysGood, Reclaims, Room, asked
<1>6. QED
  BY <1>1, <1>2, <1>3, <1>4, <1>5 DEF Sound

(* The handles: closed, converted, dropped without a word, split once more;  *)
(* and the slices and futures of a peeker.                                   *)
LEMMA HandleSound ==
  ASSUME Sound,
         \/ \E side \in Sides : Close(side)
         \/ Peek \/ Reopen
  PROVE  Sound'
<1> USE DEF Close, Peek, EndPeek, DropPeeker, Convert, BeginPeek, Reopen, Goto
<1>1. TypeOK'
  <2>1. CASE \E side \in Sides : Close(side)
    BY <2>1 DEF Sound, TypeOK, future, asked, Resting, Panics
  <2>2. CASE EndPeek
    BY <2>2, AskEndsWell, CapacityAssumption
    DEF Sound, TypeOK, future, asked, Resting, Sides
  <2>3. CASE DropPeeker \/ Convert
    BY <2>3 DEF Sound, TypeOK, future, asked, Resting
  <2>4. CASE \E k \in Skips : BeginPeek(k)
    BY <2>4 DEF Sound, TypeOK, future, Sides
  <2>5. CASE Reopen
    BY <2>5 DEF Sound, TypeOK, future, Resting
  <2>6. QED
    BY <2>1, <2>2, <2>3, <2>4, <2>5
<1>2. Ordered(word)' /\ SkipPeeks'
  BY DEF Sound, SkipPeeks, AskEnds, asked
<1>3. DemandHeld' /\ SignalHeld' /\ PointerKnown' /\ ParkedIsReachable'
  BY DEF Sound, TypeOK, DemandHeld, SignalHeld, Asking, PointerKnown,
      ParkedIsReachable, Reachable, future, Sides, Other
<1>4. SlicesMove' /\ SliceStaysGood'
  BY DEF Sound, TypeOK, SlicesMove, SliceStaysGood, Reclaims, Room, AskEnds,
      asked, Sides
<1>5. QED
  BY <1>1, <1>2, <1>3, <1>4 DEF Sound

(* The drop of a slice.  The position moves by the slice alone, and the      *)
(* other side's room does not shrink.                                        *)
LEMMA ReclaimMoves ==
  ASSUME Sound, NEW side \in Sides, Reclaim(side)
  PROVE  /\ Goto(side, "signal")
         /\ held' = [held EXCEPT ![side] = 0]
         /\ UNCHANGED <<cell, slot, future, ptr, asked>>
         /\ word' \in Words /\ Ordered(word')
         /\ Room(Other(side)) \in Nat /\ Room(Other(side))' \in Nat
         /\ Room(Other(side)) <= Room(Other(side))'
<1>1. held[side] \in 1 .. Room(side) /\ Room(side) \in Nat
  <2>1. Room(side) \in 0 .. Capacity
    BY RoomIsLength DEF Sound
  <2>2. QED
    BY <2>1, CapacityAssumption
    DEF Sound, TypeOK, Reclaim, SlicesMove, Reclaims, SliceStaysGood
<1>2. /\ word' = IF side = "writer" THEN WriterMoved(word, held[side])
                                    ELSE ReaderMoved(word, held[side])
      /\ Goto(side, "signal")
      /\ held' = [held EXCEPT ![side] = 0]
      /\ UNCHANGED <<cell, slot, future, ptr, asked>>
  BY <1>1 DEF Reclaim
<1>3. /\ word' \in Words /\ Ordered(word')
      /\ Room(Other(side)) <= Room(Other(side))'
  <2>1. CASE side = "writer"
    BY <2>1, <1>1, <1>2, WriterMoves DEF Sound, TypeOK, Room, Other
  <2>2. CASE side = "reader"
    BY <2>2, <1>1, <1>2, ReaderMoves DEF Sound, TypeOK, Room, Other
  <2>3. QED
    BY <2>1, <2>2 DEF Sides
<1>4. Room(Other(side)) \in Nat /\ Room(Other(side))' \in Nat
  <2>1. /\ Room("writer") \in Nat /\ Room("reader") \in Nat
        /\ Room("writer")' \in Nat /\ Room("reader")' \in Nat
    BY <1>3, WordFacts, CapacityAssumption DEF Sound, TypeOK, Room
  <2>2. QED
    BY <2>1 DEF Other
<1>5. QED
  BY <1>2, <1>3, <1>4

(* So what the other side holds stays good.                                  *)
LEMMA ReclaimSound ==
  ASSUME Sound, NEW side \in Sides, Reclaim(side)
  PROVE  Sound'
<1>1. TypeOK'
  BY ReclaimMoves, CapacityAssumption
  DEF Sound, TypeOK, Goto, future, asked, Resting
<1>2. pc[side] = "holding" /\ pc' = [pc EXCEPT ![side] = "signal"]
  BY ReclaimMoves DEF Reclaim, Goto
<1>3. /\ DemandHeld' /\ SignalHeld' /\ PointerKnown' /\ SkipPeeks'
  BY <1>2, ReclaimMoves
  DEF Sound, TypeOK, DemandHeld, SignalHeld, Asking, PointerKnown, SkipPeeks,
      future, asked
<1>4. ParkedIsReachable'
  BY <1>2, ReclaimMoves
  DEF Sound, TypeOK, ParkedIsReachable, Reachable, future, Sides, Other
<1>5. SlicesMove'
  BY <1>2, ReclaimMoves DEF Sound, TypeOK, SlicesMove, Reclaims, asked
<1>6. SliceStaysGood'
  <2>1. \A s \in Sides : s # side => s = Other(side) /\ held[s] \in Nat
    BY CapacityAssumption DEF Sound, TypeOK, Sides, Other
  <2>2. QED
    BY <1>2, <2>1, ReclaimMoves DEF Sound, TypeOK, SliceStaysGood
<1>7. QED
  BY <1>1, <1>3, <1>4, <1>5, <1>6, ReclaimMoves DEF Sound

(* What it says holds of a new buffer.                                       *)
LEMMA InitSound == Init => Sound
<1> SUFFICES ASSUME Init
             PROVE  Sound
  OBVIOUS
<1>1. TypeOK /\ Ordered(word)
  <2>1. word \in Words /\ Ordered(word) /\ 0 \in 0 .. Capacity
    BY EmptyIsWord, CapacityAssumption DEF Init
  <2>2. QED
    BY <2>1 DEF Init, TypeOK, Resting
<1>2. /\ DemandHeld /\ SignalHeld /\ PointerKnown /\ ParkedIsReachable
      /\ SkipPeeks /\ SlicesMove /\ SliceStaysGood
  BY DEF Init, DemandHeld, SignalHeld, PointerKnown, ParkedIsReachable,
      SkipPeeks, SlicesMove, SliceStaysGood
<1>3. QED
  BY <1>1, <1>2 DEF Sound

(* No step of either task, nor of their callers, takes it away.              *)
LEMMA NextSound ==
  ASSUME AsksForSome
  PROVE  Sound /\ [Next]_vars => Sound'
<1> SUFFICES ASSUME Sound, [Next]_vars
             PROVE  Sound'
  OBVIOUS
<1>1. ASSUME NEW side \in Sides, Step(side)
      PROVE  Sound'
  BY <1>1, TrySound, EndSound, AskSound, SignalSound
  DEF Step, Poll, Retry
<1>2. ASSUME NEW side \in Sides, Continue(side)
      PROVE  Sound'
  BY <1>2, AskSound, ReclaimSound DEF Continue
<1>3. ASSUME NEW side \in Sides,
             \/ Close(side) \/ Cancel(side) \/ DropPending(side)
             \/ PollUnasked(side)
      PROVE  Sound'
  BY <1>3, HandleSound, AskSound, EndSound
<1>4. CASE Peek \/ Reopen
  BY <1>4, HandleSound
<1>5. CASE UNCHANGED vars
  BY <1>5
  DEF vars, future, asked, Sound, TypeOK, DemandHeld, SignalHeld, PointerKnown,
      ParkedIsReachable, Reachable, SkipPeeks, SlicesMove, SliceStaysGood,
      Reclaims, Room
<1>6. QED
  BY <1>1, <1>2, <1>3, <1>4, <1>5 DEF Next

(* Whatever Uses two threads make of their futures, slices and handles, as   *)
(* long as they ask for something.                                           *)
THEOREM SoundAlways ==
  ASSUME AsksForSome
  PROVE  Spec => []Sound
<1>1. Sound /\ [Next]_vars => Sound'
  BY NextSound
<1>2. QED
  BY <1>1, InitSound, PTL DEF Spec

(* Every variable keeps its type.                                            *)
THEOREM TypesHold ==
  ASSUME AsksForSome
  PROVE  Spec => []TypeOK
<1>1. Sound => TypeOK
  BY DEF Sound
<1>2. QED
  BY <1>1, SoundAlways, PTL

(* Whatever is cancelled or dropped around it, a future that waits is in the *)
(* slot, or its signal is sent or about to be: try_signal_ empties the slot  *)
(* only for the demand it goes on to signal, abort_demand only for its own.  *)
THEOREM WaitersAreReachable ==
  ASSUME AsksForSome
  PROVE  Spec => []WaiterIsReachable
<1>1. Sound => WaiterIsReachable
  BY DEF Sound, ParkedIsReachable, Reachable, WaiterIsReachable
<1>2. QED
  BY <1>1, SoundAlways, PTL

(* A slice of at least one element, and a peeked one, stays within its       *)
(* side's room until it is dropped, whatever Uses the other side makes       *)
(* meanwhile; also a slice of a handle that was split off when the cells     *)
(* were closed already.                                                      *)
THEOREM SlicesStayGood ==
  ASSUME AsksForSome
  PROVE  Spec => []SliceStaysGood
<1>1. Sound => SliceStaysGood
  BY DEF Sound
<1>2. QED
  BY <1>1, SoundAlways, PTL

(* No drop of a slice finds that the position cannot be moved.               *)
SlicesGoBack == \A side \in Sides : pc[side] # "panic_reclaim"

(* The assertion of reclaim_ref and reclaim_mut never fails for slices of at *)
(* least one element, between two threads with all Uses: what the slice was  *)
(* taken from is there until it is dropped, also after a second split.       *)
THEOREM SlicesAreTakenBack ==
  ASSUME AsksForSome
  PROVE  Spec => []SlicesGoBack
<1>1. Sound /\ SlicesGoBack /\ [Next]_vars => SlicesGoBack'
  <2> SUFFICES ASSUME Sound, SlicesGoBack, [Next]_vars
               PROVE  SlicesGoBack'
    OBVIOUS
  <2>1. ASSUME NEW side \in Sides, Reclaim(side)
        PROVE  SlicesGoBack'
    BY <2>1, ReclaimMoves DEF Sound, TypeOK, SlicesGoBack, Goto
  <2>2. ASSUME NEW side \in Sides,
               \/ Step(side) \/ Begin(side) \/ Repoll(side) \/ Close(side)
               \/ Cancel(side) \/ DropPending(side) \/ PollUnasked(side)
        PROVE  SlicesGoBack'
    BY <2>2
    DEF Sound, TypeOK, SlicesGoBack, Step, Begin, Poll, Retry, Try,
        FindsClosing, Enqueue, CheckAgain, Check, Park, Await, Repoll, Abort,
        Denied, Cancel, DropPending, PollUnasked, SignalLoad, SignalCheck,
        SignalTake, SignalSend, SignalDone, Close, Goto
  <2>3. CASE Peek \/ Reopen
    BY <2>3 DEF Peek, EndPeek, DropPeeker, Convert, BeginPeek, Reopen, Sound,
      TypeOK, SlicesGoBack, Goto, Sides
  <2>4. CASE UNCHANGED vars
    BY <2>4 DEF vars, SlicesGoBack
  <2>5. QED
    BY <2>1, <2>2, <2>3, <2>4 DEF Next, Continue
<1>2. Init => SlicesGoBack
  BY DEF Init, SlicesGoBack
<1>3. QED
  BY <1>1, <1>2, SoundAlways, PTL DEF Spec

-----------------------------------------------------------------------------
(* Futures that are awaited to their end *)

(* Callers that neither cancel a future, nor drop or poll it while it waits. *)
AwaitsToTheEnd == Uses \cap {"cancel", "drop", "poll"} = {}

(* What such callers and their futures do, on one thread or two.             *)
Patient ==
  \/ \E side \in Sides :
       MayRun(side) /\ (Step(side) \/ Continue(side) \/ Close(side))
  \/ MayRun("reader") /\ Peek
  \/ Reopen

(* A future ends only with its answer, and is polled again only for it.      *)
NeverLeft ==
  \A side \in Sides :
    /\ ~cancelled[side] /\ pc[side] # "abort"
    /\ woken[side] => signal[side]

(* The slot holds the demand of a future that waits for it to be answered,   *)
(* and no demand is answered on its way there.                               *)
SlotWaits ==
  \A side \in Sides :
    /\ slot = side => pc[side] \in {"await", "waiting"} /\ ~signal[side]
    /\ pc[side] \in {"check", "park"} => ~signal[side]

(* A try_signal_ under way has found the other side's demand, in the slot    *)
(* until it takes it out; its future waits on.                               *)
PointersWait ==
  \A side \in Sides :
    /\ pc[side] \in {"signal_check", "signal_take"}
         => ptr[side] = Other(side) /\ slot = Other(side)
    /\ pc[side] = "signal_send"
         => /\ ptr[side] = Other(side) /\ slot # Other(side)
            /\ pc[Other(side)] \in {"await", "waiting"}
            /\ ~signal[Other(side)]

Loyal == NeverLeft /\ SlotWaits /\ PointersWait

(* A future that ends has been taken out of the slot before.                 *)
LEMMA FutureLoyal ==
  ASSUME Sound, Loyal, NEW side \in Sides,
         \/ Poll(side) \/ Retry(side) \/ FindsClosing(side) \/ Denied(side)
         \/ Abort(side)
  PROVE  Loyal'
<1> USE DEF Poll, Retry, Try, FindsClosing, Denied, Abort, FutureEnds, Goto,
            future
<1>1. NeverLeft'
  BY DEF Sound, TypeOK, Loyal, NeverLeft
<1>2. SlotWaits'
  BY DEF Sound, TypeOK, Loyal, NeverLeft, SlotWaits, Sides
<1>3. PointersWait'
  BY DEF Sound, TypeOK, Loyal, NeverLeft, SlotWaits, PointersWait, Sides, Other
<1>4. QED
  BY <1>1, <1>2, <1>3 DEF Loyal

(* One that waits does so from its parking on, and leaves with its answer.   *)
LEMMA AskLoyal ==
  ASSUME Sound, Loyal, NEW side \in Sides,
         \/ Begin(side) \/ Enqueue(side) \/ CheckAgain(side) \/ Check(side)
         \/ Park(side) \/ Await(side) \/ Repoll(side)
  PROVE  Loyal'
<1> USE DEF Begin, Enqueue, CheckAgain, Check, Park, Await, Repoll, Goto,
            future
<1>1. NeverLeft'
  BY DEF Sound, TypeOK, Loyal, NeverLeft
<1>2. SlotWaits'
  BY DEF Sound, TypeOK, Loyal, NeverLeft, SlotWaits, SignalHeld, Asking, Sides
<1>3. PointersWait'
  BY DEF Sound, TypeOK, Loyal, NeverLeft, SlotWaits, PointersWait, Sides, Other
<1>4. QED
  BY <1>1, <1>2, <1>3 DEF Loyal

(* What try_signal_ finds is what the other side waits for.                  *)
LEMMA SignalLoyal ==
  ASSUME Sound, Loyal, NEW side \in Sides,
         \/ SignalLoad(side) \/ SignalCheck(side) \/ SignalTake(side)
         \/ SignalSend(side)
  PROVE  Loyal'
<1> USE DEF SignalLoad, SignalCheck, SignalTake, SignalSend, SignalDone, Goto,
            future
<1>1. NeverLeft'
  BY DEF Sound, TypeOK, DemandHeld, PointerKnown, Loyal, NeverLeft,
         PointersWait, Sides, Other
<1>2. SlotWaits'
  BY DEF Sound, TypeOK, Loyal, SlotWaits, PointersWait, Sides, Other
<1>3. PointersWait'
  BY DEF Sound, TypeOK, Loyal, SlotWaits, PointersWait, Sides, Other
<1>4. QED
  BY <1>1, <1>2, <1>3 DEF Loyal

(* Slices and handles change while their side waits for nothing.             *)
LEMMA HandleLoyal ==
  ASSUME Sound, Loyal,
         \/ \E side \in Sides : Reclaim(side) \/ Close(side)
         \/ Peek \/ Reopen
  PROVE  Loyal'
<1> USE DEF Reclaim, Close, Peek, EndPeek, DropPeeker, Convert, BeginPeek,
            Reopen, Goto, future
<1>1. NeverLeft'
  BY DEF Sound, TypeOK, Loyal, NeverLeft
<1>2. SlotWaits'
  BY DEF Sound, TypeOK, Loyal, SlotWaits, Sides
<1>3. PointersWait'
  BY DEF Sound, TypeOK, Loyal, SlotWaits, PointersWait, Sides, Other
<1>4. QED
  BY <1>1, <1>2, <1>3 DEF Loyal

(* They keep it all.                                                         *)
LEMMA PatientLoyal ==
  Sound /\ Loyal /\ (Patient \/ UNCHANGED vars) => Loyal'
<1> SUFFICES ASSUME Sound, Loyal, Patient \/ UNCHANGED vars
             PROVE  Loyal'
  OBVIOUS
<1>1. ASSUME NEW side \in Sides, Step(side) \/ Continue(side) \/ Close(side)
      PROVE  Loyal'
  BY <1>1, FutureLoyal, AskLoyal, SignalLoyal, HandleLoyal DEF Step, Continue
<1>2. CASE Peek \/ Reopen
  BY <1>2, HandleLoyal
<1>3. CASE UNCHANGED vars
  BY <1>3 DEF vars, future, asked, Loyal, NeverLeft, SlotWaits, PointersWait
<1>4. QED
  BY <1>1, <1>2, <1>3 DEF Patient

(* It holds of a new buffer.                                                 *)
LEMMA InitLoyal == Init => Loyal
  BY DEF Init, Loyal, NeverLeft, SlotWaits, PointersWait, Sides

(* Under AwaitsToTheEnd the steps of Next are theirs.                        *)
LEMMA NextIsPatient ==
  ASSUME AwaitsToTheEnd, Next
  PROVE  Patient
  BY DEF AwaitsToTheEnd, Next, Patient, Cancel, DropPending, PollUnasked

(* Throughout, on any number of threads.                                     *)
LEMMA LoyalAlways ==
  ASSUME AsksForSome, AwaitsToTheEnd
  PROVE  Spec => []Loyal
<1>1. Sound /\ Loyal /\ [Next]_vars => Loyal'
  BY NextIsPatient, PatientLoyal
<1>2. QED
  BY <1>1, InitLoyal, SoundAlways, PTL DEF Spec

(* What it says of the demands that are pointed at.                          *)
LEMMA LoyalSays == Sound /\ Loyal => NoDangling
  BY DEF Sound, TypeOK, DemandHeld, Loyal, SlotWaits, PointersWait, NoDangling,
         Sides, Other

(* The slot and the try_signal_ under way point at demands that live: no     *)
(* future is freed before its demand has been answered and taken out.        *)
THEOREM NoneDangles ==
  ASSUME AsksForSome, AwaitsToTheEnd
  PROVE  Spec => []NoDangling
  BY SoundAlways, LoyalAlways, LoyalSays, PTL

-----------------------------------------------------------------------------
(* Tasks that are woken *)

(* No future peeks, and there is something for a future that has been        *)
(* answered: for one whose signal has been sent, one that goes on with it,   *)
(* and one whose demand try_signal_ has checked.                             *)
AnsweredForRoom ==
  /\ ~peeking
  /\ \A side \in Sides :
       /\ signal[side] => Room(side) > 0
       /\ pc[side] \in {"resume", "retry"} => Room(side) > 0
       /\ pc[side] # "denied"
       /\ pc[side] \in {"signal_take", "signal_send"} /\ demand[ptr[side]]
            => Room(ptr[side]) > 0

(* No demand is made where a checked one is pointed at.                      *)
Undisturbed(side) ==
  pc[side] = "refused" =>
    \A s \in Sides :
      pc[s] \in {"signal_take", "signal_send"} => ptr[s] # side

(* Either the two do not run in parallel, or no future is left.              *)
LEMMA NoneDisturbs ==
  ASSUME ~Parallel \/ Loyal, Sound, NEW side \in Sides, MayRun(side)
  PROVE  Undisturbed(side)
  BY DEF Loyal, SlotWaits, PointersWait, Sound, TypeOK, MayRun, Resting,
         Panics, Undisturbed, Sides, Other

(* A future that goes on after its answer finds its slice.                   *)
LEMMA FutureHeard ==
  ASSUME Sound, AnsweredForRoom, NEW side \in Sides,
         \/ Poll(side) \/ Retry(side) \/ FindsClosing(side) \/ Denied(side)
         \/ Abort(side) \/ DropPending(side)
  PROVE  AnsweredForRoom'
<1> USE DEF Poll, Retry, Try, FindsClosing, Denied, Abort, DropPending,
            FutureEnds, AskEnds, Goto, future, asked
<1>1. ~peeking'
  BY DEF AnsweredForRoom
<1>2. pc[side] = "retry" => Obtains(side)
  <2>1. Room(side) \in Nat /\ Skipped(side) = 0
    BY RoomIsLength, CapacityAssumption
    DEF Sound, AnsweredForRoom, SkipPeeks, Skipped
  <2>2. QED
    BY <2>1 DEF AnsweredForRoom, Obtains
<1>3. ASSUME NEW s \in Sides
      PROVE  /\ signal'[s] => Room(s)' > 0
             /\ pc'[s] \in {"resume", "retry"} => Room(s)' > 0
             /\ pc'[s] # "denied"
  <2>1. (Room(s))' = Room(s)
    BY DEF Room
  <2>2. signal'[s] => signal[s]
    BY <1>3 DEF Sound, TypeOK
  <2>3. pc'[s] \in {"resume", "retry"} => pc[s] \in {"resume", "retry"}
    BY <1>3 DEF Sound, TypeOK
  <2>4. pc'[s] # "denied"
    BY <1>2, <1>3 DEF Sound, TypeOK, AnsweredForRoom
  <2>5. QED
    BY <1>3, <2>1, <2>2, <2>3, <2>4 DEF AnsweredForRoom
<1>4. ASSUME NEW s \in Sides,
             pc'[s] \in {"signal_take", "signal_send"}, demand'[ptr'[s]]
      PROVE  Room(ptr[s])' > 0
  <2>1. pc[s] = pc'[s] /\ ptr[s] = ptr'[s] /\ demand[ptr[s]] /\ word' = word
    BY <1>4 DEF Sound, TypeOK, PointerKnown
  <2>2. QED
    BY <1>4, <2>1 DEF AnsweredForRoom, Room
<1>5. QED
  BY <1>1, <1>3, <1>4 DEF AnsweredForRoom

(* A demand is answered by its own check when there is something for it.     *)
LEMMA AskHeard ==
  ASSUME Sound, AnsweredForRoom, NEW side \in Sides, Undisturbed(side),
         \/ Begin(side) \/ Enqueue(side) \/ CheckAgain(side) \/ Check(side)
         \/ Park(side) \/ Await(side) \/ Repoll(side) \/ Cancel(side)
         \/ PollUnasked(side) \/ Close(side)
  PROVE  AnsweredForRoom'
<1> USE DEF Begin, Enqueue, CheckAgain, Check, Park, Await, Repoll, Cancel,
            PollUnasked, Close, Goto, future, asked
<1>1. ~peeking' /\ UNCHANGED <<word, ptr>>
  BY DEF AnsweredForRoom
<1>2. Checks(side) => Room(side) > 0
  <2>1. Room(side) \in Nat /\ Skipped(side) = 0
    BY RoomIsLength, CapacityAssumption
    DEF Sound, AnsweredForRoom, SkipPeeks, Skipped
  <2>2. QED
    BY <2>1 DEF Checks
<1>3. ASSUME NEW s \in Sides
      PROVE  /\ signal'[s] => Room(s)' > 0
             /\ pc'[s] \in {"resume", "retry"} => Room(s)' > 0
             /\ pc'[s] # "denied"
  BY <1>1, <1>2, <1>3 DEF Sound, TypeOK, AnsweredForRoom, Room
<1>4. ASSUME NEW s \in Sides,
             pc'[s] \in {"signal_take", "signal_send"}, demand'[ptr'[s]]
      PROVE  Room(ptr[s])' > 0
  <2>1. pc[s] = pc'[s] /\ demand[ptr[s]]
    BY <1>1, <1>4 DEF Sound, TypeOK, PointerKnown, Undisturbed
  <2>2. QED
    BY <1>1, <1>4, <2>1 DEF AnsweredForRoom, Room
<1>5. QED
  BY <1>1, <1>3, <1>4 DEF AnsweredForRoom

(* The check of a demand that lives answers as its future would.             *)
LEMMA SignalHeard ==
  ASSUME Sound, AnsweredForRoom, NEW side \in Sides,
         \/ SignalLoad(side) \/ SignalCheck(side) \/ SignalTake(side)
         \/ SignalSend(side)
  PROVE  AnsweredForRoom'
<1> USE DEF SignalLoad, SignalCheck, SignalTake, SignalSend, SignalDone, Goto,
            future, asked
<1>1. ~peeking' /\ UNCHANGED <<word, demand>>
  BY DEF AnsweredForRoom
<1>2. ASSUME NEW s \in Sides, Checks(s)
      PROVE  Room(s) > 0
  <2>1. Room(s) \in Nat /\ Skipped(s) = 0
    BY RoomIsLength, CapacityAssumption
    DEF Sound, AnsweredForRoom, SkipPeeks, Skipped
  <2>2. QED
    BY <1>2, <2>1 DEF Checks
<1>3. ASSUME NEW s \in Sides
      PROVE  /\ signal'[s] => Room(s)' > 0
             /\ pc'[s] \in {"resume", "retry"} => Room(s)' > 0
             /\ pc'[s] # "denied"
  BY <1>1, <1>3 DEF Sound, TypeOK, PointerKnown, AnsweredForRoom, Room
<1>4. ASSUME NEW s \in Sides,
             pc'[s] \in {"signal_take", "signal_send"}, demand'[ptr'[s]]
      PROVE  Room(ptr[s])' > 0
  <2>1. CASE SignalCheck(side) /\ s = side
    <3>1. ptr'[s] = ptr[s] /\ ptr[s] \in Sides /\ demand[ptr[s]]
      BY <1>1, <1>4, <2>1 DEF Sound, TypeOK, PointerKnown
    <3>2. Checks(ptr[s])
      BY <1>4, <2>1, <3>1 DEF Sound, TypeOK, CheckAnswers, AnsweredForRoom
    <3>3. QED
      BY <1>1, <1>2, <3>1, <3>2 DEF Room
  <2>2. CASE ~(SignalCheck(side) /\ s = side)
    BY <1>1, <1>4, <2>2 DEF Sound, TypeOK, AnsweredForRoom, Room
  <2>3. QED
    BY <2>1, <2>2
<1>5. QED
  BY <1>1, <1>3, <1>4 DEF AnsweredForRoom

(* The drop of a slice takes from nobody else, and its own side asks for     *)
(* nothing.                                                                  *)
LEMMA ReclaimHeard ==
  ASSUME Sound, AnsweredForRoom, NEW side \in Sides, Reclaim(side)
  PROVE  AnsweredForRoom'
<1>1. pc[side] = "holding" /\ ~demand[side] /\ ~signal[side]
  BY DEF Sound, SignalHeld, Asking, Reclaim
<1>2. pc' = [pc EXCEPT ![side] = "signal"]
      /\ UNCHANGED <<demand, signal, ptr, peeking>>
  BY ReclaimMoves DEF Goto, future, asked
<1>3. ASSUME NEW s \in Sides, s # side, Room(s) > 0
      PROVE  Room(s)' > 0
  <2>1. s = Other(side)
    BY <1>3 DEF Sides, Other
  <2>2. QED
    BY <1>3, <2>1, ReclaimMoves
<1>4. ASSUME NEW s \in Sides
      PROVE  /\ signal'[s] => Room(s)' > 0
             /\ pc'[s] \in {"resume", "retry"} => Room(s)' > 0
             /\ pc'[s] # "denied"
  BY <1>1, <1>2, <1>3, <1>4 DEF Sound, TypeOK, AnsweredForRoom
<1>5. ASSUME NEW s \in Sides,
             pc'[s] \in {"signal_take", "signal_send"}, demand'[ptr'[s]]
      PROVE  Room(ptr[s])' > 0
  <2>1. pc[s] = pc'[s] /\ demand[ptr[s]] /\ ptr[s] \in Sides /\ ptr[s] # side
    BY <1>1, <1>2, <1>5 DEF Sound, TypeOK, PointerKnown
  <2>2. QED
    BY <1>2, <1>3, <1>5, <2>1 DEF AnsweredForRoom
<1>6. QED
  BY <1>2, <1>4, <1>5 DEF AnsweredForRoom

(* Every step keeps it that begins no PeekFuture, unless two threads leave   *)
(* futures alone.                                                            *)
LEMMA NextHeard ==
  ASSUME ~Parallel \/ Loyal, Sound, AnsweredForRoom, ~peeking', [Next]_vars
  PROVE  AnsweredForRoom'
<1>1. ASSUME NEW side \in Sides, MayRun(side),
             \/ Step(side) \/ Continue(side) \/ Close(side)
             \/ Cancel(side) \/ DropPending(side) \/ PollUnasked(side)
      PROVE  AnsweredForRoom'
  BY <1>1, NoneDisturbs, FutureHeard, AskHeard, SignalHeard, ReclaimHeard
  DEF Step, Continue
<1>2. CASE Peek \/ Reopen
  BY <1>2
  DEF Peek, EndPeek, DropPeeker, Convert, BeginPeek, Reopen, Goto, future,
      asked, Sound, TypeOK, AnsweredForRoom, Room
<1>3. CASE UNCHANGED vars
  BY <1>3 DEF vars, future, asked, AnsweredForRoom, Room
<1>4. QED
  BY <1>1, <1>2, <1>3 DEF Next

(* It holds of a new buffer.                                                 *)
LEMMA InitHeard == Init => AnsweredForRoom
  BY DEF Init, AnsweredForRoom

(* What it says of the tasks that are woken.                                 *)
LEMMA HeardSays == Sound /\ AnsweredForRoom => WokenWithRoom
<1> SUFFICES ASSUME Sound, AnsweredForRoom
             PROVE  WokenWithRoom
  OBVIOUS
<1>1. ASSUME NEW side \in Sides
      PROVE  Obtains(side) <=> Room(side) > 0
  <2>1. Room(side) \in Nat /\ Skipped(side) = 0
    BY RoomIsLength, CapacityAssumption
    DEF Sound, AnsweredForRoom, SkipPeeks, Skipped
  <2>2. QED
    BY <2>1 DEF Obtains
<1>2. QED
  BY <1>1 DEF AnsweredForRoom, WokenWithRoom

(* Callers whose futures do not peek, and who await them to the end unless   *)
(* they share one thread.                                                    *)
WakesForRoom == Skips = {} /\ (~Parallel \/ AwaitsToTheEnd)

(* It holds throughout of such callers.                                      *)
LEMMA HeardAlways ==
  ASSUME AsksForSome, WakesForRoom
  PROVE  Spec => []AnsweredForRoom
<1>1. Sound /\ ~peeking /\ [Next]_vars => ~peeking'
  BY DEF WakesForRoom, Next, Step, Continue, Peek, Begin, Poll, Retry, Try,
    FindsClosing, Enqueue, CheckAgain, Check, Park, Await, Repoll, Abort,
    Denied, Cancel, DropPending, PollUnasked, Reclaim, EndPeek, SignalLoad, SignalCheck,
    SignalTake, SignalSend, Close, DropPeeker, Convert, Reopen, AskEnds,
    asked, vars
<1>2. AnsweredForRoom => ~peeking
  BY DEF AnsweredForRoom
<1>3. CASE ~Parallel
  <2>1. Sound /\ AnsweredForRoom /\ [Next]_vars => AnsweredForRoom'
    BY <1>1, <1>2, <1>3, NextHeard
  <2>2. QED
    BY <2>1, InitHeard, SoundAlways, PTL DEF Spec
<1>4. CASE AwaitsToTheEnd
  <2>1. Sound /\ Loyal /\ AnsweredForRoom /\ [Next]_vars => AnsweredForRoom'
    BY <1>1, <1>2, NextHeard
  <2>2. Spec => []Loyal
    BY <1>4, LoyalAlways
  <2>3. QED
    BY <2>1, <2>2, InitHeard, SoundAlways, PTL DEF Spec
<1>5. QED
  BY <1>3, <1>4 DEF WakesForRoom

(* A task is woken only for a slice it will find: what its demand was        *)
(* checked for is still there when it runs.                                  *)
THEOREM NoneWakesInVain ==
  ASSUME AsksForSome, WakesForRoom
  PROVE  Spec => []WokenWithRoom
  BY SoundAlways, HeardAlways, HeardSays, PTL

-----------------------------------------------------------------------------
(* Tasks that are polled again *)

(* A future is polled again with its answer, and finds its slice then.       *)
PolledWithAnswer ==
  \A side \in Sides :
    /\ pc[side] = "poll" /\ demand[side] => signal[side]
    /\ pc[side] = "refused" => ~demand[side]
    /\ pc[side] # "panic_check"

(* Only a token wakes a task without an answer.                              *)
LEMMA NextNeverLeft ==
  ASSUME "cancel" \notin Uses, Sound, NeverLeft, [Next]_vars
  PROVE  NeverLeft'
<1> USE DEF Goto, future, asked
<1>1. ASSUME NEW side \in Sides,
             \/ Poll(side) \/ Retry(side) \/ FindsClosing(side)
             \/ Denied(side) \/ Abort(side) \/ DropPending(side)
      PROVE  NeverLeft'
  BY <1>1 DEF Poll, Retry, Try, FindsClosing, Denied, Abort, DropPending,
    FutureEnds, Sound, TypeOK, NeverLeft
<1>2. ASSUME NEW side \in Sides,
             \/ Begin(side) \/ Enqueue(side) \/ CheckAgain(side)
             \/ Check(side) \/ Park(side) \/ Await(side) \/ Repoll(side)
             \/ PollUnasked(side) \/ Close(side)
      PROVE  NeverLeft'
  BY <1>2 DEF Begin, Enqueue, CheckAgain, Check, Park, Await, Repoll,
    PollUnasked, Close,
    Sound, TypeOK, NeverLeft
<1>3. ASSUME NEW side \in Sides,
             \/ SignalLoad(side) \/ SignalCheck(side) \/ SignalTake(side)
             \/ SignalSend(side)
      PROVE  NeverLeft'
  BY <1>3 DEF SignalLoad, SignalCheck, SignalTake, SignalSend, SignalDone,
    Sound, TypeOK, DemandHeld, SignalHeld, PointerKnown, NeverLeft
<1>4. ASSUME NEW side \in Sides, Reclaim(side)
      PROVE  NeverLeft'
  BY <1>4, ReclaimMoves DEF Sound, TypeOK, NeverLeft
<1>5. CASE Peek \/ Reopen
  BY <1>5 DEF Peek, EndPeek, DropPeeker, Convert, BeginPeek, Reopen, Sound,
    TypeOK, NeverLeft, Sides
<1>6. CASE UNCHANGED vars
  BY <1>6 DEF vars, NeverLeft
<1>7. QED
  BY <1>1, <1>2, <1>3, <1>4, <1>5, <1>6 DEF Next, Step, Continue, Cancel

(* No step takes it away, unless a token wakes the task.                     *)
LEMMA NextPolled ==
  ASSUME "poll" \notin Uses, Sound, NeverLeft, AnsweredForRoom, PolledWithAnswer, [Next]_vars
  PROVE  PolledWithAnswer'
<1> USE DEF Goto, future, asked
<1>1. ASSUME NEW side \in Sides, Poll(side) \/ Retry(side)
      PROVE  PolledWithAnswer'
  <2>1. Obtains(side) <=> Room(side) > 0
    <3>1. Room(side) \in Nat /\ Skipped(side) = 0
      BY RoomIsLength, CapacityAssumption
      DEF Sound, AnsweredForRoom, SkipPeeks, Skipped
    <3>2. QED
      BY <3>1 DEF Obtains
  <2>2. QED
    BY <1>1, <2>1
    DEF Poll, Retry, Try, FutureEnds, Sound, TypeOK, SignalHeld,
        AnsweredForRoom, PolledWithAnswer
<1>2. ASSUME NEW side \in Sides,
             \/ FindsClosing(side) \/ Denied(side) \/ Abort(side)
             \/ DropPending(side)
      PROVE  PolledWithAnswer'
  BY <1>2 DEF FindsClosing, Denied, Abort, DropPending, FutureEnds, Sound,
    TypeOK, PolledWithAnswer
<1>3. ASSUME NEW side \in Sides,
             \/ Begin(side) \/ Enqueue(side) \/ CheckAgain(side)
             \/ Check(side) \/ Park(side) \/ Await(side) \/ Repoll(side)
             \/ Close(side) \/ Cancel(side)
      PROVE  PolledWithAnswer'
  BY <1>3 DEF Begin, Enqueue, CheckAgain, Check, Park, Await, Repoll, Close,
    Cancel, Sound, TypeOK, SignalHeld, Asking, NeverLeft, PolledWithAnswer
<1>4. ASSUME NEW side \in Sides,
             \/ SignalLoad(side) \/ SignalCheck(side) \/ SignalTake(side)
             \/ SignalSend(side)
      PROVE  PolledWithAnswer'
  BY <1>4 DEF SignalLoad, SignalCheck, SignalTake, SignalSend, SignalDone,
    Sound, TypeOK, PointerKnown, PolledWithAnswer
<1>5. ASSUME NEW side \in Sides, Reclaim(side)
      PROVE  PolledWithAnswer'
  BY <1>5, ReclaimMoves DEF Sound, TypeOK, PolledWithAnswer
<1>6. CASE Peek \/ Reopen
  BY <1>6 DEF Peek, EndPeek, DropPeeker, Convert, BeginPeek, Reopen, Sound,
    TypeOK, SignalHeld, Asking, PolledWithAnswer, Sides
<1>7. CASE UNCHANGED vars
  BY <1>7 DEF vars, PolledWithAnswer
<1>8. QED
  BY <1>1, <1>2, <1>3, <1>4, <1>5, <1>6, <1>7
  DEF Next, Step, Continue, PollUnasked

(* It holds of a new buffer.                                                 *)
LEMMA InitPolled == Init => PolledWithAnswer
  BY DEF Init, PolledWithAnswer

(* The assertion that finds the demand of a future gone from its cell never  *)
(* fails without a token: a future is polled again only to find its slice,   *)
(* on one thread also when futures are dropped.                              *)
THEOREM PollsMayRepeat ==
  ASSUME AsksForSome, WakesForRoom, Uses \cap {"cancel", "poll"} = {}
  PROVE  Spec => []PollsAgain
<1>1. Init => NeverLeft
  BY DEF Init, NeverLeft
<1>2. Sound /\ NeverLeft /\ [Next]_vars => NeverLeft'
  BY NextNeverLeft
<1>3. Sound /\ NeverLeft /\ AnsweredForRoom /\ PolledWithAnswer /\ [Next]_vars
        => PolledWithAnswer'
  BY NextPolled
<1>4. PolledWithAnswer => PollsAgain
  BY DEF PolledWithAnswer, PollsAgain
<1>5. QED
  BY <1>1, <1>2, <1>3, <1>4, InitPolled, SoundAlways, HeardAlways, PTL
  DEF Spec

-----------------------------------------------------------------------------
(* One slot for two tasks of one thread *)

(* One task rests while the other runs; one that parks its demand has        *)
(* nothing to do; and if there is something for one that waits unanswered,   *)
(* the other is in try_signal_, on its way to the demand in the slot.        *)
OnItsWay(side) ==
  \/ slot = side /\ pc[Other(side)] = "signal"
  \/ /\ slot = side /\ ptr[Other(side)] = side
     /\ pc[Other(side)] \in {"signal_check", "signal_take"}
  \/ pc[Other(side)] = "signal_send" /\ ptr[Other(side)] = side

Attended ==
  /\ \E side \in Sides : pc[side] \in Resting
  /\ \A side \in Sides :
       /\ pc[side] = "park" => Room(side) = 0
       /\ pc[side] \in {"await", "waiting"} /\ ~signal[side]
            => Room(side) = 0 \/ OnItsWay(side)

(* What the one that runs may rely on.                                       *)
LEMMA AloneAttended ==
  ASSUME ~Parallel, ~peeking, Sound, Attended, NEW side \in Sides,
         MayRun(side)
  PROVE  /\ Other(side) \in Sides /\ Other(side) # side
         /\ pc[Other(side)] \in Resting
         /\ \A s \in Sides : s = side \/ s = Other(side)
         /\ \A s \in Sides : Room(s) \in Nat
         /\ \A s \in Sides : Checks(s) <=> Room(s) # 0
<1>1. \A s \in Sides : Room(s) \in Nat /\ Skipped(s) = 0
  BY RoomIsLength, CapacityAssumption DEF Sound, SkipPeeks, Skipped
<1>2. \A s \in Sides : Checks(s) <=> Room(s) # 0
  BY <1>1 DEF Checks
<1>3. QED
  BY <1>1, <1>2 DEF MayRun, Sides, Other

(* A step that leaves the word and the other task where they are, and does   *)
(* not wait unanswered with something to do.                                 *)
LEMMA OwnAttended ==
  ASSUME ~Parallel, ~peeking, Sound, Attended, NEW side \in Sides,
         MayRun(side),
         \/ Poll(side) \/ Retry(side) \/ FindsClosing(side) \/ Denied(side)
         \/ Abort(side) \/ DropPending(side) \/ Begin(side) \/ Enqueue(side)
         \/ CheckAgain(side) \/ Check(side) \/ Park(side) \/ Await(side)
         \/ Repoll(side) \/ PollUnasked(side) \/ Cancel(side) \/ Close(side)
  PROVE  Attended'
<1> USE DEF Poll, Retry, Try, FindsClosing, Denied, Abort, DropPending,
            FutureEnds, Begin, Enqueue, CheckAgain, Check, Park, Await,
            Repoll, PollUnasked, Cancel, Close, Goto, future, asked
<1>1. pc'[Other(side)] \in Resting /\ UNCHANGED <<word, ptr>>
  BY AloneAttended DEF Sound, TypeOK
<1>2. ASSUME NEW s \in Sides
      PROVE  (Room(s))' = Room(s)
  BY <1>1 DEF Room
<1>3. /\ pc'[side] = "park" => Room(side) = 0
      /\ pc'[side] \in {"await", "waiting"} /\ ~signal'[side]
           => Room(side) = 0
  BY AloneAttended
  DEF Sound, TypeOK, Attended, OnItsWay, Resting, Panics
<1>4. pc'[Other(side)] = pc[Other(side)]
      /\ signal'[Other(side)] = signal[Other(side)]
  BY AloneAttended DEF Sound, TypeOK
<1>5. pc[Other(side)] = "waiting" /\ ~signal[Other(side)]
        => Room(Other(side)) = 0
  BY AloneAttended DEF Attended, OnItsWay, Other, Sides
<1>6. QED
  BY <1>1, <1>2, <1>3, <1>4, <1>5, AloneAttended
  DEF Attended, Resting, Panics

(* try_signal_ finds the demand of a task that waits, finds that it checks,  *)
(* takes it out and answers it.                                              *)
LEMMA SignalAttended ==
  ASSUME ~Parallel, ~peeking, Sound, Attended, NEW side \in Sides,
         MayRun(side),
         \/ SignalLoad(side) \/ SignalCheck(side) \/ SignalTake(side)
         \/ SignalSend(side)
  PROVE  Attended'
<1> USE DEF SignalLoad, SignalCheck, SignalTake, SignalSend, SignalDone, Goto,
            future, asked
<1>1. pc'[Other(side)] = pc[Other(side)] /\ UNCHANGED <<word, demand>>
  BY AloneAttended DEF Sound, TypeOK
<1>2. ASSUME NEW s \in Sides
      PROVE  (Room(s))' = Room(s)
  BY <1>1 DEF Room
<1>3. pc'[side] \notin {"park", "await", "waiting"}
  BY DEF Sound, TypeOK
<1>4. ASSUME pc[Other(side)] = "waiting", ~signal'[Other(side)],
             Room(Other(side)) # 0
      PROVE  OnItsWay(Other(side))'
  <2>1. Other(Other(side)) = side /\ Other(side) # "null"
    BY DEF Sides, Other
  <2>2. /\ ~signal[Other(side)] /\ demand[Other(side)]
        /\ OnItsWay(Other(side))
    BY <1>4, AloneAttended DEF Sound, TypeOK, PointerKnown, DemandHeld,
       Attended
  <2>3. CASE SignalLoad(side)
    BY <2>1, <2>2, <2>3, AloneAttended DEF Sound, TypeOK, OnItsWay
  <2>4. CASE SignalCheck(side)
    BY <1>4, <2>1, <2>2, <2>4, AloneAttended
    DEF Sound, TypeOK, OnItsWay, CheckAnswers
  <2>5. CASE SignalTake(side)
    BY <2>1, <2>2, <2>5, AloneAttended DEF Sound, TypeOK, OnItsWay
  <2>6. CASE SignalSend(side)
    BY <1>4, <2>1, <2>2, <2>6, AloneAttended DEF Sound, TypeOK, OnItsWay
  <2>7. QED
    BY <2>3, <2>4, <2>5, <2>6
<1>5. QED
  BY <1>1, <1>2, <1>3, <1>4, AloneAttended DEF Attended, Resting, Panics

(* The drop of a slice gives the other something to do, and the demand of    *)
(* one that waits unanswered is in the slot.                                 *)
LEMMA ReclaimAttended ==
  ASSUME ~Parallel, ~peeking, Sound, Attended, NEW side \in Sides,
         MayRun(side), Reclaim(side)
  PROVE  Attended'
<1>1. /\ pc[side] = "holding" /\ pc' = [pc EXCEPT ![side] = "signal"]
      /\ UNCHANGED <<slot, signal, ptr>>
  BY ReclaimMoves DEF Reclaim, Goto, future
<1>2. Other(Other(side)) = side
  BY DEF Sides, Other
<1>3. pc[Other(side)] = "waiting" /\ ~signal[Other(side)]
        => OnItsWay(Other(side))'
  BY <1>1, <1>2, AloneAttended
  DEF Sound, TypeOK, ParkedIsReachable, Reachable, OnItsWay
<1>4. QED
  BY <1>1, <1>3, AloneAttended DEF Sound, TypeOK, Attended, Resting, Panics

(* Every step of one thread keeps it that begins no PeekFuture.              *)
LEMMA NextAttended ==
  ASSUME ~Parallel, ~peeking, Sound, Attended, [Next]_vars, ~peeking'
  PROVE  Attended'
<1>1. ASSUME NEW side \in Sides, MayRun(side),
             \/ Step(side) \/ Continue(side) \/ Close(side)
             \/ Cancel(side) \/ DropPending(side) \/ PollUnasked(side)
      PROVE  Attended'
  BY <1>1, OwnAttended, SignalAttended, ReclaimAttended DEF Step, Continue
<1>2. CASE MayRun("reader") /\ (DropPeeker \/ Convert)
  <2>1. /\ pc["reader"] = "idle" /\ pc'["reader"] \in {"idle", "closed"}
        /\ pc'["writer"] = pc["writer"]
        /\ UNCHANGED <<word, slot, signal, ptr>>
    BY <1>2 DEF DropPeeker, Convert, Goto, future, asked, Sound, TypeOK, Sides
  <2>2. QED
    BY <2>1 DEF Attended, OnItsWay, Room, Resting, Sides, Other
<1>3. CASE Reopen
  BY <1>3 DEF Reopen, Attended, Resting, Sides
<1>4. CASE UNCHANGED vars
  BY <1>4 DEF vars, future, asked, Attended, OnItsWay, Room
<1>5. QED
  BY <1>1, <1>2, <1>3, <1>4 DEF Next, Peek, EndPeek, BeginPeek

(* It holds of a new buffer.                                                 *)
LEMMA InitAttended == Init => Attended
  BY DEF Init, Attended, Resting, Sides

(* What it says of two that wait: what one of them has not, the other has.   *)
LEMMA AttendedSays == Sound /\ Attended => OneWaiter
<1> SUFFICES ASSUME Sound, Attended,
                    \A side \in Sides :
                      pc[side] \in {"park", "await", "waiting"},
                    \A side \in Sides : ~signal[side]
             PROVE  FALSE
  BY DEF OneWaiter
<1>1. Room("writer") > 0 \/ Room("reader") > 0
  BY WordFacts, CapacityAssumption DEF Sound, TypeOK, Room
<1>2. Room("writer") \in Nat /\ Room("reader") \in Nat
  BY WordFacts, CapacityAssumption DEF Sound, TypeOK, Room
<1>3. PICK side \in Sides : pc[side] = "waiting"
  BY DEF Attended, Resting, Panics
<1>4. slot = side /\ pc[Other(side)] = "park"
  BY <1>3
  DEF Sound, ParkedIsReachable, Reachable, Sides, Other
<1>5. Room(side) = 0 /\ Room(Other(side)) = 0
  BY <1>3, <1>4 DEF Attended, OnItsWay, Sides, Other
<1>6. QED
  BY <1>1, <1>2, <1>5 DEF Sides, Other

(* It holds throughout of two tasks of one thread, if none of them peeks.    *)
LEMMA AttendedAlways ==
  ASSUME AsksForSome, ~Parallel, Skips = {}
  PROVE  Spec => []Attended
<1>1. Spec => []AnsweredForRoom
  BY HeardAlways DEF WakesForRoom
<1>2. AnsweredForRoom => ~peeking
  BY DEF AnsweredForRoom
<1>3. Sound /\ AnsweredForRoom /\ AnsweredForRoom' /\ Attended /\ [Next]_vars
        => Attended'
  <2>1. AnsweredForRoom' => ~peeking'
    BY DEF AnsweredForRoom
  <2>2. QED
    BY <1>2, <2>1, NextAttended
<1>4. QED
  BY <1>1, <1>3, InitAttended, SoundAlways, PTL DEF Spec

(* One slot is enough for the demands of both sides, whatever is cancelled   *)
(* or dropped: never do two tasks of one thread wait unanswered.             *)
THEOREM OneWaits ==
  ASSUME AsksForSome, ~Parallel, Skips = {}
  PROVE  Spec => []OneWaiter
  BY AttendedAlways, AttendedSays, SoundAlways, PTL

(* One that parks its demand finds the slot empty: were the other's in it,   *)
(* neither would have anything to do.                                        *)
LEMMA ParksAlone ==
  Sound /\ Loyal /\ Attended
    => \A side \in Sides : pc[side] = "park" => slot = "null"
<1> SUFFICES ASSUME Sound, Loyal, Attended,
                    NEW side \in Sides, pc[side] = "park", slot # "null"
             PROVE  FALSE
  OBVIOUS
<1>1. Other(side) \in Sides /\ slot = Other(side)
  BY DEF Sound, TypeOK, Loyal, SlotWaits, Sides, Other
<1>2. pc[Other(side)] = "waiting" /\ ~signal[Other(side)]
  BY <1>1 DEF Loyal, SlotWaits, Attended, Resting, Panics, Sides, Other
<1>3. Other(Other(side)) = side
  BY DEF Sides, Other
<1>4. Room(side) = 0 /\ Room(Other(side)) = 0
  BY <1>1, <1>2, <1>3 DEF Attended, OnItsWay
<1>5. Room("writer") > 0 \/ Room("reader") > 0
  BY WordFacts, CapacityAssumption DEF Sound, TypeOK, Room
<1>6. QED
  BY <1>4, <1>5 DEF Sides, Other

(* The assertion on the slot never fails: two tasks of one thread that await *)
(* their futures to the end find it empty, also after the buffer has been    *)
(* split again.                                                              *)
THEOREM SlotIsLeft ==
  ASSUME AsksForSome, AwaitsToTheEnd, ~Parallel, Skips = {}
  PROVE  Spec => []SlotIsFree
<1>1. Sound /\ Loyal /\ Attended /\ SlotIsFree /\ [Next]_vars => SlotIsFree'
  <2> SUFFICES ASSUME Sound, Loyal, Attended, SlotIsFree, [Next]_vars
               PROVE  SlotIsFree'
    OBVIOUS
  <2>1. \A side \in Sides : pc[side] = "park" => slot = "null"
    BY ParksAlone
  <2>2. ASSUME NEW side \in Sides,
               \/ Step(side) \/ Continue(side) \/ Close(side)
               \/ Cancel(side) \/ DropPending(side) \/ PollUnasked(side)
        PROVE  SlotIsFree'
    BY <2>1, <2>2
    DEF Sound, TypeOK, SlotIsFree, Step, Continue, Begin, Poll, Retry, Try,
        FindsClosing, Enqueue, CheckAgain, Check, Park, Await, Repoll, Abort,
        Denied, Cancel, DropPending, PollUnasked, Reclaim, SignalLoad,
        SignalCheck, SignalTake, SignalSend, SignalDone, Close, Goto
  <2>3. CASE Peek \/ Reopen
    BY <2>3 DEF Peek, EndPeek, DropPeeker, Convert, BeginPeek, Reopen, Sound,
      TypeOK, SlotIsFree, Goto, Sides
  <2>4. CASE UNCHANGED vars
    BY <2>4 DEF vars, SlotIsFree
  <2>5. QED
    BY <2>2, <2>3, <2>4 DEF Next
<1>2. Init => SlotIsFree
  BY DEF Init, SlotIsFree
<1>3. Spec => []Attended
  BY AttendedAlways
<1>4. QED
  BY <1>1, <1>2, <1>3, SoundAlways, LoyalAlways, PTL DEF Spec

-----------------------------------------------------------------------------
(* The inductive invariant of tasks that take turns *)

(* Callers that neither cancel, drop nor poll what waits, nor split again,   *)
(* and whose futures do not peek.                                            *)
TakingTurns == ~Parallel /\ Uses \subseteq {"peek"} /\ Skips = {}

Signalling == {"signal", "signal_check", "signal_take", "signal_send"}

(* One task rests while the other runs.  A future is answered at its first   *)
(* poll or waits, and is woken only to find what it asked for.               *)
OneRuns ==
  /\ \E side \in Sides : pc[side] \in Resting
  /\ ~peeking
  /\ \A side \in Sides :
       /\ ~cancelled[side]
       /\ pc[side] \notin Panics \cup {"resume", "abort", "retry", "denied"}

(* What the cell of a side holds, by where its task is.                      *)
CellsFollow ==
  \A side \in Sides :
    /\ cell[side] = "demand" => pc[side] = "check"
    /\ cell[side] = "closed"
         => dropped[side] /\ pc[side] \in Signalling \cup {"closed"}

(* A future has a demand while it asks, and a signal only with a demand,     *)
(* while it waits or is polled again, and with something there for it.       *)
DemandsFollow ==
  \A side \in Sides :
    /\ demand[side] <=> \/ pc[side] \in {"check", "park", "await", "waiting"}
                        \/ pc[side] = "poll" /\ signal[side]
    /\ signal[side] => pc[side] \in {"waiting", "poll"} /\ Room(side) > 0
    /\ woken[side] => pc[side] = "waiting" /\ signal[side]

(* A task on its way to wait has nothing to do.                              *)
WaitsInVain ==
  \A side \in Sides :
    pc[side] \in {"refused", "check", "park", "await"} => Room(side) = 0

(* The slot holds the demand of a task that waits and has not been answered; *)
(* if there is something for it, the other side is about to look.            *)
SlotFollows ==
  \A side \in Sides :
    slot = side =>
      /\ pc[side] \in {"await", "waiting"}
      /\ ~signal[side]
      /\ \/ Room(side) = 0
         \/ pc[Other(side)] \in {"signal", "signal_check", "signal_take"}

(* A try_signal_ under way has found the other side's demand, in the slot    *)
(* until it takes it out.                                                    *)
PointersFollow ==
  \A side \in Sides :
    /\ pc[side] \in {"signal_check", "signal_take"}
         => ptr[side] = Other(side) /\ slot = Other(side)
    /\ pc[side] = "signal_send"
         => /\ ptr[side] = Other(side) /\ slot = "null"
            /\ pc[Other(side)] = "waiting" /\ ~signal[Other(side)]
    /\ pc[side] \in {"signal_take", "signal_send"} => Room(Other(side)) > 0

Orderly ==
  /\ OneRuns
  /\ CellsFollow
  /\ DemandsFollow
  /\ WaitsInVain
  /\ SlotFollows
  /\ PointersFollow

InTurns == Sound /\ Orderly

(* What such tasks do.  The steps are those of Next; a run that peeks,       *)
(* cancels, drops or splits again takes others too.                          *)
Turn ==
  \/ \E side \in Sides :
       MayRun(side) /\ (Step(side) \/ Continue(side) \/ Close(side))
  \/ MayRun("reader") /\ (DropPeeker \/ Convert)

-----------------------------------------------------------------------------
(* Its preservation *)

(* What the one that runs may rely on: the other rests, and there is always  *)
(* something to do for one of them.                                          *)
LEMMA MyTurn ==
  ASSUME ~Parallel, InTurns, NEW side \in Sides, MayRun(side)
  PROVE  /\ pc[Other(side)] \in {"idle", "holding", "waiting", "closed"}
         /\ Room(side) \in Nat /\ Room(Other(side)) \in Nat
         /\ Room(side) > 0 \/ Room(Other(side)) > 0
         /\ Obtains(side) <=> Room(side) > 0
         /\ Checks(side) <=> Room(side) > 0
         /\ Checks(Other(side)) <=> Room(Other(side)) > 0
<1>1. Other(side) \in Sides
  BY DEF Sides, Other
<1>2. /\ Room("writer") \in Nat /\ Room("reader") \in Nat
      /\ Room("writer") > 0 \/ Room("reader") > 0
  BY WordFacts, CapacityAssumption DEF InTurns, Sound, TypeOK, Room
<1>3. Skipped(side) = 0 /\ Skipped(Other(side)) = 0
  BY DEF InTurns, Orderly, Sound, SkipPeeks, OneRuns, Skipped
<1>4. pc[Other(side)] \in {"idle", "holding", "waiting", "closed"}
  BY <1>1 DEF InTurns, Orderly, OneRuns, MayRun, Resting
<1>5. Room(side) \in Nat /\ Room(Other(side)) \in Nat
      /\ (Room(side) > 0 \/ Room(Other(side)) > 0)
  BY <1>2 DEF Sides, Other
<1>6. QED
  BY <1>3, <1>4, <1>5 DEF Obtains, Checks

(* A poll that begins the call, or one that a signal has called for.  One    *)
(* that finds too little is the first of its call, since a signal comes only *)
(* when there is enough.                                                     *)
LEMMA PollTurn ==
  ASSUME ~Parallel, InTurns, NEW side \in Sides, MayRun(side),
         Poll(side)
  PROVE  Orderly'
<1> Other(side) \in Sides
  BY DEF Sides, Other
<1> USE MyTurn
    DEF InTurns, Sound, TypeOK, Orderly, Goto, future, asked, Sides, Other,
        Resting, Panics, Signalling, Room
<1> USE DEF Poll, Try, FutureEnds, Dequeue
<1>1. OneRuns' /\ CellsFollow'
  BY DEF OneRuns, CellsFollow, DemandsFollow, WaitsInVain, PointersFollow,
         SlotFollows
<1>2. DemandsFollow' /\ WaitsInVain'
  BY DEF OneRuns, CellsFollow, DemandsFollow, WaitsInVain, PointersFollow,
         SlotFollows
<1>3. SlotFollows' /\ PointersFollow'
  BY DEF OneRuns, CellsFollow, DemandsFollow, WaitsInVain, PointersFollow,
         SlotFollows
<1>4. QED
  BY <1>1, <1>2, <1>3

(* The call begins, or is polled once more.                                  *)
LEMMA BeginTurn ==
  ASSUME ~Parallel, InTurns, NEW side \in Sides, MayRun(side),
         Begin(side) \/ Repoll(side)
  PROVE  Orderly'
<1> Other(side) \in Sides
  BY DEF Sides, Other
<1> USE MyTurn
    DEF InTurns, Sound, TypeOK, Orderly, Goto, future, asked, Sides, Other,
        Resting, Panics, Signalling, Room
<1> USE DEF Begin, Repoll
<1>1. OneRuns' /\ CellsFollow'
  BY DEF OneRuns, CellsFollow, DemandsFollow, WaitsInVain, PointersFollow,
         SlotFollows
<1>2. DemandsFollow' /\ WaitsInVain'
  BY DEF OneRuns, CellsFollow, DemandsFollow, WaitsInVain, PointersFollow,
         SlotFollows
<1>3. SlotFollows' /\ PointersFollow'
  BY DEF OneRuns, CellsFollow, DemandsFollow, WaitsInVain, PointersFollow,
         SlotFollows
<1>4. QED
  BY <1>1, <1>2, <1>3

(* The call ends with the closing.                                           *)
LEMMA RefuseTurn ==
  ASSUME ~Parallel, InTurns, NEW side \in Sides, MayRun(side),
         FindsClosing(side)
  PROVE  Orderly'
<1> Other(side) \in Sides
  BY DEF Sides, Other
<1> USE MyTurn
    DEF InTurns, Sound, TypeOK, Orderly, Goto, future, asked, Sides, Other,
        Resting, Panics, Signalling, Room
<1> USE DEF FindsClosing, FutureEnds, Dequeue, AskEnds
<1>1. OneRuns' /\ CellsFollow'
  BY DEF OneRuns, CellsFollow, DemandsFollow, WaitsInVain, PointersFollow,
         SlotFollows
<1>2. DemandsFollow' /\ WaitsInVain'
  BY DEF OneRuns, CellsFollow, DemandsFollow, WaitsInVain, PointersFollow,
         SlotFollows
<1>3. SlotFollows' /\ PointersFollow'
  BY DEF OneRuns, CellsFollow, DemandsFollow, WaitsInVain, PointersFollow,
         SlotFollows
<1>4. QED
  BY <1>1, <1>2, <1>3

(* The way from the demand to the wait.  The check fails, since nothing has  *)
(* come since the poll; and the slot is free, since the other's demand would *)
(* stay there only with nothing for the other either.                        *)
LEMMA AskTurn ==
  ASSUME ~Parallel, InTurns, NEW side \in Sides, MayRun(side),
         \/ Enqueue(side) \/ Check(side) \/ Park(side) \/ Await(side)
         \/ CheckAgain(side)
  PROVE  Orderly'
<1> Other(side) \in Sides
  BY DEF Sides, Other
<1> USE MyTurn
    DEF InTurns, Sound, TypeOK, Orderly, Goto, future, asked, Sides, Other,
        Resting, Panics, Signalling, Room
<1> USE DEF Enqueue, Check, Park, Await, CheckAgain
<1>1. OneRuns' /\ CellsFollow'
  BY DEF OneRuns, CellsFollow, DemandsFollow, WaitsInVain, PointersFollow,
         SlotFollows
<1>2. DemandsFollow' /\ WaitsInVain'
  BY DEF OneRuns, CellsFollow, DemandsFollow, WaitsInVain, PointersFollow,
         SlotFollows
<1>3. SlotFollows' /\ PointersFollow'
  BY DEF OneRuns, CellsFollow, DemandsFollow, WaitsInVain, PointersFollow,
         SlotFollows
<1>4. QED
  BY <1>1, <1>2, <1>3

(* try_signal_ takes out the demand it has checked and signals a task that   *)
(* waits for it.                                                             *)
LEMMA SignalTurn ==
  ASSUME ~Parallel, InTurns, NEW side \in Sides, MayRun(side),
         \/ SignalLoad(side) \/ SignalCheck(side) \/ SignalTake(side)
         \/ SignalSend(side)
  PROVE  Orderly'
<1> Other(side) \in Sides
  BY DEF Sides, Other
<1> USE MyTurn
    DEF InTurns, Sound, TypeOK, Orderly, Goto, future, asked, Sides, Other,
        Resting, Panics, Signalling, Room
<1> USE DEF SignalLoad, SignalCheck, SignalTake, SignalSend, SignalDone,
        CheckAnswers
<1>1. OneRuns' /\ CellsFollow'
  BY DEF OneRuns, CellsFollow, DemandsFollow, WaitsInVain, PointersFollow,
         SlotFollows
<1>2. DemandsFollow' /\ WaitsInVain'
  BY DEF OneRuns, CellsFollow, DemandsFollow, WaitsInVain, PointersFollow,
         SlotFollows
<1>3. SlotFollows' /\ PointersFollow'
  BY DEF OneRuns, CellsFollow, DemandsFollow, WaitsInVain, PointersFollow,
         SlotFollows
<1>4. QED
  BY <1>1, <1>2, <1>3

(* The drop of a handle marks its own cell, which is empty.                  *)
LEMMA CloseTurn ==
  ASSUME ~Parallel, InTurns, NEW side \in Sides, MayRun(side), Close(side)
  PROVE  Orderly'
<1> Other(side) \in Sides
  BY DEF Sides, Other
<1> USE MyTurn
    DEF InTurns, Sound, TypeOK, Orderly, Goto, future, asked, Sides, Other,
        Resting, Panics, Signalling, Room
<1> USE DEF Close
<1>1. OneRuns' /\ CellsFollow'
  BY DEF OneRuns, CellsFollow, DemandsFollow, WaitsInVain, PointersFollow,
         SlotFollows
<1>2. DemandsFollow' /\ WaitsInVain'
  BY DEF OneRuns, CellsFollow, DemandsFollow, WaitsInVain, PointersFollow,
         SlotFollows
<1>3. SlotFollows' /\ PointersFollow'
  BY DEF OneRuns, CellsFollow, DemandsFollow, WaitsInVain, PointersFollow,
         SlotFollows
<1>4. QED
  BY <1>1, <1>2, <1>3

(* No call is ever cancelled or denied, no signal comes before the wait.     *)
LEMMA NeverTurn ==
  ASSUME ~Parallel, InTurns, NEW side \in Sides, MayRun(side),
         Abort(side) \/ Retry(side) \/ Denied(side)
  PROVE  Orderly'
<1> Other(side) \in Sides
  BY DEF Sides, Other
<1> USE MyTurn
    DEF InTurns, Sound, TypeOK, Orderly, Goto, future, asked, Sides, Other,
        Resting, Panics, Signalling, Room
<1> USE DEF Abort, Retry, Denied
<1>1. OneRuns' /\ CellsFollow'
  BY DEF OneRuns, CellsFollow, DemandsFollow, WaitsInVain, PointersFollow,
         SlotFollows
<1>2. DemandsFollow' /\ WaitsInVain'
  BY DEF OneRuns, CellsFollow, DemandsFollow, WaitsInVain, PointersFollow,
         SlotFollows
<1>3. SlotFollows' /\ PointersFollow'
  BY DEF OneRuns, CellsFollow, DemandsFollow, WaitsInVain, PointersFollow,
         SlotFollows
<1>4. QED
  BY <1>1, <1>2, <1>3

(* The drop of a slice gives the other side something to do, and the signal  *)
(* follows it.                                                               *)
LEMMA ReclaimTurn ==
  ASSUME ~Parallel, InTurns, NEW side \in Sides, MayRun(side), Reclaim(side)
  PROVE  Orderly'
<1>1. /\ Goto(side, "signal")
      /\ UNCHANGED <<cell, slot, future, ptr, asked>>
      /\ Room(Other(side)) > 0 => Room(Other(side))' > 0
  BY ReclaimMoves DEF InTurns
<1>2. /\ pc[side] = "holding"
      /\ pc[Other(side)] \in {"idle", "holding", "waiting", "closed"}
  BY MyTurn DEF Reclaim
<1>3. OneRuns' /\ CellsFollow'
  BY <1>1, <1>2
  DEF InTurns, Sound, TypeOK, Orderly, OneRuns, CellsFollow, Goto, future,
      asked, Resting, Panics, Signalling, Sides, Other
<1>4. DemandsFollow' /\ WaitsInVain'
  BY <1>1, <1>2
  DEF InTurns, Sound, TypeOK, Orderly, DemandsFollow, WaitsInVain, Goto,
      future, Sides, Other
<1>5. SlotFollows' /\ PointersFollow'
  BY <1>1, <1>2
  DEF InTurns, Sound, TypeOK, Orderly, SlotFollows, PointersFollow, Goto,
      future, Sides, Other
<1>6. QED
  BY <1>3, <1>4, <1>5 DEF Orderly

(* It holds of a new buffer.                                                 *)
LEMMA InitInTurns == Init => InTurns
<1> SUFFICES ASSUME Init
             PROVE  Orderly
  BY InitSound DEF InTurns
<1>1. OneRuns /\ CellsFollow /\ DemandsFollow
  BY DEF Init, OneRuns, CellsFollow, DemandsFollow, Resting, Panics, Sides
<1>2. WaitsInVain /\ SlotFollows /\ PointersFollow
  BY DEF Init, WaitsInVain, SlotFollows, PointersFollow, Sides
<1>3. QED
  BY <1>1, <1>2 DEF Orderly

(* The tasks that take turns keep it.                                        *)
LEMMA TurnInTurns ==
  AsksForSome /\ ~Parallel /\ InTurns /\ (Turn \/ UNCHANGED vars) => InTurns'
<1> SUFFICES ASSUME AsksForSome, ~Parallel, InTurns, Turn \/ UNCHANGED vars
             PROVE  InTurns'
  OBVIOUS
<1>1. Sound'
  <2>1. [Next]_vars
    BY DEF Turn, Next, Peek
  <2>2. QED
    BY <2>1, NextSound DEF InTurns
<1>2. Orderly'
  <2>1. ASSUME NEW side \in Sides, MayRun(side), Step(side)
        PROVE  Orderly'
    BY <2>1, PollTurn, RefuseTurn, AskTurn, SignalTurn, NeverTurn DEF Step
  <2>2. ASSUME NEW side \in Sides, MayRun(side),
               Continue(side) \/ Close(side)
        PROVE  Orderly'
    BY <2>2, BeginTurn, ReclaimTurn, CloseTurn DEF Continue
  <2>3. CASE MayRun("reader") /\ (DropPeeker \/ Convert)
    <3> USE <2>3 DEF DropPeeker, Convert, Goto
    <3>1. OneRuns' /\ CellsFollow' /\ DemandsFollow'
      BY DEF InTurns, Sound, TypeOK, Orderly, OneRuns, CellsFollow,
             DemandsFollow, future, asked, Room, Resting, Panics, Signalling,
             Sides
    <3>2. WaitsInVain' /\ SlotFollows' /\ PointersFollow'
      BY DEF InTurns, Sound, TypeOK, Orderly, WaitsInVain, SlotFollows,
             PointersFollow, future, asked, Room, Sides, Other
    <3>3. QED
      BY <3>1, <3>2 DEF Orderly
  <2>4. CASE UNCHANGED vars
    BY <2>4
    DEF InTurns, Orderly, vars, future, asked, OneRuns, CellsFollow,
        DemandsFollow, WaitsInVain, SlotFollows, PointersFollow, Room
  <2>5. QED
    BY <2>1, <2>2, <2>3, <2>4 DEF Turn
<1>3. QED
  BY <1>1, <1>2 DEF InTurns

(* Under TakingTurns the steps of Next are turns.                            *)
LEMMA NextIsTurn ==
  ASSUME TakingTurns, InTurns, Next
  PROVE  Turn
  BY DEF TakingTurns, InTurns, Orderly, OneRuns, Next, Turn, Peek, EndPeek,
         Cancel, DropPending, PollUnasked, Reopen

(* It holds throughout of callers that take turns.                           *)
LEMMA InTurnsAlways ==
  ASSUME AsksForSome, TakingTurns
  PROVE  Spec => []InTurns
<1>1. InTurns /\ [Next]_vars => InTurns'
  BY NextIsTurn, TurnInTurns DEF TakingTurns
<1>2. QED
  BY <1>1, InitInTurns, PTL DEF Spec

-----------------------------------------------------------------------------
(* What tasks that take turns may count on *)

(* What the invariant says of the properties the runs check.                 *)
LEMMA InTurnsSays == InTurns => NoPanic /\ OneWaiter
<1> SUFFICES ASSUME InTurns
             PROVE  NoPanic /\ OneWaiter
  OBVIOUS
<1>1. NoPanic
  BY DEF InTurns, Orderly, OneRuns, NoPanic
<1>2. Attended
  <2>1. ASSUME NEW side \in Sides, pc[side] \in {"await", "waiting"},
               ~signal[side], Room(side) # 0
        PROVE  OnItsWay(side)
    BY <2>1
    DEF InTurns, Sound, ParkedIsReachable, Reachable, Orderly, WaitsInVain,
        SlotFollows, PointersFollow, OnItsWay, Sides, Other
  <2>2. QED
    BY <2>1 DEF InTurns, Orderly, OneRuns, WaitsInVain, Attended
<1>3. QED
  BY <1>1, <1>2, AttendedSays DEF InTurns

(* No assertion of the waiting fails.                                        *)
THEOREM NoneAsserts ==
  ASSUME AsksForSome, TakingTurns
  PROVE  Spec => []NoPanic
  BY InTurnsAlways, InTurnsSays, PTL

=============================================================================
