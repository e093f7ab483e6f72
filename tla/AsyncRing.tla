----------------------------- MODULE AsyncRing -----------------------------
(***************************************************************************)
(* The asynchronous ring buffer at work: the waiting of module Demands,    *)
(* the cells it is about, and the two tasks that use it, as the tests of   *)
(* buffer_.rs and chunk_.rs write them.                                    *)
(*                                                                         *)
(* A task moves span after span.  It asks for what is left of the span,    *)
(* awaits a slice, fills it or copies it out, drops it, and asks again     *)
(* until the span is done; it drops its handle between two spans.  The     *)
(* tests let the spans grow or shrink through every length up to the       *)
(* capacity; here each span is any of Spans.                               *)
(*                                                                         *)
(* The stream has no end: its elements are numbered modulo Labels, more of *)
(* them than the buffer holds, so that no two that lie in it look alike,   *)
(* nor does one look like the one whose cell it took.                      *)
(***************************************************************************)
EXTENDS Demands, Sequences

CONSTANTS
  Spans,      \* the lengths of the spans
  Labels      \* how many numbers there are for the elements

ASSUME AsyncRingAssumption ==
  /\ Spans \subseteq Nat \ {0}
  /\ Lengths = UNION {1 .. n : n \in Spans}     \* what is left of a span
  /\ Labels \in Nat /\ Labels > Capacity

VARIABLES
  buf,        \* buf_cell_: the number of the element in each cell
  sent,       \* the number of the next element to write
  taken,      \* the number of the next element to read
  left,       \* what is left of each side's span
  filled,     \* the writer has written the slice it holds
  got         \* what the reader has copied out of the slice it holds

stream    == <<buf, sent, taken>>
ringVars  == <<vars, stream, left, filled, got>>

RingInit ==
  /\ Init
  /\ buf = [c \in Index |-> 0]
  /\ sent = 0 /\ taken = 0
  /\ left = [side \in Sides |-> 0]
  /\ filled = FALSE /\ got = << >>

-----------------------------------------------------------------------------
(* A call for the rest of the span, or for the next one. *)
Ask(side) ==
  /\ Begin(side)
  /\ IF left[side] = 0
     THEN \E n \in Spans : left' = [left EXCEPT ![side] = n]
     ELSE UNCHANGED left
  /\ UNCHANGED <<stream, filled, got>>

(* The call goes on.  It is given as much as it asked for; a call that fails *)
(* ends the span.                                                            *)
Proceed(side) ==
  /\ Step(side)
  /\ pc'[side] = "holding" => held'[side] = MinOf(Room(side), left[side])
  /\ left' = IF pc[side] \in {"refused", "denied"} /\ pc'[side] = "idle"
             THEN [left EXCEPT ![side] = 0] ELSE left
  /\ UNCHANGED <<stream, filled, got>>

Resume(side) == Repoll(side) /\ UNCHANGED <<stream, left, filled, got>>

(* clone_from_slice, from the span into the slice, *)
Fill ==
  /\ pc["writer"] = "holding"
  /\ ~filled
  /\ buf' = [c \in Index |->
               IF c \in word.w .. word.w + held["writer"] - 1
               THEN (sent + c - word.w) % Labels ELSE buf[c]]
  /\ filled' = TRUE
  /\ UNCHANGED <<vars, sent, taken, left, got>>

(* and from the slice into the span. *)
Copy ==
  /\ pc["reader"] = "holding"
  /\ got = << >>
  /\ got' = SubSeq([i \in 1 .. Capacity |-> buf[i - 1]],
                   word.r + 1, word.r + held["reader"])
  /\ UNCHANGED <<vars, stream, left, filled>>

(* The slice has been used and is dropped. *)
Return(side) ==
  /\ Reclaim(side)
  /\ left' = [left EXCEPT ![side] = @ - held[side]]
  /\ IF side = "writer"
     THEN /\ filled
          /\ sent' = (sent + held[side]) % Labels
          /\ filled' = FALSE
          /\ UNCHANGED <<taken, got>>
     ELSE /\ got # << >>
          /\ taken' = (taken + held[side]) % Labels
          /\ got' = << >>
          /\ UNCHANGED <<sent, filled>>
  /\ UNCHANGED buf

(* The task ends between two spans, and drops its handle. *)
Leave(side) ==
  /\ Close(side)
  /\ left[side] = 0
  /\ UNCHANGED <<stream, left, filled, got>>

Use(side) == IF side = "writer" THEN Fill ELSE Copy

RingNext ==
  \E side \in Sides :
    /\ MayRun(side)
    /\ \/ Ask(side) \/ Proceed(side) \/ Resume(side)
       \/ Use(side) \/ Return(side) \/ Leave(side)

(***************************************************************************)
(* Fairness as in Demands: a task that runs goes on, a task that was woken *)
(* is polled, a slice is used and dropped, and the tasks keep asking until *)
(* they end.                                                               *)
(***************************************************************************)
RingSpec ==
  /\ RingInit /\ [][RingNext]_ringVars
  /\ \A side \in Sides :
       /\ WF_ringVars(Proceed(side))
       /\ SF_ringVars(MayRun(side) /\ Use(side))
       /\ SF_ringVars(MayRun(side) /\ Return(side))
       /\ SF_ringVars(MayRun(side) /\ Resume(side))
       /\ SF_ringVars(MayRun(side) /\ Ask(side))

-----------------------------------------------------------------------------
(* Properties *)

(* Every variable has its type. *)
RingTypeOK ==
  /\ TypeOK
  /\ buf \in [Index -> 0 .. Labels - 1]
  /\ sent \in 0 .. Labels - 1 /\ taken \in 0 .. Labels - 1
  /\ left \in [Sides -> Spans \cup Nat]
  /\ filled \in BOOLEAN
  /\ got \in Seq(0 .. Labels - 1)

(* The assert_eq of the tests: what the reader copies are the elements that  *)
(* follow those it has read, in the order they were written, whatever spans  *)
(* either side cuts the stream into and however often it waits.              *)
ReadsInOrder == \A i \in 1 .. Len(got) : got[i] = (taken + i - 1) % Labels

(* The waiting keeps the promise of the abstract channel: nobody waits with  *)
(* something to do, and nobody is woken for nothing.                         *)
Promise == INSTANCE Channel WITH
  stored  <- Stored(word),
  waiting <- {side \in Sides : pc[side] = "waiting"},
  closed  <- {side \in Sides : cell[side] = "closed"}

ImplementsChannel == Promise!Spec

(* What the writer leaves behind when it is dropped still reaches a reader   *)
(* that goes on reading: the closing is announced after the data.            *)
AllIsRead ==
  cell["writer"] = "closed" /\ Stored(word) > 0
    ~> Stored(word) = 0 \/ cell["reader"] = "closed"
=============================================================================
