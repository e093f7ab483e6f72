------------------------------ MODULE Channel ------------------------------
(***************************************************************************)
(* What the asynchronous handles promise of their waiting: a side waits    *)
(* only when there is nothing for it to do, it stops waiting only when     *)
(* there is, and it does stop then.  Nothing is said of how a side learns  *)
(* of it, nor of what the elements are, which is the subject of Fifo.      *)
(***************************************************************************)
EXTENDS Integers

CONSTANT Capacity

VARIABLES
  stored,     \* how many elements are in the buffer
  waiting,    \* the sides that wait
  closed      \* the sides whose handle has been dropped

vars == <<stored, waiting, closed>>

Sides == {"writer", "reader"}

Init == stored = 0 /\ waiting = {} /\ closed = {}

(* There is room for the writer, or data for the reader. *)
CanProceed(side) == IF side = "writer" THEN stored < Capacity ELSE stored > 0

(* A side that neither waits nor has closed moves any number of elements. *)
Put ==
  /\ "writer" \notin waiting \cup closed
  /\ stored' \in stored + 1 .. Capacity
  /\ UNCHANGED <<waiting, closed>>

Take ==
  /\ "reader" \notin waiting \cup closed
  /\ stored' \in 0 .. stored - 1
  /\ UNCHANGED <<waiting, closed>>

(* Nobody starts to wait once a side has closed. *)
Wait(side) ==
  /\ side \notin waiting
  /\ closed = {}
  /\ ~CanProceed(side)
  /\ waiting' = waiting \cup {side}
  /\ UNCHANGED <<stored, closed>>

Wake(side) ==
  /\ side \in waiting
  /\ CanProceed(side)
  /\ waiting' = waiting \ {side}
  /\ UNCHANGED <<stored, closed>>

Close(side) ==
  /\ side \notin waiting \cup closed
  /\ closed' = closed \cup {side}
  /\ UNCHANGED <<stored, waiting>>

Next == Put \/ Take \/ \E side \in Sides : Wait(side) \/ Wake(side) \/ Close(side)

Spec == Init /\ [][Next]_vars /\ \A side \in Sides : WF_vars(Wake(side))
=============================================================================
