---------------------------- MODULE MCAsyncRing ----------------------------
(* The instance of AsyncRing for TLC. *)
EXTENDS AsyncRing

(* The tests cancel nothing, drop nothing that waits, and do not peek. *)
MCNoSkips == {}
MCNoUses == {}

(* From one element to one more than the buffer holds. *)
MCSpans == 1 .. Capacity + 1

(* What can be left of one. *)
MCLengths == UNION {1 .. n : n \in MCSpans}
=============================================================================
