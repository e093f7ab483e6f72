---------------------------- MODULE MCBuffState ----------------------------
(* Instances of BuffState for TLC. *)
EXTENDS BuffState

(* Lengths below, at and above what a slice can have at once. *)
MCLengths == 1 .. Capacity + 1

(* No skip, a skip that may leave nothing, and one beyond the data. *)
MCSkips == {0, 1, Capacity - 1, Capacity}

(* A caller may also ask for a slice of no elements. *)
MCLengthsWithZero == {0} \cup MCLengths

(* A reader that does not peek. *)
MCNoSkips == {}
=============================================================================
