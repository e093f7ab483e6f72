----------------------------- MODULE MCHandles -----------------------------
(* The instance of Handles for TLC. *)
EXTENDS Handles, TLC

MCLengths == 1 .. Capacity
MCSkips == 0 .. 1

Symmetry == Permutations(Owners) \cup Permutations(Handle)
=============================================================================
