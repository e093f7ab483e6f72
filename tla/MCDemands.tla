----------------------------- MODULE MCDemands -----------------------------
(* Instances of Demands for TLC. *)
EXTENDS Demands

(* Lengths within and beyond what a slice can have. *)
MCLengths == 1 .. Capacity + 1

(* No skip, one within reach, and one that needs every cell. *)
MCSkips == 0 .. Capacity

MCNoSkips == {}

MCNoUses == {}
MCCancels == {"cancel"}
MCDrops == {"drop"}
=============================================================================
