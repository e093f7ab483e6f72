------------------------------ MODULE MCRwWord ------------------------------
(* Instances of RwWord for TLC. *)
EXTENDS RwWord

(* Every length around those that an eight-bit word can count. *)
MCSizes == 0 .. PosMax + 2
=============================================================================
