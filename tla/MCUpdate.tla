------------------------------ MODULE MCUpdate ------------------------------
(* Instances of Update for TLC: which images an update may bring. *)
EXTENDS Update

AllImages == Kinds
Good == {"good"}
Unready == {"unready"}
=============================================================================
