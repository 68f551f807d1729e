---------------------------------- MODULE MCIds ----------------------------------
(***************************************************************************)
(* Ids for TLC: a file whose content is hashed, and a large one.            *)
(***************************************************************************)
EXTENDS Ids

CONSTANTS small, big, a, ro
Both == {small, big}
BigOnly == {big}
Usual == [data |-> a, mode |-> ro]
=============================================================================
