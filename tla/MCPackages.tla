------------------------------ MODULE MCPackages ------------------------------
(* Instances of Packages for TLC.  Package 1 needs 2; the second release of 2 *)
(* drops a file for another and needs 3, which makes the chain from 1 too     *)
(* long; the second release of 3 needs 2, which makes a cycle.                *)
EXTENDS Packages

ChainAndCycle ==
    { [name |-> 1, version |-> 1, needs |-> <<2>>, files |-> {"1", "both"}],
      [name |-> 2, version |-> 1, needs |-> <<>>, files |-> {"2", "2old"}],
      [name |-> 2, version |-> 2, needs |-> <<3>>, files |-> {"2", "2new"}],
      [name |-> 3, version |-> 1, needs |-> <<>>, files |-> {"both"}],
      [name |-> 3, version |-> 2, needs |-> <<2>>, files |-> {"both"}] }

OneOrTwo == {<<1>>, <<2, 3>>}
Second == {<<2>>}
=============================================================================
