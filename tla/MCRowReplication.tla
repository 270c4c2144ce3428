-------------------------- MODULE MCRowReplication --------------------------
(***************************************************************************)
(* Instances of RowReplication: how many transactions each node commits.   *)
(***************************************************************************)
EXTENDS RowReplication

TwoAndOne == [n \in Node |-> IF n = 1 THEN 2 ELSE 1]
TwoEach == [n \in Node |-> 2]
=============================================================================
