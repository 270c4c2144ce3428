---------------------------- MODULE MCApplyNode ----------------------------
(***************************************************************************)
(* Instances of ApplyNode.                                                 *)
(***************************************************************************)
EXTENDS ApplyNode

\* Two origins write the row, one of them twice.
ThreeWrites == {<<1, 1>>, <<1, 2>>, <<2, 1>>}

TwoInARow == {<<1, 1>>, <<1, 2>>}

\* Later writes of an origin win; the second origin's is between the first's.
Ranks == [c \in World |-> IF c = <<2, 1>> THEN 2 ELSE IF c[2] = 1 THEN 1 ELSE c[2] + 1]

None == {}

Second == {<<1, 2>>}
=============================================================================
