--------------------------- MODULE MCUniqueLease ---------------------------
(***************************************************************************)
(* Where the instances of UniqueLease begin: a row for each of two writers *)
(* or two rows of one; no row yet, or one or both (rows older than the     *)
(* key) with the value and a leaseholder that is gone.                     *)
(***************************************************************************)
EXTENDS UniqueLease

CONSTANTS n1, n2, r1, r2

OneEach == (r1 :> n1) @@ (r2 :> n2)
SameWriter == (r1 :> n1) @@ (r2 :> n1)

Empty == (r1 :> Null) @@ (r2 :> Null)
OneOrBoth == {(r1 :> "v") @@ (r2 :> Null), (r1 :> "v") @@ (r2 :> "v")}

New(h) == [home |-> h, rows |-> Empty, led |-> FALSE]
Taken(h) == {[home |-> h, rows |-> rows, led |-> TRUE] : rows \in OneOrBoth}

Apart == {New(OneEach)} \cup Taken(OneEach)
ApartOrTaken == Apart \cup Taken(SameWriter)
=============================================================================
