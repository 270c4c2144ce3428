----------------------------- MODULE AppliedSet -----------------------------
(***************************************************************************)
(* What the frontier of a node promises: for every origin a set of applied *)
(* sequence numbers to which each is added once, in any order, and which   *)
(* is forgotten only as a whole.  No head, no gaps, no promotion.          *)
(***************************************************************************)
EXTENDS Naturals

CONSTANTS Origin, MaxSeq

VARIABLE applied

Init == applied = [o \in Origin |-> {}]

Accept(o, seq) ==
  /\ seq \notin applied[o]
  /\ applied' = [applied EXCEPT ![o] = @ \cup {seq}]

Forget(o) == applied' = [applied EXCEPT ![o] = {}]

Next == \E o \in Origin : Forget(o) \/ \E seq \in 1..MaxSeq : Accept(o, seq)

Spec == Init /\ [][Next]_applied
=============================================================================
