------------------------------- MODULE SeqSets -------------------------------
(***************************************************************************)
(* The sparse set of sequence numbers of crdt/causal.go and the frontier   *)
(* entry nodestate.Cache keeps on top of it.                               *)
(*                                                                         *)
(* The code stores a SeqSet as sorted, non-adjacent ranges.  Here it is    *)
(* the set of its members; module SeqRanges models the ranges themselves   *)
(* and checks that each operation has the meaning given below.             *)
(***************************************************************************)
EXTENDS Integers

(***************************************************************************)
(* lo..hi is one of the ranges the code would store for S: every member of *)
(* it is in S and its two neighbours are not.                              *)
(***************************************************************************)
IsRange(S, lo, hi) ==
  /\ lo <= hi
  /\ lo..hi \subseteq S
  /\ lo - 1 \notin S
  /\ hi + 1 \notin S

\* ranges[0].Lo = lo: lo is the least member of S.
IsFirst(S, lo) == lo \in S /\ \A s \in S : lo <= s

\* One past the end of the range.
MutRangeEnd(S, lo) == (CHOOSE hi \in S : IsRange(S, lo, hi)) + 1

\* The Hi of the range that starts at lo.
RangeEnd(S, lo) == CHOOSE hi \in S : IsRange(S, lo, hi)

(***************************************************************************)
(* PromoteContiguous looks at the FIRST range only: it is absorbed when it *)
(* starts at above + 1 and nothing happens when it does not, wherever it   *)
(* starts.                                                                 *)
(***************************************************************************)
Promotes(S, above) == IsFirst(S, above + 1)

PromotedHead(S, above) ==
  IF Promotes(S, above) THEN RangeEnd(S, above + 1) ELSE above

\* Promotion empties the set instead of removing the first range.
MutPromotedRest(S, above) == IF Promotes(S, above) THEN {} ELSE S

PromotedRest(S, above) ==
  IF Promotes(S, above) THEN S \ (above + 1 .. RangeEnd(S, above + 1)) ELSE S

(***************************************************************************)
(* One origin's entry: the contiguous head frontier[o].LastSeq and the     *)
(* sequence numbers applied out of order, appliedGaps[o].                  *)
(***************************************************************************)
NoEntry == [head |-> 0, gaps |-> {}]

\* The head itself counts as missing.
MutCovers(e, seq) == seq < e.head \/ seq \in e.gaps

Covers(e, seq) == seq <= e.head \/ seq \in e.gaps

\* Promotes before the new number is in the set.
MutMarked(e, seq) ==
  [head |-> PromotedHead(e.gaps, e.head), gaps |-> PromotedRest(e.gaps, e.head) \cup {seq}]

\* markAppliedLocked: add to the gaps, promote, keep the larger head.
Marked(e, seq) ==
  LET added == e.gaps \cup {seq} IN
  [head |-> PromotedHead(added, e.head), gaps |-> PromotedRest(added, e.head)]
=============================================================================
