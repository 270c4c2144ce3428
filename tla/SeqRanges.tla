------------------------------ MODULE SeqRanges ------------------------------
(***************************************************************************)
(* crdt.SeqSet as the code stores it, a list of inclusive ranges, with the *)
(* three algorithms that walk the list: promotion into the frontier head,  *)
(* the missing ranges the anti-entropy planner asks for, and the remainder *)
(* the gap-filler chain hands to the next filler.  One origin marks        *)
(* sequence numbers in any order, again or below the head included, and    *)
(* every result is compared with its meaning on plain sets (SeqSets).      *)
(***************************************************************************)
EXTENDS SeqSets, SequencesExt

CONSTANT MaxSeq   \* bound: sequence numbers 1..MaxSeq

VARIABLES
  ranges,   \* SeqSet.ranges of appliedGaps[o]
  head,     \* frontier[o].LastSeq
  entry     \* the same entry on plain sets

vars == <<ranges, head, entry>>

Seqs == 1..MaxSeq

Rng(lo, hi) == [lo |-> lo, hi |-> hi]

Members(rs) == UNION {rs[i].lo .. rs[i].hi : i \in DOMAIN rs}

TypeOK ==
  /\ ranges \in Seq([lo : Seqs, hi : Seqs])
  /\ head \in 0..MaxSeq
  /\ entry \in [head : 0..MaxSeq, gaps : SUBSET Seqs]

-----------------------------------------------------------------------------

\* sort.Search for the first range with Lo > v, as the number of ranges before.
Before(rs, v) == Cardinality({i \in DOMAIN rs : rs[i].lo <= v})

Has(rs, v) == LET i == Before(rs, v) IN i > 0 /\ v <= rs[i].hi

\* No coalescing with the range on the left.
MutAdd(rs, v) == IF Has(rs, v) THEN rs ELSE InsertAt(rs, Before(rs, v) + 1, Rng(v, v))

Add(rs, v) ==
  LET i == Before(rs, v)
      prevAdj == i > 0 /\ rs[i].hi + 1 = v
      nextAdj == i < Len(rs) /\ v + 1 = rs[i + 1].lo
  IN CASE Has(rs, v) -> rs
       [] prevAdj /\ nextAdj -> RemoveAt([rs EXCEPT ![i].hi = rs[i + 1].hi], i + 1)
       [] prevAdj /\ ~nextAdj -> [rs EXCEPT ![i].hi = v]
       [] ~prevAdj /\ nextAdj -> [rs EXCEPT ![i + 1].lo = v]
       [] OTHER -> InsertAt(rs, i + 1, Rng(v, v))

\* Absorbs the first range wherever it starts.
MutPromoteContiguous(rs, above) ==
  IF rs # <<>> THEN [above |-> rs[1].hi, rest |-> Tail(rs)] ELSE [above |-> above, rest |-> rs]

PromoteContiguous(rs, above) ==
  IF rs # <<>> /\ rs[1].lo = above + 1
  THEN [above |-> rs[1].hi, rest |-> Tail(rs)]
  ELSE [above |-> above, rest |-> rs]

(***************************************************************************)
(* The walk shared by MissingRangesUpTo and by subtractRange on a closed   *)
(* range: the parts of lo..hi that rs leaves uncovered, in order.  The     *)
(* early exits of the loops only skip ranges that add nothing.             *)
(***************************************************************************)
Uncovered(rs, lo, hi) ==
  LET Step(acc, r) ==
        IF r.lo > hi
        THEN acc
        ELSE [lo  |-> IF r.hi >= acc.lo THEN r.hi + 1 ELSE acc.lo,
              out |-> IF r.lo > acc.lo
                      THEN Append(acc.out, Rng(acc.lo, r.lo - 1)) ELSE acc.out]
      end == FoldLeft(Step, [lo |-> lo, out |-> <<>>], rs)
  IN IF end.lo <= hi THEN Append(end.out, Rng(end.lo, hi)) ELSE end.out

\* Starts at the first missing number even when the tip is below the head.
MutMissingRangesUpTo(rs, top, tip) == Uncovered(rs, top, tip)

MissingRangesUpTo(rs, top, tip) ==
  IF tip <= top THEN <<>> ELSE Uncovered(rs, top + 1, tip)

\* Forgets the part of the request above the last delivered range.
MutSubtractRange(rs, lo, hi) ==
  SelectSeq(Uncovered(rs, lo, hi), LAMBDA r : \E i \in DOMAIN rs : r.hi < rs[i].lo)

SubtractRange(rs, lo, hi) == Uncovered(rs, lo, hi)

(***************************************************************************)
(* subtractRange on an open-ended request: the new Lo after skipping what  *)
(* covers the bottom of it.                                                *)
(***************************************************************************)
OpenRemainderLo(rs, lo) ==
  FoldLeft(LAMBDA l, r : IF r.lo <= l /\ r.hi >= l THEN r.hi + 1 ELSE l, lo, rs)

-----------------------------------------------------------------------------

Init == ranges = <<>> /\ head = 0 /\ entry = NoEntry

\* Cache.markAppliedLocked.
Mark(v) ==
  LET p == PromoteContiguous(Add(ranges, v), head) IN
  /\ ranges' = p.rest
  /\ head' = IF p.above > head THEN p.above ELSE head
  /\ entry' = Marked(entry, v)

Next == \E v \in Seqs : Mark(v)

Spec == Init /\ [][Next]_vars

-----------------------------------------------------------------------------

(***************************************************************************)
(* The invariant the SeqSet comment claims and every binary search needs:  *)
(* ranges are non-empty, sorted, disjoint and never adjacent.              *)
(***************************************************************************)
Canonical ==
  /\ \A i \in DOMAIN ranges : ranges[i].lo <= ranges[i].hi
  /\ \A i \in 1..Len(ranges) - 1 : ranges[i].hi + 1 < ranges[i + 1].lo

(***************************************************************************)
(* The range list and the head stay equal to the set-based entry through   *)
(* every sequence of Add and PromoteContiguous, so module Frontier may     *)
(* reason about sets.                                                      *)
(***************************************************************************)
RangesMeanSets ==
  /\ head = entry.head
  /\ Members(ranges) = entry.gaps
  /\ \A v \in 0..MaxSeq + 1 : Has(ranges, v) <=> v \in entry.gaps

Ascending(rs) ==
  /\ \A i \in DOMAIN rs : rs[i].lo <= rs[i].hi
  /\ \A i \in 1..Len(rs) - 1 : rs[i].hi < rs[i + 1].lo

(***************************************************************************)
(* The planner asks for every changeset it lacks up to the tip and for     *)
(* none it has: MissingRangesUpTo is exact for every tip, also when the    *)
(* gaps hold numbers at or below the head.                                 *)
(***************************************************************************)
MissingExact ==
  \A tip \in Seqs :
    LET m == MissingRangesUpTo(ranges, head, tip) IN
    /\ Ascending(m)
    /\ Members(m) = {v \in 1..tip : ~Covers(entry, v)}

(***************************************************************************)
(* The gap-filler chain hands the next filler exactly what the previous    *)
(* ones did not deliver, for closed and for open-ended requests.           *)
(***************************************************************************)
RemainderExact ==
  \A lo \in Seqs :
    /\ \A hi \in lo..MaxSeq :
         LET m == SubtractRange(ranges, lo, hi) IN
         Ascending(m) /\ Members(m) = lo..hi \ Members(ranges)
    /\ LET l == OpenRemainderLo(ranges, lo) IN
       /\ lo..l - 1 \subseteq Members(ranges)
       /\ l \notin Members(ranges)
=============================================================================
