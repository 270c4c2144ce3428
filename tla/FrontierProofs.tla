--------------------------- MODULE FrontierProofs ---------------------------
(***************************************************************************)
(* Theorems about module Frontier, for every set of origins, every bound   *)
(* on sequence numbers and every quarantine cap.                           *)
(***************************************************************************)
EXTENDS Frontier, WellFoundedInduction, NaturalsInduction, TLAPS

Entry == [head : 0..MaxSeq, gaps : SUBSET Seqs]

-----------------------------------------------------------------------------
(* The set algebra of the frontier entry.                                  *)

LEMMA LeastNatural ==
  ASSUME NEW T, T \subseteq Nat, T # {}
  PROVE  \E x \in T : \A y \in T : x <= y
<1>1. IsWellFoundedOn(OpToRel(<, Nat), Nat)
  BY NatLessThanWellFounded
<1>2. PICK x \in T : \A y \in T : ~ (<<y, x>> \in OpToRel(<, Nat))
  BY <1>1, WFMin
<1>3. ASSUME NEW y \in T, y < x  PROVE FALSE
  <2>1. <<y, x>> \in Nat \X Nat
    OBVIOUS
  <2>2. <<y, x>> \in OpToRel(<, Nat)
    BY <1>3, <2>1 DEF OpToRel
  <2>3. QED  BY <1>2, <2>2
<1>4. QED  BY <1>3

\* The first range of a set of sequence numbers ends somewhere.
LEMMA RangeEndIsRange ==
  ASSUME NEW S \in SUBSET Seqs, NEW lo \in Nat, IsFirst(S, lo)
  PROVE  /\ RangeEnd(S, lo) \in S
         /\ IsRange(S, lo, RangeEnd(S, lo))
<1> USE MaxSeqAssumption DEF Seqs
<1> DEFINE T == {n \in Nat : n >= lo /\ n + 1 \notin S}
<1>1. MaxSeq \in T
  BY DEF IsFirst
<1>2. PICK x \in T : \A y \in T : x <= y
  BY <1>1, LeastNatural
<1>3. ASSUME NEW y \in lo..x  PROVE y \in S
  <2>1. CASE y = lo
    BY <2>1 DEF IsFirst
  <2>2. CASE y # lo
    <3>1. y - 1 \in Nat /\ y - 1 >= lo /\ y - 1 < x
      BY <2>2, <1>2
    <3>2. y - 1 \notin T
      BY <3>1, <1>2
    <3>3. QED  BY <3>1, <3>2
  <2>3. QED  BY <2>1, <2>2
<1>4. lo - 1 \notin S
  BY DEF IsFirst
<1>5. x \in S /\ IsRange(S, lo, x)
  BY <1>2, <1>3, <1>4 DEF IsRange
<1>6. QED  BY <1>5 DEF RangeEnd

(***************************************************************************)
(* Promotion moves members of the gaps under the head and loses none.      *)
(***************************************************************************)
LEMMA PromotionFacts ==
  ASSUME NEW S \in SUBSET Seqs, NEW above \in 0..MaxSeq
  PROVE  /\ PromotedHead(S, above) \in above..MaxSeq
         /\ PromotedRest(S, above) \in SUBSET Seqs
         /\ \A s \in Seqs :
              (s <= PromotedHead(S, above) \/ s \in PromotedRest(S, above))
                <=> (s <= above \/ s \in S)
         /\ ~ Promotes(PromotedRest(S, above), PromotedHead(S, above))
<1> USE MaxSeqAssumption DEF Seqs
<1>1. CASE ~ Promotes(S, above)
  BY <1>1 DEF PromotedHead, PromotedRest
<1>2. CASE Promotes(S, above)
  <2> DEFINE end == RangeEnd(S, above + 1)
  <2>1. end \in S /\ IsRange(S, above + 1, end)
    BY <1>2, RangeEndIsRange DEF Promotes
  <2>2. PromotedHead(S, above) = end /\ PromotedRest(S, above) = S \ (above + 1 .. end)
    BY <1>2 DEF PromotedHead, PromotedRest
  <2>3. end \in above..MaxSeq
    <3>1. end \in Seqs /\ above + 1 <= end
      BY <2>1 DEF IsRange
    <3> HIDE DEF end
    <3>2. QED  BY <3>1
  <2>4. end + 1 \notin S \ (above + 1 .. end)
    BY <2>1 DEF IsRange
  <2>5. ~ Promotes(S \ (above + 1 .. end), end)
    BY <2>4 DEF Promotes, IsFirst
  <2>6. \A s \in Seqs : (s <= end \/ s \in S \ (above + 1 .. end)) <=> (s <= above \/ s \in S)
    BY <2>1, <2>3 DEF IsRange
  <2> HIDE DEF end
  <2>7. QED  BY <2>2, <2>3, <2>5, <2>6
<1>3. QED  BY <1>1, <1>2

(***************************************************************************)
(* markAppliedLocked adds exactly one sequence number to what the entry    *)
(* covers, never lowers the head and leaves nothing to promote.            *)
(***************************************************************************)
LEMMA MarkedFacts ==
  ASSUME NEW e \in Entry, NEW seq \in Seqs
  PROVE  /\ Marked(e, seq) \in Entry
         /\ e.head <= Marked(e, seq).head
         /\ \A s \in Seqs : Covers(Marked(e, seq), s) <=> Covers(e, s) \/ s = seq
         /\ ~ Promotes(Marked(e, seq).gaps, Marked(e, seq).head)
<1> DEFINE S == e.gaps \cup {seq}
           hd == PromotedHead(S, e.head)
           rest == PromotedRest(S, e.head)
<1>1. Marked(e, seq) = [head |-> hd, gaps |-> rest]
  BY DEF Marked
<1>2. S \in SUBSET Seqs /\ e.head \in 0..MaxSeq
  BY DEF Entry
<1>3. \A s : s \in S <=> s \in e.gaps \/ s = seq
  OBVIOUS
<1> HIDE DEF S
<1>4. /\ hd \in e.head..MaxSeq
      /\ rest \in SUBSET Seqs
      /\ \A s \in Seqs : (s <= hd \/ s \in rest) <=> (s <= e.head \/ s \in S)
      /\ ~ Promotes(rest, hd)
  BY <1>2, PromotionFacts
<1> HIDE DEF hd, rest
<1>5. Marked(e, seq) \in Entry
  BY <1>1, <1>2, <1>4, MaxSeqAssumption DEF Entry
<1>6. e.head <= Marked(e, seq).head
  BY <1>1, <1>2, <1>4, MaxSeqAssumption
<1>7. \A s \in Seqs : Covers(Marked(e, seq), s) <=> Covers(e, s) \/ s = seq
  BY <1>1, <1>3, <1>4 DEF Covers
<1>8. QED  BY <1>1, <1>4, <1>5, <1>6, <1>7
-----------------------------------------------------------------------------
(* The inductive invariant: the exactness of IsAppliedRemote needs nothing *)
(* else, but the maximality of the head needs to know that no completed    *)
(* step leaves a range that starts right above the head.                   *)

NothingToPromote == \A o \in Origin : ~ Promotes(entry[o].gaps, entry[o].head)

IInv == TypeOK /\ AppliedExact /\ NothingToPromote

LEMMA InitIInv == Init => IInv
<1> SUFFICES ASSUME Init PROVE IInv
  OBVIOUS
<1> USE MaxSeqAssumption DEF Init, Seqs
<1>1. TypeOK
  BY DEF TypeOK, NoEntry
<1>2. AppliedExact
  BY DEF AppliedExact, IsAppliedRemote, Covers, NoEntry
<1>3. NothingToPromote
  BY DEF NothingToPromote, Promotes, IsFirst, NoEntry
<1>4. QED  BY <1>1, <1>2, <1>3 DEF IInv

\* MarkApplied is the only writer of the entry besides eviction.
LEMMA MarkAppliedKeepsIInv ==
  ASSUME IInv, NEW o \in Origin, NEW seq \in Seqs, MarkApplied(o, seq)
  PROVE  /\ entry' \in [Origin -> Entry]
         /\ accepted' \in [Origin -> SUBSET Seqs]
         /\ AppliedExact'
         /\ NothingToPromote'
<1>1. entry \in [Origin -> Entry] /\ accepted \in [Origin -> SUBSET Seqs]
  BY DEF IInv, TypeOK, Entry
<1>2. /\ entry' = [entry EXCEPT ![o] = Marked(entry[o], seq)]
      /\ accepted' = [accepted EXCEPT ![o] = accepted[o] \cup {seq}]
  BY DEF MarkApplied
<1>3. /\ Marked(entry[o], seq) \in Entry
      /\ \A s \in Seqs : Covers(Marked(entry[o], seq), s) <=> Covers(entry[o], s) \/ s = seq
      /\ ~ Promotes(Marked(entry[o], seq).gaps, Marked(entry[o], seq).head)
  BY <1>1, MarkedFacts
<1>4. entry' \in [Origin -> Entry] /\ accepted' \in [Origin -> SUBSET Seqs]
  BY <1>1, <1>2, <1>3
<1>5. ASSUME NEW p \in Origin, NEW s \in Seqs
      PROVE  Covers(entry'[p], s) <=> s \in accepted'[p]
  <2>1. Covers(entry[p], s) <=> s \in accepted[p]
    BY DEF IInv, AppliedExact, IsAppliedRemote
  <2>2. CASE p = o
    BY <1>1, <1>2, <1>3, <2>1, <2>2
  <2>3. CASE p # o
    BY <1>1, <1>2, <2>1, <2>3
  <2>4. QED  BY <2>2, <2>3
<1>6. AppliedExact'
  BY <1>5 DEF AppliedExact, IsAppliedRemote
<1>7. ASSUME NEW p \in Origin  PROVE ~ Promotes(entry'[p].gaps, entry'[p].head)
  <2>1. CASE p = o
    BY <1>1, <1>2, <1>3, <2>1
  <2>2. CASE p # o
    BY <1>1, <1>2, <2>2 DEF IInv, NothingToPromote
  <2>3. QED  BY <2>1, <2>2
<1>8. NothingToPromote'
  BY <1>7 DEF NothingToPromote
<1>9. QED  BY <1>4, <1>6, <1>8

LEMMA NextKeepsIInv == IInv /\ [Next]_vars => IInv'
<1> SUFFICES ASSUME IInv, [Next]_vars PROVE IInv'
  OBVIOUS
<1> USE DEF IInv
<1>1. CASE UNCHANGED vars
  BY <1>1 DEF vars, TypeOK, AppliedExact, NothingToPromote, IsAppliedRemote
<1>2. ASSUME NEW o \in Origin, EvictOrigin(o)  PROVE IInv'
  <2> USE <1>2 DEF EvictOrigin
  <2>1. TypeOK'
    BY MaxSeqAssumption DEF TypeOK, NoEntry, Seqs
  <2>2. ASSUME NEW p \in Origin, NEW s \in Seqs
        PROVE  Covers(entry'[p], s) <=> s \in accepted'[p]
    <3>1. CASE p = o
      BY <3>1, MaxSeqAssumption DEF TypeOK, NoEntry, Covers, Seqs
    <3>2. CASE p # o
      BY <3>2 DEF TypeOK, AppliedExact, IsAppliedRemote
    <3>3. QED  BY <3>1, <3>2
  <2>3. AppliedExact'
    BY <2>2 DEF AppliedExact, IsAppliedRemote
  <2>4. NothingToPromote'
    BY DEF TypeOK, NothingToPromote, NoEntry, Promotes, IsFirst
  <2>5. QED  BY <2>1, <2>3, <2>4
<1>3. ASSUME NEW o \in Origin, NEW seq \in Seqs, Apply(o, seq)  PROVE IInv'
  <2>1. MarkApplied(o, seq) /\ UNCHANGED <<quarantined, filing>>
    BY <1>3 DEF Apply
  <2>2. QED  BY <2>1, MarkAppliedKeepsIInv DEF TypeOK, Entry
<1>4. ASSUME NEW o \in Origin, NEW seq \in Seqs, QuarantineStore(o, seq)  PROVE IInv'
  <2> USE <1>4 DEF QuarantineStore
  <2>1. TypeOK'
    BY DEF TypeOK
  <2>2. AppliedExact' /\ NothingToPromote'
    BY DEF AppliedExact, NothingToPromote, IsAppliedRemote
  <2>3. QED  BY <2>1, <2>2
<1>5. ASSUME NEW o \in Origin, NEW seq \in Seqs, QuarantineMark(o, seq)  PROVE IInv'
  <2>1. MarkApplied(o, seq) /\ UNCHANGED quarantined /\ filing' \in SUBSET (Origin \X Seqs)
    BY <1>5 DEF QuarantineMark, TypeOK
  <2>2. QED  BY <2>1, MarkAppliedKeepsIInv DEF TypeOK, Entry
<1>6. ASSUME NEW o \in Origin, NEW seq \in Seqs, Retry(o, seq)  PROVE IInv'
  <2>1. MarkApplied(o, seq) /\ UNCHANGED filing
    BY <1>6 DEF Retry
  <2>2. quarantined' \in [Origin -> SUBSET Seqs]
    BY <1>6 DEF Retry, TypeOK
  <2>3. QED  BY <2>1, <2>2, MarkAppliedKeepsIInv DEF TypeOK, Entry
<1>7. QED  BY <1>1, <1>2, <1>3, <1>4, <1>5, <1>6 DEF Next
-----------------------------------------------------------------------------
(* The theorems.                                                           *)

\* Every reachable state of the frontier satisfies the inductive invariant.
THEOREM InvariantTheorem == Spec => []IInv
BY InitIInv, NextKeepsIInv, PTL DEF Spec

(***************************************************************************)
(* Cache.frontier, appliedGaps and the quarantine rows stay well typed.    *)
(***************************************************************************)
THEOREM TypeTheorem == Spec => []TypeOK
<1>1. IInv => TypeOK
  BY DEF IInv
<1>2. QED  BY <1>1, InvariantTheorem, PTL

(***************************************************************************)
(* IsAppliedRemote is exact for any number of origins and changesets, in   *)
(* any order of applies, quarantines, retries and evictions.               *)
(***************************************************************************)
THEOREM AppliedExactTheorem == Spec => []AppliedExact
<1>1. IInv => AppliedExact
  BY DEF IInv
<1>2. QED  BY <1>1, InvariantTheorem, PTL

(***************************************************************************)
(* The contiguous head is as high as it can be, unless a number at or      *)
(* below it was put back into the gaps.                                    *)
(***************************************************************************)
THEOREM HeadMaximalTheorem == Spec => []HeadMaximalUnlessPinned
<1>1. IInv => HeadMaximalUnlessPinned
  <2> SUFFICES ASSUME IInv, NEW o \in Origin,
                      ~ Pinned(o), entry[o].head + 1 \in accepted[o]
               PROVE  FALSE
    BY DEF HeadMaximalUnlessPinned
  <2>1. entry[o] \in Entry /\ accepted[o] \subseteq Seqs
    BY DEF IInv, TypeOK, Entry
  <2>2. Covers(entry[o], entry[o].head + 1)
    BY <2>1 DEF IInv, AppliedExact, IsAppliedRemote
  <2>3. entry[o].head + 1 \in entry[o].gaps
    BY <2>1, <2>2, MaxSeqAssumption DEF Covers, Entry
  <2>4. \A s \in entry[o].gaps : entry[o].head + 1 <= s
    BY <2>1, MaxSeqAssumption DEF Pinned, Entry, Seqs
  <2>5. QED  BY <2>3, <2>4 DEF IInv, NothingToPromote, Promotes, IsFirst
<1>2. QED  BY <1>1, InvariantTheorem, PTL

(***************************************************************************)
(* A step from a good state that marks a changeset keeps every answer of   *)
(* IsAppliedRemote and does not lower any head.                            *)
(***************************************************************************)
LEMMA MarkAppliedForgetsNothing ==
  ASSUME IInv, NEW o \in Origin, NEW seq \in Seqs, MarkApplied(o, seq), NEW p \in Origin
  PROVE  /\ entry[p].head <= entry'[p].head
         /\ \A s \in Seqs : Covers(entry[p], s) => Covers(entry'[p], s)
<1>1. entry \in [Origin -> Entry]
  BY DEF IInv, TypeOK, Entry
<1>2. entry' = [entry EXCEPT ![o] = Marked(entry[o], seq)]
  BY DEF MarkApplied
<1>3. /\ entry[o].head <= Marked(entry[o], seq).head
      /\ \A s \in Seqs : Covers(Marked(entry[o], seq), s) <=> Covers(entry[o], s) \/ s = seq
  BY <1>1, MarkedFacts
<1>4. CASE p = o
  BY <1>1, <1>2, <1>3, <1>4
<1>5. CASE p # o
  <2>1. entry'[p] = entry[p] /\ entry[p].head \in Int
    BY <1>1, <1>2, <1>5, MaxSeqAssumption DEF Entry
  <2>2. QED  BY <2>1
<1>6. QED  BY <1>4, <1>5

(***************************************************************************)
(* Only EvictOrigin lowers a head or takes an accepted changeset back.     *)
(***************************************************************************)
THEOREM ForgetTheorem == Spec => OnlyEvictionForgets
<1>1. IInv /\ [Next]_vars => [KeepsOrForgets]_vars
  <2> SUFFICES ASSUME IInv, Next PROVE \A p \in Origin : Forgotten(p) \/ Keeps(p)
    BY DEF KeepsOrForgets
  <2>1. entry \in [Origin -> Entry] /\ accepted \in [Origin -> SUBSET Seqs]
    BY DEF IInv, TypeOK, Entry
  <2>2. ASSUME NEW p \in Origin, entry'[p] = entry[p]  PROVE Keeps(p)
    <3>1. entry[p].head \in Int
      BY <2>1, MaxSeqAssumption DEF Entry
    <3>2. QED  BY <2>2, <3>1 DEF Keeps, IsAppliedRemote
  <2>3. ASSUME NEW o \in Origin, EvictOrigin(o), NEW p \in Origin
        PROVE  Forgotten(p) \/ Keeps(p)
    <3>1. CASE p = o
      BY <2>1, <2>3, <3>1 DEF EvictOrigin, Forgotten
    <3>2. CASE p # o
      <4>1. entry'[p] = entry[p]
        BY <2>1, <2>3, <3>2 DEF EvictOrigin
      <4>2. QED  BY <2>2, <4>1
    <3>3. QED  BY <3>1, <3>2
  <2>4. ASSUME NEW o \in Origin, NEW seq \in Seqs, MarkApplied(o, seq), NEW p \in Origin
        PROVE  Keeps(p)
    BY <2>4, MarkAppliedForgetsNothing DEF Keeps, IsAppliedRemote
  <2>5. ASSUME NEW o \in Origin, NEW seq \in Seqs, QuarantineStore(o, seq), NEW p \in Origin
        PROVE  Keeps(p)
    BY <2>2, <2>5 DEF QuarantineStore
  <2>6. QED
    BY <2>3, <2>4, <2>5 DEF Next, Apply, QuarantineMark, Retry
<1>2. QED  BY <1>1, InvariantTheorem, PTL DEF Spec, OnlyEvictionForgets

-----------------------------------------------------------------------------
(* The frontier implements AppliedSet.                                     *)

LEMMA MarkAppliedIsAccept ==
  ASSUME IInv, NEW o \in Origin, NEW seq \in Seqs, MarkApplied(o, seq)
  PROVE  A!Accept(o, seq) \/ appliedSet' = appliedSet
<1>1. entry \in [Origin -> Entry]
  BY DEF IInv, TypeOK, Entry
<1>2. entry' = [entry EXCEPT ![o] = Marked(entry[o], seq)]
  BY DEF MarkApplied
<1>3. \A s \in Seqs : Covers(Marked(entry[o], seq), s) <=> Covers(entry[o], s) \/ s = seq
  BY <1>1, MarkedFacts
<1>4. appliedSet' = [appliedSet EXCEPT ![o] = appliedSet[o] \cup {seq}]
  <2>1. ASSUME NEW p \in Origin
        PROVE  {s \in Seqs : Covers(entry'[p], s)} =
                 IF p = o THEN {s \in Seqs : Covers(entry[p], s)} \cup {seq}
                          ELSE {s \in Seqs : Covers(entry[p], s)}
    <3>1. CASE p = o
      <4>1. entry'[p] = Marked(entry[o], seq)
        BY <1>1, <1>2, <3>1
      <4>2. QED  BY <1>3, <3>1, <4>1
    <3>2. CASE p # o
      <4>1. entry'[p] = entry[p]
        BY <1>1, <1>2, <3>2
      <4>2. QED  BY <3>2, <4>1
    <3>3. QED  BY <3>1, <3>2
  <2>2. QED  BY <2>1 DEF appliedSet, IsAppliedRemote
<1>5. CASE seq \in appliedSet[o]
  <2>1. appliedSet[o] \cup {seq} = appliedSet[o]
    BY <1>5
  <2>2. QED  BY <1>4, <2>1 DEF appliedSet
<1>6. CASE seq \notin appliedSet[o]
  BY <1>4, <1>6 DEF A!Accept
<1>7. QED  BY <1>5, <1>6

(***************************************************************************)
(* Every step of the frontier adds one changeset to one origin's set,      *)
(* empties one origin's set, or leaves all sets as they are.               *)
(***************************************************************************)
THEOREM RefinementTheorem == Spec => ImplementsAppliedSet
<1>1. Init => A!Init
  <2> SUFFICES ASSUME Init PROVE appliedSet = [o \in Origin |-> {}]
    BY DEF A!Init
  <2>1. ASSUME NEW o \in Origin, NEW s \in Seqs  PROVE ~ Covers(entry[o], s)
    BY MaxSeqAssumption DEF Init, NoEntry, Covers, Seqs
  <2>2. QED  BY <2>1 DEF appliedSet, IsAppliedRemote
<1>2. IInv /\ [Next]_vars => [A!Next]_appliedSet
  <2> SUFFICES ASSUME IInv, [Next]_vars PROVE A!Next \/ appliedSet' = appliedSet
    OBVIOUS
  <2>1. CASE UNCHANGED entry
    BY <2>1 DEF appliedSet, IsAppliedRemote
  <2>2. ASSUME NEW o \in Origin, EvictOrigin(o)  PROVE A!Forget(o)
    <3>1. entry' = [entry EXCEPT ![o] = NoEntry] /\ entry \in [Origin -> Entry]
      BY <2>2 DEF EvictOrigin, IInv, TypeOK, Entry
    <3>2. \A s \in Seqs : ~ Covers(NoEntry, s)
      BY MaxSeqAssumption DEF NoEntry, Covers, Seqs
    <3>3. appliedSet' = [appliedSet EXCEPT ![o] = {}]
      <4>1. ASSUME NEW p \in Origin
            PROVE  {s \in Seqs : Covers(entry'[p], s)} =
                     IF p = o THEN {} ELSE {s \in Seqs : Covers(entry[p], s)}
        BY <3>1, <3>2
      <4>2. QED  BY <4>1 DEF appliedSet, IsAppliedRemote
    <3>4. QED  BY <3>3 DEF A!Forget
  <2>3. ASSUME NEW o \in Origin, NEW seq \in Seqs, MarkApplied(o, seq)
        PROVE  A!Next \/ appliedSet' = appliedSet
    BY <2>3, MarkAppliedIsAccept DEF A!Next, Seqs
  <2>4. QED
    BY <2>1, <2>2, <2>3
    DEF Next, vars, Apply, QuarantineStore, QuarantineMark, Retry, A!Next
<1>3. QED  BY <1>1, <1>2, InvariantTheorem, PTL DEF Spec, ImplementsAppliedSet, A!Spec
=============================================================================
