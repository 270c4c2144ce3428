------------------------------ MODULE Frontier ------------------------------
(***************************************************************************)
(* The applied frontier of one node (internal/nodestate/cache.go) under    *)
(* everything that moves it: inbound applies in any order, quarantine of a *)
(* changeset that fails deterministically, the forced re-apply of a        *)
(* quarantined changeset and the eviction of a dead origin.                *)
(*                                                                         *)
(* Every action is one critical section of Cache.mu.  Payloads, clocks and *)
(* app.db are left out (module ApplyNode has them): what is asked here is  *)
(* what the pair (head, gaps) says about which changesets were accepted.   *)
(***************************************************************************)
EXTENDS SeqSets, FiniteSets

CONSTANTS
  Origin,     \* the remote origins
  MaxSeq,     \* bound: sequence numbers 1..MaxSeq are delivered
  Cap         \* quarantine.Policy.Cap: resident entries per origin

ASSUME MaxSeqAssumption == MaxSeq \in Nat \ {0}
ASSUME CapAssumption == Cap \in Nat

VARIABLES
  entry,        \* Cache.frontier and Cache.appliedGaps, per origin
  quarantined,  \* the durable quarantine rows, per origin
  filing,       \* quarantine rows written whose MarkApplied is still to come
  accepted      \* history: changesets applied or quarantined since admission

vars == <<entry, quarantined, filing, accepted>>

Seqs == 1..MaxSeq

TypeOK ==
  /\ entry \in [Origin -> [head : 0..MaxSeq, gaps : SUBSET Seqs]]
  /\ quarantined \in [Origin -> SUBSET Seqs]
  /\ filing \in SUBSET (Origin \X Seqs)
  /\ accepted \in [Origin -> SUBSET Seqs]

Init ==
  /\ entry = [o \in Origin |-> NoEntry]
  /\ quarantined = [o \in Origin |-> {}]
  /\ filing = {}
  /\ accepted = [o \in Origin |-> {}]

-----------------------------------------------------------------------------

IsAppliedRemote(o, seq) == Covers(entry[o], seq)

MarkApplied(o, seq) ==
  /\ entry' = [entry EXCEPT ![o] = Marked(@, seq)]
  /\ accepted' = [accepted EXCEPT ![o] = @ \cup {seq}]

(***************************************************************************)
(* A delivered changeset applies; a duplicate is dropped by the gate of    *)
(* applyPayloadCache.                                                      *)
(***************************************************************************)
Apply(o, seq) ==
  /\ ~IsAppliedRemote(o, seq)
  /\ MarkApplied(o, seq)
  /\ UNCHANGED <<quarantined, filing>>

(***************************************************************************)
(* A delivered changeset fails deterministically: the row is stored first  *)
(* (refused at the cap), the frontier advances in a second step.           *)
(***************************************************************************)
QuarantineStore(o, seq) ==
  /\ ~IsAppliedRemote(o, seq)
  /\ Cardinality(quarantined[o]) < Cap
  /\ quarantined' = [quarantined EXCEPT ![o] = @ \cup {seq}]
  /\ filing' = filing \cup {<<o, seq>>}
  /\ UNCHANGED <<entry, accepted>>

QuarantineMark(o, seq) ==
  /\ <<o, seq>> \in filing
  /\ filing' = filing \ {<<o, seq>>}
  /\ MarkApplied(o, seq)
  /\ UNCHANGED quarantined

(***************************************************************************)
(* The retry loop force-applies a stored changeset, past the applied gate, *)
(* and deletes its row; an error of the delete is ignored by the code.     *)
(***************************************************************************)
Retry(o, seq) ==
  /\ seq \in quarantined[o]
  /\ MarkApplied(o, seq)
  /\ \/ quarantined' = [quarantined EXCEPT ![o] = @ \ {seq}]
     \/ UNCHANGED quarantined
  /\ UNCHANGED filing

\* Drops the frontier entry and forgets the applied gaps.
MutEvictOrigin(o) ==
  /\ entry[o] # NoEntry
  /\ entry' = [entry EXCEPT ![o].head = 0]
  /\ accepted' = [accepted EXCEPT ![o] = {}]
  /\ UNCHANGED <<quarantined, filing>>

EvictOrigin(o) ==
  /\ entry[o] # NoEntry
  /\ entry' = [entry EXCEPT ![o] = NoEntry]
  /\ accepted' = [accepted EXCEPT ![o] = {}]
  /\ UNCHANGED <<quarantined, filing>>

Next ==
  \E o \in Origin :
    \/ EvictOrigin(o)
    \/ \E seq \in Seqs :
         \/ Apply(o, seq)
         \/ QuarantineStore(o, seq)
         \/ QuarantineMark(o, seq)
         \/ Retry(o, seq)

Spec == Init /\ [][Next]_vars

-----------------------------------------------------------------------------

(***************************************************************************)
(* The pair (head, gaps) answers IsAppliedRemote exactly: "applied" for    *)
(* every changeset the node accepted and for no other, whatever the order  *)
(* of deliveries, retries and evictions.  A wrong "yes" drops a changeset  *)
(* for good, a wrong "no" applies it twice.                                *)
(***************************************************************************)
AppliedExact ==
  \A o \in Origin, seq \in Seqs : IsAppliedRemote(o, seq) <=> seq \in accepted[o]

(***************************************************************************)
(* PromoteContiguous leaves nothing to promote behind: the changeset after *)
(* the head is missing, unless a sequence number at or below the head sits *)
(* in the gaps and hides the range that could be promoted.                 *)
(***************************************************************************)
Pinned(o) == \E s \in entry[o].gaps : s <= entry[o].head

HeadMaximalUnlessPinned ==
  \A o \in Origin : Pinned(o) \/ entry[o].head + 1 \notin accepted[o]

(***************************************************************************)
(* Frontier monotonicity (invariant 4 of CRDT.md): only the eviction of an *)
(* origin takes an accepted changeset or part of a head back.              *)
(***************************************************************************)
Keeps(o) ==
  /\ entry[o].head <= entry'[o].head
  /\ \A seq \in Seqs : IsAppliedRemote(o, seq) => IsAppliedRemote(o, seq)'

Forgotten(o) == entry'[o] = NoEntry /\ accepted'[o] = {}

KeepsOrForgets == \A o \in Origin : Forgotten(o) \/ Keeps(o)

OnlyEvictionForgets == [][KeepsOrForgets]_vars

(***************************************************************************)
(* The frontier implements a plain grow-only set per origin.               *)
(***************************************************************************)
appliedSet == [o \in Origin |-> {seq \in Seqs : IsAppliedRemote(o, seq)}]

A == INSTANCE AppliedSet WITH applied <- appliedSet

ImplementsAppliedSet == A!Spec
=============================================================================
