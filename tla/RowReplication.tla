--------------------------- MODULE RowReplication ---------------------------
(***************************************************************************)
(* One row of a row-group table on several nodes.  Each node runs an       *)
(* application writer, the drain that turns its committed transactions     *)
(* into changesets (internal/syncer), and the apply path for the           *)
(* changesets of the others (internal/broker).  The three share app.db     *)
(* (content) and nodestate.Cache (clock, hlc, applied), and no lock covers *)
(* all of them: applyMu serialises inbound applies with ReassertLocal and  *)
(* Cache.mu covers one cache operation.                                    *)
(*                                                                         *)
(* A row image is the identity of the local write that produced it: an     *)
(* update of a row-group table ships the full image, so images are never   *)
(* mixed.  Delivery hands any published changeset to any node, any number  *)
(* of times, in any order.                                                 *)
(***************************************************************************)
EXTENDS RowClocks, SequencesExt

CONSTANTS
  Node,       \* the origins, positive numbers
  MaxWrites,  \* bound: local transactions of each node
  MaxWall,    \* bound: largest reading of a wall clock
  BatchMax    \* Drainer.batchMax

ASSUME NodeAssumption == Node \subseteq Nat \ {0}
ASSUME BoundAssumption ==
  MaxWrites \in [Node -> Nat] /\ MaxWall \in Nat /\ BatchMax \in Nat \ {0}

VARIABLES
  content,      \* app.db: the image of the row on each node, or Absent
  clock,        \* Cache.rowClock
  hlc,          \* Cache.hlcLast
  writes,       \* how many transactions the application has committed
  committed,    \* the app.db commit whose wal hook is still to run
  journal,      \* the producer journal past the drained offset
  drain,        \* MetaSink.Apply in progress
  nextSeq,      \* Cache.senderNextSeq
  published,    \* the changesets handed to transport and sealer
  applying,     \* applyPayloadCache between its COMMIT and its cache updates
  applied,      \* the frontier: changesets accepted on each node
  quarantined,  \* stored changesets waiting for a retry
  races         \* history: the unprotected interleavings that occurred

writerVars == <<writes, committed>>
drainVars == <<drain, nextSeq, published>>
applyVars == <<applying, applied, quarantined>>
vars == <<content, clock, hlc, writerVars, journal, drainVars, applyVars, races>>

Op == {"insert", "update", "delete"}

Race == {"in flight", "resurrection", "backlog", "window"}

Absent == <<>>

Images == {Absent} \cup (Node \X Nat)

Commit == [op : Op, image : Images]

StampedCommit == [op : Op, image : Images, stamp : Stamp]

Record == [op : Op, image : Images, stamp : Stamp, cl : Nat, seq : Nat]

Idle == [pc |-> "idle", batch |-> <<>>, built |-> <<>>]

TypeOK ==
  /\ content \in [Node -> Images]
  /\ clock \in [Node -> RowState]
  /\ hlc \in [Node -> Nat]
  /\ writes \in [Node -> Nat]
  /\ committed \in [Node -> SUBSET Commit]
  /\ journal \in [Node -> Seq(StampedCommit)]
  /\ drain \in [Node -> [pc : {"idle", "build", "reassert", "publish", "commit"},
                         batch : Seq(StampedCommit), built : Seq(Record)]]
  /\ nextSeq \in [Node -> Nat]
  /\ published \subseteq Record
  /\ applying \in [Node -> SUBSET [rec : Record, won : BOOLEAN]]
  /\ applied \in [Node -> SUBSET Record]
  /\ quarantined \in [Node -> SUBSET Record]
  /\ races \subseteq Race

Init ==
  /\ content = [n \in Node |-> Absent]
  /\ clock = [n \in Node |-> NeverExisted]
  /\ hlc = [n \in Node |-> 0]
  /\ writes = [n \in Node |-> 0]
  /\ committed = [n \in Node |-> {}]
  /\ journal = [n \in Node |-> <<>>]
  /\ drain = [n \in Node |-> Idle]
  /\ nextSeq = [n \in Node |-> 1]
  /\ published = {}
  /\ applying = [n \in Node |-> {}]
  /\ applied = [n \in Node |-> {}]
  /\ quarantined = [n \in Node |-> {}]
  /\ races = {}

\* Records that an interleaving no lock excludes has happened.
Note(cond, race) == races' = IF cond THEN races \cup {race} ELSE races

-----------------------------------------------------------------------------
\* The application's writer and the producer's hook.

Image(n, op) == IF op = "delete" THEN Absent ELSE <<n, writes[n] + 1>>

\* A remote image is in app.db and the cache does not cover it yet.
InFlight(n) == \E a \in applying[n] : a.won

(***************************************************************************)
(* A local transaction commits in app.db.  SQLite admits an insert only of *)
(* a row that is not there, an update or delete only of one that is.  A    *)
(* transaction that the commit hook vetoes leaves no trace here.           *)
(***************************************************************************)
Write(n, op) ==
  /\ committed[n] = {}
  /\ writes[n] < MaxWrites[n]
  /\ (op = "insert") <=> (content[n] = Absent)
  /\ content' = [content EXCEPT ![n] = Image(n, op)]
  /\ committed' = [committed EXCEPT ![n] = {[op |-> op, image |-> Image(n, op)]}]
  /\ writes' = [writes EXCEPT ![n] = @ + 1]
  /\ Note(InFlight(n), "in flight")
  /\ UNCHANGED <<clock, hlc, journal, drainVars, applyVars>>

\* Reuses the last clock when the wall clock is behind it.
MutStampHLC(n, wall) == IF wall > hlc[n] THEN wall ELSE hlc[n]

\* The wall clock when it is ahead of hlcLast, a logical tick otherwise.
StampHLC(n, wall) == IF wall > hlc[n] THEN wall ELSE hlc[n] + 1

(***************************************************************************)
(* The wal hook runs after the commit, and after SQLite has released the   *)
(* write lock: it stamps the transaction and appends it to the journal.    *)
(***************************************************************************)
WalHook(n, wall) ==
  \E c \in committed[n] :
    /\ hlc' = [hlc EXCEPT ![n] = StampHLC(n, wall)]
    /\ journal' = [journal EXCEPT ![n] =
         Append(@, [op |-> c.op, image |-> c.image,
                    stamp |-> [clk |-> StampHLC(n, wall), origin |-> n]])]
    /\ committed' = [committed EXCEPT ![n] = {}]
    /\ UNCHANGED <<content, clock, writes, drainVars, applyVars, races>>

-----------------------------------------------------------------------------
\* What a record does to the row (applyRecordsLWW on a row-group table).

Wins(n, rec) == DominatedBy(clock[n], rec.cl, rec.stamp)

\* An update that wins and finds no row: errUpdateOutranInsert.
OutranInsert(n, rec) == Wins(n, rec) /\ rec.op = "update" /\ content[n] = Absent

\* The loser of the (CL, Stamp) comparison is skipped.
ContentAfter(n, rec) == IF Wins(n, rec) THEN rec.image ELSE content[n]

-----------------------------------------------------------------------------
\* The drain.

CollectBatch(n, k) ==
  /\ drain[n].pc = "idle"
  /\ k <= Len(journal[n])
  /\ drain' = [drain EXCEPT ![n] =
       [pc |-> "build", batch |-> SubSeq(journal[n], 1, k), built |-> <<>>]]
  /\ journal' = [journal EXCEPT ![n] = SubSeq(@, k + 1, Len(@))]
  /\ UNCHANGED <<content, clock, hlc, writerVars, nextSeq, published, applyVars, races>>

\* Every record of the batch sees the cache only.
MutGetRowState(n) == clock[n]

\* The batch sees its own earlier records, else the cache.
getRowState(n) ==
  IF drain[n].built = <<>> THEN clock[n] ELSE StateOf(Last(drain[n].built))

\* The next record of the batch, and the self-log append that captures it.
BuildRecord(n) ==
  LET c == Head(drain[n].batch)
      rs == getRowState(n)
      rec == [op |-> c.op, image |-> c.image, stamp |-> c.stamp,
              seq |-> nextSeq[n] + Len(drain[n].built),
              cl |-> IF c.op = "delete" THEN NextTombCL(rs) ELSE NextLiveCL(rs)]
  IN
  /\ drain[n].pc = "build"
  /\ drain' = [drain EXCEPT ![n] =
       [pc |-> "reassert", batch |-> Tail(@.batch), built |-> Append(@.built, rec)]]
  /\ Note(c.op = "update" /\ ~IsLive(rs), "resurrection")
  /\ UNCHANGED <<content, clock, hlc, writerVars, journal, nextSeq, published, applyVars>>

(***************************************************************************)
(* ReassertLocal re-runs the DML of a record that beats a clock a remote   *)
(* write set.  A clock this node set itself means, to the code, that       *)
(* nothing interleaved.  The caller ignores an error.                      *)
(***************************************************************************)
MustReassert(n, rec) ==
  /\ clock[n].cl # 0
  /\ clock[n].base.origin # n
  /\ Wins(n, rec)
  /\ ~OutranInsert(n, rec)

\* Re-runs nothing.
MutReassertLocal(n) ==
  /\ drain[n].pc = "reassert"
  /\ applying[n] = {}
  /\ drain' = [drain EXCEPT ![n].pc = IF drain[n].batch = <<>> THEN "publish" ELSE "build"]
  /\ UNCHANGED <<content, clock, races>>
  /\ UNCHANGED <<hlc, writerVars, journal, nextSeq, published, applyVars>>

\* Younger local commits that are not drained yet.
Backlog(n) == drain[n].batch # <<>> \/ journal[n] # <<>> \/ committed[n] # {}

ReassertLocal(n) ==
  LET rec == Last(drain[n].built) IN
  /\ drain[n].pc = "reassert"
  /\ applying[n] = {}
  /\ IF MustReassert(n, rec)
     THEN /\ content' = [content EXCEPT ![n] = rec.image]
          /\ clock' = [clock EXCEPT ![n] = PutRowState(@, StateOf(rec))]
          /\ Note(Backlog(n), "backlog")
     ELSE UNCHANGED <<content, clock, races>>
  /\ drain' = [drain EXCEPT ![n].pc = IF drain[n].batch = <<>> THEN "publish" ELSE "build"]
  /\ UNCHANGED <<hlc, writerVars, journal, nextSeq, published, applyVars>>

\* After the self-log fsync: broadcast and feed the sealer.
Publish(n) ==
  /\ drain[n].pc = "publish"
  /\ published' = published \cup Range(drain[n].built)
  /\ drain' = [drain EXCEPT ![n].pc = "commit"]
  /\ UNCHANGED <<content, clock, hlc, writerVars, journal, nextSeq, applyVars, races>>

\* The row clock of one record lands in the cache and its number is consumed.
CommitRecord(n) ==
  LET rest == Tail(drain[n].built) IN
  /\ drain[n].pc = "commit"
  /\ clock' = [clock EXCEPT ![n] = PutRowState(@, StateOf(Head(drain[n].built)))]
  /\ nextSeq' = [nextSeq EXCEPT ![n] = @ + 1]
  /\ drain' = [drain EXCEPT ![n] = IF rest = <<>> THEN Idle ELSE [@ EXCEPT !.built = rest]]
  /\ UNCHANGED <<content, hlc, writerVars, journal, published, applyVars, races>>

-----------------------------------------------------------------------------
\* Inbound changesets.

\* The records of the running batch past their ReassertLocal, not in the cache yet.
Reasserted(n) ==
  Range(IF drain[n].pc = "reassert" THEN Front(drain[n].built) ELSE drain[n].built)

Beats(r, rec) == DominatedBy(StateOf(rec), r.cl, r.stamp)

(***************************************************************************)
(* applyPayloadCache up to the COMMIT of its DML, with applyMu held: LWW   *)
(* against the cached clock.  Retry is the same call with force, from the  *)
(* quarantine's retry loop.                                                *)
(***************************************************************************)
ApplyDML(n, rec) ==
  /\ applying[n] = {}
  /\ ~OutranInsert(n, rec)
  /\ content' = [content EXCEPT ![n] = ContentAfter(n, rec)]
  /\ applying' = [applying EXCEPT ![n] = {[rec |-> rec, won |-> Wins(n, rec)]}]
  /\ Note(Wins(n, rec) /\ \E r \in Reasserted(n) : Beats(r, rec), "window")
  /\ UNCHANGED <<clock, hlc, writerVars, journal, drainVars, applied, quarantined>>

Deliver(n, rec) ==
  /\ rec.stamp.origin # n
  /\ rec \notin applied[n]
  /\ ApplyDML(n, rec)

\* The retry does not bypass the applied gate.
MutRetry(n, rec) ==
  /\ rec \in quarantined[n]
  /\ rec \notin applied[n]
  /\ ApplyDML(n, rec)

Retry(n, rec) ==
  /\ rec \in quarantined[n]
  /\ ApplyDML(n, rec)

Later(a, b) == IF a > b THEN a ELSE b

\* A deterministic failure is stored and the frontier moves past it.
Quarantine(n, rec) ==
  /\ applying[n] = {}
  /\ rec.stamp.origin # n
  /\ rec \notin applied[n]
  /\ OutranInsert(n, rec)
  /\ quarantined' = [quarantined EXCEPT ![n] = @ \cup {rec}]
  /\ applied' = [applied EXCEPT ![n] = @ \cup {rec}]
  /\ hlc' = [hlc EXCEPT ![n] = Later(@, rec.stamp.clk)]
  /\ UNCHANGED <<content, clock, writerVars, journal, drainVars, applying, races>>

(***************************************************************************)
(* advanceCacheState: the row clock if the record won, then MarkApplied,   *)
(* which also pulls hlcLast forward.  The row of a retry is deleted.       *)
(***************************************************************************)
AdvanceCacheState(n) ==
  \E a \in applying[n] :
    /\ clock' = [clock EXCEPT ![n] = IF a.won THEN PutRowState(@, StateOf(a.rec)) ELSE @]
    /\ applied' = [applied EXCEPT ![n] = @ \cup {a.rec}]
    /\ hlc' = [hlc EXCEPT ![n] = Later(@, a.rec.stamp.clk)]
    /\ quarantined' = [quarantined EXCEPT ![n] = @ \ {a.rec}]
    /\ applying' = [applying EXCEPT ![n] = {}]
    /\ UNCHANGED <<content, writerVars, journal, drainVars, races>>

-----------------------------------------------------------------------------

Writer(n) == \E op \in Op : Write(n, op)

Drain(n) ==
  \/ \E k \in 1..BatchMax : CollectBatch(n, k)
  \/ BuildRecord(n)
  \/ ReassertLocal(n)
  \/ Publish(n)
  \/ CommitRecord(n)

Receive(n) ==
  \/ \E rec \in published : Deliver(n, rec) \/ Retry(n, rec) \/ Quarantine(n, rec)
  \/ AdvanceCacheState(n)

Next ==
  \E n \in Node :
    \/ Writer(n)
    \/ \E wall \in 0..MaxWall : WalHook(n, wall)
    \/ Drain(n)
    \/ Receive(n)

Spec == Init /\ [][Next]_vars

(***************************************************************************)
(* The hook runs inside the committing call, the drain and the subscribe,  *)
(* fetch and retry loops run for as long as the node does.  Nothing makes  *)
(* the application write.                                                  *)
(***************************************************************************)
Fairness ==
  \A n \in Node :
    /\ WF_vars(\E wall \in 0..MaxWall : WalHook(n, wall))
    /\ WF_vars(Drain(n))
    /\ WF_vars(Receive(n))

FairSpec == Spec /\ Fairness

-----------------------------------------------------------------------------

(***************************************************************************)
(* A changeset the frontier counts as applied, and that is not waiting in  *)
(* quarantine, is reflected in the row clock: it lost to the clock or set  *)
(* it, so no later delivery can be beaten by less.                         *)
(***************************************************************************)
ClockCovers ==
  \A n \in Node : \A rec \in applied[n] \ quarantined[n] : ~Wins(n, rec)

(***************************************************************************)
(* Dot uniqueness and per-origin clock order (invariants 1 and 2 of        *)
(* CRDT.md), over every changeset the drain captured: a batch takes its    *)
(* numbers from a counter it advances only after it published.             *)
(***************************************************************************)
Captured == published \cup UNION {Range(drain[n].built) : n \in Node}

DotsOrdered ==
  \A r, s \in Captured :
    r.stamp.origin = s.stamp.origin =>
      /\ r.seq = s.seq => r = s
      /\ r.seq < s.seq => r.stamp.clk < s.stamp.clk

Settled(n) ==
  /\ ~Backlog(n)
  /\ drain[n].pc = "idle"
  /\ applying[n] = {}

(***************************************************************************)
(* On a node with nothing in flight app.db holds the image of the record   *)
(* that set the row clock, and no row when the clock is a tombstone: this  *)
(* is what the comparison of the next changeset with the cached clock      *)
(* relies on.  It fails only after one of the interleavings of Race.       *)
(***************************************************************************)
ClockDescribesContent ==
  races = {} =>
    \A n \in Node : Settled(n) =>
      /\ clock[n] = NeverExisted => content[n] = Absent
      /\ clock[n] # NeverExisted =>
           \E rec \in published : StateOf(rec) = clock[n] /\ rec.image = content[n]

Quiet(n) ==
  /\ Settled(n)
  /\ \A rec \in published : rec.stamp.origin = n \/ rec \in applied[n]
  /\ \A rec \in quarantined[n] : OutranInsert(n, rec)

(***************************************************************************)
(* Strong eventual consistency (CRDT.md): when every node has drained its  *)
(* journal and received every changeset, all nodes hold the same row under *)
(* the same clock.                                                         *)
(***************************************************************************)
Converged ==
  (\A n \in Node : Quiet(n)) =>
    \A m, n \in Node : content[m] = content[n] /\ clock[m] = clock[n]

\* Convergence can be lost only through one of the interleavings of Race.
ConvergedUnlessRaced == races = {} => Converged

(***************************************************************************)
(* Nothing waits forever: once the application stops writing, every commit *)
(* is published and every node accepts every changeset, whatever was       *)
(* quarantined on the way.                                                 *)
(***************************************************************************)
EventuallyQuiet == <>[](\A n \in Node : Quiet(n))

(***************************************************************************)
(* ReassertLocal "closes the local-commit/inbound-apply race"              *)
(* (broker/apply.go:221): convergence when an inbound apply commits after  *)
(* ReassertLocal looked and before the batch's row clocks land.            *)
(***************************************************************************)
ConvergedDespiteWindow == races \subseteq {"window"} => Converged

=============================================================================
