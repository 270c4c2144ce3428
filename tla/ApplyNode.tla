----------------------------- MODULE ApplyNode -----------------------------
(***************************************************************************)
(* One node that receives changesets, and its restarts: the apply path of  *)
(* internal/broker with its two threads, the quarantine and its retry      *)
(* loop, the per-origin mirror journals with their asynchronous writers    *)
(* (internal/mirror), the snapshotter and RecoverMirror                    *)
(* (internal/nodestate).                                                   *)
(*                                                                         *)
(* State lives in four places that are written one after the other: app.db *)
(* (row, counter, applied markers), the cache, the mirror journal and      *)
(* metadata.db.  A crash of the process keeps app.db, metadata.db and what *)
(* the journal writers copied into the mapped segments.                    *)
(*                                                                         *)
(* Every changeset writes the same row; its rank stands for its stamp, and *)
(* an update needs the row to be there.  Some changesets also add to a     *)
(* counter, in the same transaction.                                       *)
(***************************************************************************)
EXTENDS SeqSets, FiniteSets, SequencesExt

CONSTANTS
  Origin,     \* the remote origins
  World,      \* the changesets that exist, dots <<origin, seq>>
  Rank,       \* the LWW order: dot -> 1, 2, ...
  Update,     \* the changesets that update the row; the others insert it
  Counter,    \* the changesets that also contribute to a counter
  Cap,        \* the quarantine rows one origin may have before it is halted
  MaxFaults   \* bound: crashes, and failed deletes of quarantine rows

ASSUME WorldAssumption ==
  /\ World \subseteq Origin \X (Nat \ {0})
  /\ Rank \in [World -> Nat \ {0}]
  /\ Update \subseteq World /\ Counter \subseteq World
  /\ Cap \in Nat /\ MaxFaults \in Nat

VARIABLES
  row,        \* app.db: the changeset whose image the row holds, if any
  counted,    \* app.db: how often each changeset's contribution was added
  markers,    \* app.db: the table _syzy_applied
  meta,       \* metadata.db: the last snapshot
  quar,       \* metadata.db: the quarantine rows
  mirror,     \* the mirror journal of each origin, on disk
  cache,      \* nodestate.Cache
  queue,      \* the channel of each mirror writer
  thread,     \* what the subscribe and the fetch goroutine are doing
  snapshot,   \* the snapshotter's captured copy
  faults      \* how many faults have happened

appVars == <<row, counted, markers>>
diskVars == <<appVars, meta, quar, mirror>>
vars == <<diskVars, cache, queue, thread, snapshot, faults>>

Thread == {"subscribe", "fetch"}

\* The steps of a thread; applyMu is held in the first four.
Locked == {"clock", "mark", "append", "marker"}
Step == Locked \cup {"count", "store", "file", "delete"}

Work == [c : World, won : BOOLEAN, force : BOOLEAN, step : Step]

\* What a snapshot holds of the cache.
Seqs == {c[2] : c \in World}

Image == [entry : [Origin -> [head : {0} \cup Seqs, gaps : SUBSET Seqs]],
          clock : Nat, mark : [Origin -> Nat]]

EmptyImage ==
  [entry |-> [o \in Origin |-> NoEntry], clock |-> 0, mark |-> [o \in Origin |-> 0]]

\* A cache with no memory of what the running process persisted.
Loaded(image) ==
  [image |-> image, persisted |-> [o \in Origin |-> 0], prevPersisted |-> [o \in Origin |-> 0]]

TypeOK ==
  /\ row \subseteq World /\ Cardinality(row) <= 1
  /\ counted \in [World -> Nat]
  /\ markers \subseteq Counter
  /\ meta \in Image
  /\ quar \subseteq Update
  /\ mirror \in [Origin -> Seq(World)]
  /\ cache \in [image : Image, persisted : [Origin -> Nat], prevPersisted : [Origin -> Nat]]
  /\ queue \in [Origin -> Seq(World)]
  /\ thread \in [Thread -> Seq(Work)] /\ \A t \in Thread : Len(thread[t]) <= 1
  /\ snapshot \in Seq(Image) /\ Len(snapshot) <= 1
  /\ faults \in 0..MaxFaults

Init ==
  /\ row = {}
  /\ counted = [c \in World |-> 0]
  /\ markers = {}
  /\ meta = EmptyImage
  /\ quar = {}
  /\ mirror = [o \in Origin |-> <<>>]
  /\ cache = Loaded(EmptyImage)
  /\ queue = [o \in Origin |-> <<>>]
  /\ thread = [t \in Thread |-> <<>>]
  /\ snapshot = <<>>
  /\ faults = 0

IsAppliedRemote(c) == Covers(cache.image.entry[c[1]], c[2])

MarkApplied(c) == cache' = [cache EXCEPT !.image.entry[c[1]] = Marked(@, c[2])]

-----------------------------------------------------------------------------
\* The DML transaction.

Idle(t) == thread[t] = <<>>

At(t, step) == ~Idle(t) /\ thread[t][1].step = step

Job(t) == thread[t][1]

Finish(t) == thread' = [thread EXCEPT ![t] = <<>>]

Then(t, step) == thread' = [thread EXCEPT ![t] = <<[@[1] EXCEPT !.step = step]>>]

ApplyMuFree == ~\E t \in Thread, step \in Locked : At(t, step)

Wins(c) == Rank[c] > cache.image.clock

\* Any winner that finds no row fails.
MutOutranInsert(c) == Wins(c) /\ row = {}

\* An update that wins and finds no row: errUpdateOutranInsert.
OutranInsert(c) == Wins(c) /\ c \in Update /\ row = {}

\* The marker that was just written is pruned with the old ones.
MutMarkerPruneBound(c) == c[2]

\* Two snapshots cover the markers up to here; the one just written is never pruned.
MarkerPruneBound(c) ==
  LET bound == cache.prevPersisted[c[1]] IN IF bound >= c[2] THEN c[2] - 1 ELSE bound

\* A contribution is added once per marker, and certified in the same transaction.
CounterDML(c) ==
  IF c \in Counter /\ c \notin markers
  THEN /\ counted' = [counted EXCEPT ![c] = @ + 1]
       /\ markers' = {m \in markers \cup {c} : m[1] = c[1] => m[2] > MarkerPruneBound(c)}
  ELSE UNCHANGED <<counted, markers>>

(***************************************************************************)
(* applyPayloadCache up to the COMMIT.  A deterministic failure rolls      *)
(* everything back, releases applyMu and goes to quarantine, or, on a      *)
(* retry, leaves the stored row for another round.                         *)
(***************************************************************************)
ApplyDML(t, c, force) ==
  /\ Idle(t) /\ ApplyMuFree
  /\ IF OutranInsert(c)
     THEN ~force /\ UNCHANGED appVars
     ELSE row' = (IF Wins(c) THEN {c} ELSE row) /\ CounterDML(c)
  /\ thread' = [thread EXCEPT ![t] =
       <<[c |-> c, won |-> Wins(c), force |-> force,
          step |-> IF OutranInsert(c) THEN "count" ELSE "clock"]>>]
  /\ UNCHANGED <<meta, quar, mirror, cache, queue, snapshot, faults>>

Deliver(t, c) ==
  /\ ~IsAppliedRemote(c)
  /\ ApplyDML(t, c, FALSE)

\* The retry stops at the applied gate like a delivery.
MutRetry(c) ==
  /\ c \in quar
  /\ ~IsAppliedRemote(c)
  /\ ApplyDML("fetch", c, TRUE)

\* RetryQuarantined, on the fetch goroutine: past the applied gate.
Retry(c) ==
  /\ c \in quar
  /\ ApplyDML("fetch", c, TRUE)

-----------------------------------------------------------------------------
\* advanceCacheState, one cache operation at a time.

Larger(a, b) == IF a > b THEN a ELSE b

PutRowState(t) ==
  /\ At(t, "clock")
  /\ cache' = [cache EXCEPT !.image.clock =
       IF Job(t).won THEN Larger(@, Rank[Job(t).c]) ELSE @]
  /\ Then(t, "mark")
  /\ UNCHANGED <<diskVars, queue, snapshot, faults>>

AdvanceFrontier(t) ==
  /\ At(t, "mark")
  /\ MarkApplied(Job(t).c)
  /\ Then(t, "append")
  /\ UNCHANGED <<diskVars, queue, snapshot, faults>>

\* Manager.Append hands the payload to the origin's writer.
AppendMirror(t) ==
  /\ At(t, "append")
  /\ queue' = [queue EXCEPT ![Job(t).c[1]] = Append(@, Job(t).c)]
  /\ Then(t, "marker")
  /\ UNCHANGED <<diskVars, cache, snapshot, faults>>

\* The marker moves to wherever the journal is by now, and applyMu is released.
SetSnapshotMarker(t) ==
  LET o == Job(t).c[1] IN
  /\ At(t, "marker")
  /\ cache' = [cache EXCEPT !.image.mark[o] = Len(mirror[o])]
  /\ IF Job(t).force
     THEN Then(t, "delete")
     ELSE Finish(t)
  /\ UNCHANGED <<diskVars, queue, snapshot, faults>>

\* writerLoop.
WriterAppend(o) ==
  /\ queue[o] # <<>>
  /\ mirror' = [mirror EXCEPT ![o] = Append(@, Head(queue[o]))]
  /\ queue' = [queue EXCEPT ![o] = Tail(@)]
  /\ UNCHANGED <<appVars, meta, quar, cache, thread, snapshot, faults>>

-----------------------------------------------------------------------------
\* Quarantine, outside applyMu: the row first, then the frontier.

\* A full quarantine keeps the failure: the payload is dropped.
QuarantineCount(t) ==
  /\ At(t, "count")
  /\ IF Cardinality({c \in quar : c[1] = Job(t).c[1]}) >= Cap
     THEN Finish(t)
     ELSE Then(t, "store")
  /\ UNCHANGED <<diskVars, cache, queue, snapshot, faults>>

\* Goes past the changeset without storing it.
MutQuarantineStore(t) ==
  /\ At(t, "store")
  /\ Then(t, "file")
  /\ UNCHANGED <<diskVars, cache, queue, snapshot, faults>>

QuarantineStore(t) ==
  /\ At(t, "store")
  /\ quar' = quar \cup {Job(t).c}
  /\ Then(t, "file")
  /\ UNCHANGED <<appVars, meta, mirror, cache, queue, snapshot, faults>>

QuarantineMark(t) ==
  /\ At(t, "file")
  /\ MarkApplied(Job(t).c)
  /\ Finish(t)
  /\ UNCHANGED <<diskVars, queue, snapshot, faults>>

\* The row of a cleanly retried entry is deleted; an error is ignored.
DeleteQuarantine ==
  /\ At("fetch", "delete")
  /\ \/ quar' = quar \ {Job("fetch").c} /\ UNCHANGED faults
     \/ faults < MaxFaults /\ faults' = faults + 1 /\ UNCHANGED quar
  /\ thread' = [thread EXCEPT !["fetch"] = <<>>]
  /\ UNCHANGED <<appVars, meta, mirror, cache, queue, snapshot>>

-----------------------------------------------------------------------------
\* The snapshotter: capture under Cache.mu, write, then note what is persisted.

SnapshotIncremental ==
  /\ snapshot = <<>>
  /\ cache.image # meta
  /\ snapshot' = <<cache.image>>
  /\ UNCHANGED <<diskVars, cache, queue, thread, faults>>

WriteSnapshot ==
  /\ snapshot # <<>>
  /\ meta # snapshot[1]
  /\ meta' = snapshot[1]
  /\ UNCHANGED <<appVars, quar, mirror, cache, queue, thread, snapshot, faults>>

ClearSnapshotDirty ==
  LET head(o) == meta.entry[o].head
      grew(o) == head(o) > cache.persisted[o]
  IN
  /\ snapshot = <<meta>>
  /\ cache' = [cache EXCEPT
       !.persisted = [o \in Origin |-> IF grew(o) THEN head(o) ELSE @[o]],
       !.prevPersisted = [o \in Origin |-> IF grew(o) THEN cache.persisted[o] ELSE @[o]]]
  /\ snapshot' = <<>>
  /\ UNCHANGED <<diskVars, queue, thread, faults>>

-----------------------------------------------------------------------------
\* Crash and restart.

\* The frontier is rebuilt, the row clock is not.
MutReplay(image, c) == [image EXCEPT !.entry[c[1]] = Marked(@, c[2])]

\* One journal record, in RecoverMirror: app.db is not touched.
Replay(image, c) ==
  IF Covers(image.entry[c[1]], c[2])
  THEN image
  ELSE [image EXCEPT !.clock = Larger(@, Rank[c]), !.entry[c[1]] = Marked(@, c[2])]

\* LoadFromMeta, then every journal from its marker to its head.
Recovered ==
  LET tail(o) == SubSeq(mirror[o], meta.mark[o] + 1, Len(mirror[o]))
      replayOrigin(image, o) == FoldLeft(Replay, image, tail(o))
  IN FoldSet(LAMBDA o, image : replayOrigin(image, o), meta, Origin)

Crash ==
  /\ faults < MaxFaults
  /\ faults' = faults + 1
  /\ cache' = Loaded(Recovered)
  /\ queue' = [o \in Origin |-> <<>>]
  /\ thread' = [t \in Thread |-> <<>>]
  /\ snapshot' = <<>>
  /\ UNCHANGED diskVars

-----------------------------------------------------------------------------

Apply(t) ==
  \/ PutRowState(t)
  \/ AdvanceFrontier(t)
  \/ AppendMirror(t)
  \/ SetSnapshotMarker(t)
  \/ QuarantineCount(t)
  \/ QuarantineStore(t)
  \/ QuarantineMark(t)

Snapshotter == SnapshotIncremental \/ WriteSnapshot \/ ClearSnapshotDirty

Next ==
  \/ \E t \in Thread : Apply(t) \/ \E c \in World : Deliver(t, c)
  \/ \E c \in World : Retry(c)
  \/ DeleteQuarantine
  \/ \E o \in Origin : WriterAppend(o)
  \/ Snapshotter
  \/ Crash

Spec == Init /\ [][Next]_vars

(***************************************************************************)
(* Every goroutine runs on, and every round of the fetcher asks for every  *)
(* changeset that is missing and retries every quarantined one.            *)
(***************************************************************************)
FairSpec ==
  /\ Spec
  /\ \A t \in Thread : WF_vars(Apply(t))
  /\ \A c \in World : SF_vars(Deliver("fetch", c)) /\ SF_vars(Retry(c))
  /\ WF_vars(DeleteQuarantine)
  /\ \A o \in Origin : WF_vars(WriterAppend(o))
  /\ WF_vars(Snapshotter)

-----------------------------------------------------------------------------

\* Accepted for good: the frontier covers it and no quarantine row holds it.
Done(c) == IsAppliedRemote(c) /\ c \notin quar

\* The clock of a quarantined changeset that is applied by a retry is not
\* rebuilt after a crash: what may fail and be quarantined counts as settled
\* in a behaviour without faults only.
Settled(c) == Done(c) /\ (c \in Update => faults = 0)

(***************************************************************************)
(* Once a changeset is settled, the row clock is at least its stamp: a     *)
(* late loser can no longer take the row from it.  RecoverMirror has to    *)
(* rebuild the clock of all that the loaded frontier and journals cover.   *)
(***************************************************************************)
ClockCovers == \A c \in World : Settled(c) => ~Wins(c)

(***************************************************************************)
(* Once a changeset is settled, the row holds it or a later one: applying, *)
(* quarantining, crashing and replaying never skip one silently.           *)
(***************************************************************************)
RowReflects == \A c \in World : Settled(c) => \E r \in row : Rank[r] >= Rank[c]

(***************************************************************************)
(* A contribution is never added twice, and that of a done changeset was   *)
(* added: the applied marker, written in the transaction of the delta,     *)
(* outlives every snapshot that does not cover the changeset yet.          *)
(***************************************************************************)
CountedOnce ==
  \A c \in Counter \ Update : counted[c] <= 1 /\ (Done(c) => counted[c] = 1)

\* Everything is applied in the end, and no quarantine row is left.
EventuallyDone == <>[](\A c \in World : Done(c))
=============================================================================
