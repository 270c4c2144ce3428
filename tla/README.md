# A verification of Syzy in TLA+

Syzy replicates SQLite (and Postgres) databases between writers that all accept
local transactions. This directory keeps TLA+ models of its replication core,
the TLC runs that check them on small instances, and TLAPS proofs of the facts
about the applied frontier for every instance. Paths below are relative to the
repository; `PROJECT.json` maps every definition to the lines it models.

## The system

| Part | State | Operations | Interacts with |
|---|---|---|---|
| Capture (`internal/producer`) | producer journal of the origin, HLC | commit hook, wal hook, DDL intent | SQLite, drain |
| Drain (`internal/syncer`) | batch, consumption marker | collect, build, capture, sync, publish, put clocks, allocate numbers | cache, self-log, broker |
| Cache (`internal/nodestate`) | row clocks, frontier and gaps per origin, next numbers, markers | `MarkApplied`, `PutRowState`, `AllocSelfSeq`, `EvictOrigin` | everything |
| Apply (`internal/broker`) | app.db rows, counters, applied markers | idempotency gate, LWW per record, DML, cache update, mirror append | transport, fetcher |
| Quarantine (`internal/quarantine`) | durable rows, cap per origin | file, mark, forced retry, delete | apply, fetcher |
| Mirror journals (`internal/mirror`) | one journal per origin; the node's own is the self-log | append by writer goroutines, `AppendSelf`, `SyncSelf`, serve | apply, drain, peers |
| Snapshot and recovery (`internal/nodestate`) | metadata.db | capture, write, clear dirty; `LoadFromMeta`, `RecoverMirror`, `RecoverSelf` | cache, mirrors |
| Node life (`sqlite`, `internal/layout`) | origin directories, `clean_shutdown` | open, claim, recycle, rotate, close, detach, attach | all of the above |
| Anti-entropy (`internal/antientropy`, `internal/gapfillerchain`) | plan of missing ranges | plan, fetch, probe | cache, peers, bucket |
| Object store (`internal/sealer`, `internal/epoch`, `internal/objstore`) | sealed epochs, HEAD | seal, upload, sweep | self-log, restore |
| Unique keys (`unique`, `internal/broker/unique.go`) | lease, reservations | reserve, renew, hand off, arbitrate | producer, apply |
| Schema chain (`schemalog`, `internal/broker/ddl.go`) | log of catalog changes, intents | append by compare-and-swap, catch up, gate | producer, apply |
| Publisher, restore, clone | baselines, WAL stream | publish, compact, restore | object store |
| Mesh, control socket, notify, wake | connections | I/O | |
| Postgres engine (`pg`) | slot, apply worker | capture, apply | the same core |

What makes it hard: an inbound apply, a drain, a snapshot and the application's
own writer touch the same row and the same cache under different locks; state
lives in app.db, metadata.db, two kinds of journals and memory, written one
after the other; the process or the host may die between any two of them;
changesets are lost, repeated, reordered and retried by force; and a node
changes its origin when it did not stop cleanly.

What has to hold: a dot names one changeset and a commit gets one dot; what the
frontier covers is in the database; counters are added once; row clocks only
grow and describe the row; all nodes end with the same row; nothing waits for
ever.

## Modules

| Module | Models | Runs |
|---|---|---|
| `SeqSets` | frontier entry: head, gaps, promotion, coverage (operators) | through the others |
| `SeqRanges` | `crdt.SeqSet` as a list of ranges, `MissingRangesUpTo`, the gap-filler's subtraction | `seqranges` |
| `AppliedSet` | abstract specification: the set of accepted changesets | refined by `Frontier` |
| `Frontier` | the frontier under apply, quarantine, forced retry and eviction | `frontier` |
| `FrontierProofs` | theorems about `Frontier` | |
| `RowClocks` | stamps, causal length, row states (operators) | through `RowReplication` |
| `RowReplication` | several nodes writing one row: hooks, journal, drain, reassert, publish, apply, quarantine | `row_replication`, `row_window` |
| `ApplyNode` | one receiving node over crashes: two delivering threads, counters, quarantine, mirror writers, snapshots, recovery | `apply_node`, `apply_live` |
| `OriginLifecycle` | what one node publishes over several lives: drain, self-log, secondary drains, close, handoff, crash, rotation, recovery | `origin_crash`, `origin_live`, `origin_rederive`, `origin_fetch_back` |
| `UniqueLease` | coordinated unique keys: lease, takeover, reservations, release hold, handoff, the commit hook that reserves | `unique_lease`, `unique_handoff` |

The `MC…` modules only name instances.

### SeqSets, SeqRanges, Frontier

`entry[o]` is `Cache.frontier[o]` with `Cache.appliedGaps[o]`. `Marked` is
`markAppliedLocked`: add the number to the gaps, then let `PromoteContiguous`
fold the first range into the head. It does so only when that range starts
right above the head, and `Marked` keeps this: a number at or below the head
that gets into the gaps stays the first range and hides all others. The model
reaches this: a changeset that one thread quarantines while the other applies it
is marked twice, and so is every quarantine entry at or below the head when its
forced retry succeeds. From then on the head, which drives gossip and pruning,
stays behind the contiguous prefix although what it covers is still exact.
`SeqRanges`
has the list of ranges itself, with `Add` and `PromoteContiguous` as the code
writes them, and shows that it represents the set `SeqSets` works with.
`accepted` is a history variable: the changesets applied or quarantined since
the origin was last admitted. A quarantine row and the `MarkApplied` after it
are two steps (`filing` holds those in between).

### RowReplication

One row, two nodes. A local transaction commits in app.db (`Write`), its wal
hook stamps it and appends it to the journal (`WalHook`). A transaction that the
commit hook vetoes leaves no trace and is left out. The drain takes a
batch, builds each record on the row clock it sees, calls `ReassertLocal`,
publishes, and puts the clocks. An inbound changeset runs in two steps,
`ApplyDML` (compare with the cached clock, write the row) and
`AdvanceCacheState` (clock, HLC, frontier). `races` is a history variable that
names the four interleavings no lock excludes:

- *window*: an inbound apply commits after `ReassertLocal` looked and before the
  batch's clocks are put. The clock then names the local write, the row holds
  the remote one (run `row_window`).
- *backlog*: `ReassertLocal` re-runs a commit while a younger local commit of
  the row waits in the journal; since the clock is on this node's own chain it
  takes it that nothing intervened.
- *in flight*: a local transaction commits between an inbound DML and its clock;
  it gets a stamp below the image it overwrote.
- *resurrection*: a remote delete is applied between a local update and its
  drain, which then publishes the update one generation up.

TLC shows for each of the four that it can leave two nodes with different rows
or undo a delete; only the first has a run of its own. Without any of them
(`ConvergedUnlessRaced`) the nodes converge in every interleaving.

### ApplyNode

Every changeset writes one row; its rank stands for its stamp. The two threads
are the subscribe loop and the fetcher; `applyMu` is held from the DML to the
mirror append. A changeset of `Update` fails when the row is not there and is
filed, marked and later retried by force. Mirror appends go through a queue and
a writer per origin; a crash keeps app.db, metadata.db and what the writer had
copied. Snapshots are capture, write and clear; `MarkerPruneBound` follows the
older of the last two persisted frontiers.

Three states the model reaches are worth knowing, and are why the invariants
say what they say: a crash loses the clock of a changeset that a retry applied
after it was quarantined (so `Settled` excludes it); a counter marker pruned
while the quarantine row of its changeset survives lets the forced retry add the
delta again (so `CountedOnce` is about changesets that cannot be quarantined);
and a snapshot between `MarkApplied` and the writer's append, followed by a
crash, leaves a changeset that is applied and in no journal.

### OriginLifecycle

All commits write one row and add one to a counter; a journal offset is a number
of records. The drain of one origin is a sequence of steps with a crash possible
between any two: `CollectBatch`, `BuildChangeset` (with the append to the
self-log), `SyncBatch`, `Publish`, `PutRowStates`, `AllocSelfSeqs`,
`SetSnapshotMarker`. A batch is built on the clock its first record read and on
its own records (`getRowState`). `synced` is the prefix of each journal known to
be on disk: a crash may take the rest. What an open finds is taken to be on disk
(`PriorDurable`), as `openSegment` presumes. The serving copy of an extension's
changeset may fail to be written; it is broadcast all the same (`Retain`). `Snapshot` copies the cache to metadata. `BeginStop`,
`FinalSnapshot` and `EndStop` are `Close` and `Detach`; writers and drains still
run between them, and the last snapshot may fail. `Open` claims an origin
(adopt, rotate, recycle or mint), runs `RecoverMirror` and `RecoverSelf` and
starts the drain. Peers pull what is advertised and in the mirror journal, and
may send it back (`FetchBack`).

`Cache.snapshotMarkers` holds offsets of producer journals for the origins a
node drains and of mirror journals for the origins it applies. The model keeps
which journal an offset is of; read in the other one it is aligned to an
arbitrary record (`Aligned`).

Besides the two violation runs the model reaches: a commit published under a
second dot when a snapshot falls between `AllocSelfSeqs` and `SetSnapshotMarker`
and the origin is then retired by a crash; an undrained tail that is never
published when `InProcessOnly` keeps the node from scanning for retired origins;
captured changesets of a retired origin that stay above the tip the node
advertises; and a self-log record that survived a process crash unsynced and is
counted as captured when its origin is recycled: with `PriorDurable = FALSE` a
second crash may take it, which breaks `OneContentPerDot` and `NeverRefused`.

Two things are simpler than the code. A `Close` whose wait for the drains gives
up ends like a crash. A node with a pinned NodeID, which claims that one
directory or fails, is left out of `MayClaim`.

### UniqueLease

One key with one value and two rows; each node is a process with a writer, a
lease client and a leaseholder. `lease` and `handoff` are the two objects of the
bucket; a write of the lease changes its ETag, and only a writer that got the
reply has the new one (`etag`). A tick of `RunMaintenance` is `BeginTick`, then
`Acquire`, `Renew`, `Fenced` or a failure, then `Enumerate` and `Ingest` (or
`SweepOnly`): a grant may fall between the read of the rows and the ingest.
`CheckServe` and `Reserve` are the two halves of the RPC, `canServe` and
`table.reserve`, which take different locks. `Commit` writes the rows of the
node and sends them to the others; `Deliver` may reorder.

Instants are kept relative to now (`left` until an expiry, `age` since a grant or
a release), and clocks agree. Time waits for what is due: a tick at least every
`Cadence`, a slow step of a tick no longer than `MaxStall`, a leader's call of
the lease store no longer than `MaxRenew`, and a row on every replica no later
than `Lag` after its commit hook first asked. The code sets its windows by the
same bounds and cannot enforce them; with a longer lag than the windows allow,
nothing here is claimed. The windows of the run are the smallest that work: the
hold has to outlast `Lag`, two cadences and one failed enumeration. `MaxRenew` is
as long as the drain of a successor, so a live leader that hangs in its renewal
wakes up when another node serves, with its lease long gone: `canServe` has to
stop it. An `Acquire` that hangs as long is not in the model: `serveAfter` counts
from the clock that the tick read before the call, so a slow call eats into the
drain, and a hang of `FailoverDrain` leaves none of it.

A process that ends takes its leadership and its table with it; the object in
the bucket stays. The snapshot of the table and its PUT are one step
(`PublishHandoff`): the process does nothing else in between, and nobody reads
the object before the release of the lease that follows.

`slips` names the gaps the model reaches, and the properties say which of them
they exclude:

- *handoff*: a leaseholder that stops before its first derivation hands over an
  empty table (run `unique_handoff`).
- *transfer*: a value is moved to another row of the same transaction, the
  transaction fails after its hook, and a later one of the new row is taken for
  the owner although the old row still holds the value.
- *drain*: a value vacated while the new leaseholder drains was never in its
  table and so never enters the hold. The next claim gets it although a replica
  may still have it in the old row, which is against the comment at
  `unique/reservation.go:22`; `GrantedWhenStable` excludes it.

`NoSecondHolder` and `ServingKnows` exclude *handoff* and *transfer*,
`GrantedWhenStable` all three.

## Runs

| Run | Result | Bounds |
|---|---|---|
| `frontier` | holds | one origin, numbers 1..4, two quarantine rows |
| `seqranges` | holds | every order of adding 1..7 |
| `row_replication` | holds | two nodes, two writes each, batches of two, wall clock to 2 |
| `row_window` | violated: `ConvergedDespiteWindow` | two and one writes |
| `apply_node` | holds | three changesets of two origins, one update, cap 1, one fault |
| `apply_live` | holds | two changesets of one origin, two faults |
| `origin_crash` | holds | two commits, four lives, two crashes, three origins, batches of two |
| `origin_live` | holds | an extension origin and the node's, two commits of which the extension makes one, two lives, no crash |
| `origin_rederive` | violated: `OneContentPerDot` | three commits, two lives, one crash |
| `origin_fetch_back` | violated: `CountedOnce` | one commit, two lives, one crash |
| `unique_lease` | holds | two processes, two rows of one or two writers, one value, two transactions, two acquisitions, one fault |
| `unique_handoff` | violated: `NoSecondHolderDespiteHandoff` | two writers, three acquisitions, one fault |

Why the bounds are enough: origins never interact inside the frontier, and four
numbers give every relation of a new number to two ranges and the head (between,
touching one side, touching both, below the head). Two nodes and two writes each
give every order of two local and two remote writes of a row, in one batch and
in two. Three changesets are the least that has an insert, an update that can
outrun it and a competing write of another origin; a cap of one is reached at
once. Two crashes and four lives cover a crash during recovery of a crash,
rotation and the recycling of a retired directory. Two processes, two rows and
one value are the least in which a claim can conflict, be transferred or outlive
its leaseholder, and one fault (a lost reply, a slow tick, a crash, a stop, a
failed call) can fall at every step of either. Lives, crashes, commits and
faults are capped in the guards by constants named `Max…`; the runs turn the
deadlock check off because these bounds, and applications that stop writing, end
behaviours.

Fairness: `row_replication` and `apply_live` let every goroutine go on,
every fetch round ask for all that is missing and every retry round try every
quarantine row. `RetryQuarantined` does so without a cap; `Plan` stops at 32
ranges a round, far above the number of changesets of the instances. A crash may interrupt a delivery again and again, hence strong fairness
there; faults are finite. `origin_live` assumes weak fairness of the drains, the
scan for secondary origins, the peers' pulls and the reopening of a stopped
node; nothing is assumed of broadcasts.

## Findings

The four violation runs show where the code does other than its comments or
documents say; `PROJECT.json` quotes them.

1. `row_window`: `ReassertLocal` leaves a window in which clock and row part.
2. `origin_rederive`: after a crash the drain of the retired origin derives a
   captured commit again, with another causal length under the same dot.
3. `origin_fetch_back`: after a crash the node fetches its own retired
   changesets back and adds their counter deltas again.
4. `unique_handoff`: a leaseholder stopped while it drains hands over a table it
   never derived, and its successor grants values that rows hold.

## Proofs

`FrontierProofs` proves about `Frontier`, for every set of origins, every
`MaxSeq > 0` and every cap:

- `TypeTheorem`: `Spec => []TypeOK`;
- `AppliedExactTheorem`: the entry covers exactly what was accepted;
- `HeadMaximalTheorem`: the head is maximal unless it is pinned;
- `ForgetTheorem`: only eviction forgets;
- `RefinementTheorem`: `Frontier` implements `AppliedSet`.

Assumptions: `MaxSeqAssumption` and `CapAssumption`, evaluated by the runs.
The inductive invariant is `IInv == TypeOK /\ AppliedExact /\ NothingToPromote`.
`NothingToPromote` is needed because maximality is not inductive by itself: the
step that marks a number promotes only the first range, so one has to know that
before the step no range started right above the head. `PromotionFacts` says
what `PromoteContiguous` returns (the end of the first range and the rest),
from `RangeEndIsRange` and the least-number principle; `MarkedFacts` lifts it to
`Marked`. Each action then changes the entry by `Marked` or resets it.

Only model-checked: all of `RowReplication`, `ApplyNode`, `OriginLifecycle`,
`UniqueLease` and `SeqRanges`, and every liveness property (fairness is out of the prover's
reach).

## Not modelled, and the plan

In order:

1. object store: sealer with its contiguous watermark, conditional puts,
   retention and reaping, with the anti-entropy rounds (capped plan, filler
   chain, probe of ranges no bucket serves). Abstract specification: every
   sealed changeset stays fetchable until all members cover it.
2. arbitration of duplicates of unique keys that have a loser state: every node
   ends with the same row in whatever order it applies.
3. schema chain: compare-and-append log, the intent and its recovery, the gate.
   Abstract specification: every node's schema is a prefix of one log.
4. cell groups, additive counters and blob range clocks as operators against
   reference definitions.
5. producer journal segments: rotation, torn tails, resume alignment, garbage
   collection.
6. publisher lease, baselines and HEAD; restore and clone; the Postgres engine.
7. proofs: type correctness and `DotsOrdered` of `RowReplication`,
   `DurablyCaptured` and `OneContentPerDot` of `OriginLifecycle`, `CountedOnce`
   of `ApplyNode`, `AtMostOneServes` of `UniqueLease`, and the refinements above.

Left out for good: byte layouts (golden tests pin them), the SQLite bindings,
sockets and command-line tools. Power loss is modelled only for the mirror journals;
app.db and metadata.db are taken as durable at commit.
