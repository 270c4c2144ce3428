-------------------------- MODULE OriginLifecycle --------------------------
(***************************************************************************)
(* What one node publishes over several lives of its process.  A local     *)
(* commit goes to the producer journal of its origin; a drain turns it     *)
(* into a changeset, captures it in the self-log (the origin's own mirror  *)
(* journal), publishes it and moves the cache.  The metadata keeps a       *)
(* snapshot of the cache.  A clean close, a handoff and a crash end a      *)
(* life; the next open keeps the origin, adopts it, or rotates to a fresh  *)
(* one and leaves the old journals behind.                                 *)
(*                                                                         *)
(* All commits write one row, and each adds one to a counter.  A journal   *)
(* offset is a number of records.  One map, Cache.snapshotMarkers, holds   *)
(* offsets of producer journals and of mirror journals: an offset of the   *)
(* other journal is aligned to an arbitrary record boundary.  The applied  *)
(* numbers of an origin are a set; module SeqSets has the head and the     *)
(* gaps that stand for it.                                                 *)
(***************************************************************************)
EXTENDS Integers, Sequences, FiniteSetsExt, Functions

CONSTANTS
  Origin,         \* origins; the directories under origins/ sort by number
  Ext,            \* the origins of co-located extension processes
  InProcessOnly,  \* Config.InProcessOnly
  PriorDurable,   \* what openSegment presumes: a prior life's records are on disk
  BatchMax,       \* Drainer.batchMax
  MaxCommits,     \* bound: local commits of all origins together
  MaxExtCommits,  \* bound: commits of one extension process
  MaxLives,       \* bound: times the node is opened
  MaxCrashes      \* bound: lives that end in a crash

ASSUME OriginAssumption == Origin \subseteq Nat \ {0} /\ Ext \subseteq Origin
ASSUME BoundAssumption ==
  /\ {InProcessOnly, PriorDurable} \subseteq BOOLEAN
  /\ BatchMax \in Nat \ {0}
  /\ {MaxCommits, MaxExtCommits, MaxLives, MaxCrashes} \subseteq Nat

VARIABLES
  deletes,   \* for each commit in commit order, whether it deletes the row
  counted,   \* app.db: how often each commit's increment was added here
  marks,     \* app.db: the _syzy_applied markers
  journal,   \* producer journals: the commits of each origin
  mirror,    \* mirror journals; that of the running origin is the self-log
  synced,    \* records of each mirror journal that are known to be on disk
  meta,      \* metadata.db: the last snapshot
  clean,     \* metadata.db: clean_shutdown, as a set of at most one value
  dirs,      \* the directories under origins/
  self,      \* the origin the process runs under, 0 when there is none
  adopt,     \* the origin a handoff passes on, 0 when there is none
  stopping,  \* how far a Close or a Detach has come
  cache,     \* nodestate.Cache
  drain,     \* the drain of each origin
  held,      \* changesets that some peer holds
  lives,     \* lives begun so far
  crashes    \* lives that crashed

appVars == <<deletes, counted, marks>>
diskVars == <<journal, mirror, synced, meta, clean, dirs>>
lifeVars == <<self, adopt, stopping, lives, crashes>>
vars == <<appVars, diskVars, lifeVars, cache, drain, held>>

Commits == 1..MaxCommits

\* A sequence number is given once per commit and life.
Seqs == 1..(MaxCommits * (MaxLives + 1))

Clock == [cl : Nat, id : {0} \cup Commits]

Changeset == [o : Origin, seq : Seqs, id : Commits, cl : Nat]

\* A mirror record; end is the source offset of a self-log record, else 0.
Captured == [o : Origin, seq : Seqs, id : Commits, cl : Nat, end : {0} \cup Commits]

Offset == [of : {"journal", "mirror"}, n : Nat]

Image == [next : [Origin -> Nat], marker : [Origin -> Offset], clock : Clock,
          applied : [Origin -> SUBSET Seqs]]

EmptyImage ==
  [next   |-> [o \in Origin |-> 1],
   marker |-> [o \in Origin |-> [of |-> "journal", n |-> 0]],
   clock  |-> [cl |-> 0, id |-> 0],
   applied |-> [o \in Origin |-> {}]]

NoDrain == [pc |-> "none", off |-> 0, todo |-> <<>>, built |-> <<>>, sent |-> 0]

TypeOK ==
  /\ deletes \in Seq(BOOLEAN) /\ Len(deletes) <= MaxCommits
  /\ counted \in [Commits -> Nat]
  /\ marks \subseteq Origin \X Seqs
  /\ journal \in [Origin -> Seq(Commits)]
  /\ \A o \in Origin : mirror[o] \in Seq(Captured) /\ synced[o] <= Len(mirror[o])
  /\ meta \in Image /\ cache \in Image
  /\ clean \in {{}, {TRUE}, {FALSE}}
  /\ dirs \subseteq Origin
  /\ {self, adopt} \subseteq Origin \cup {0}
  /\ stopping \in {"no", "close", "detach", "closeSaved", "detachSaved"}
  /\ held \subseteq Changeset
  /\ \A o \in Origin :
       /\ drain[o].pc \in {"none", "idle", "build", "sync", "publish", "clock", "alloc", "mark"}
       /\ drain[o].off + Len(drain[o].todo) + Len(drain[o].built) <= Len(journal[o])
  /\ lives <= MaxLives /\ crashes <= MaxCrashes

Init ==
  /\ deletes = <<>>
  /\ counted = [c \in Commits |-> 0]
  /\ marks = {}
  /\ journal = [o \in Origin |-> <<>>]
  /\ mirror = [o \in Origin |-> <<>>]
  /\ synced = [o \in Origin |-> 0]
  /\ meta = EmptyImage /\ cache = EmptyImage
  /\ clean = {}
  /\ dirs = Ext
  /\ self = 0 /\ adopt = 0 /\ stopping = "no"
  /\ drain = [o \in Origin |-> NoDrain]
  /\ held = {}
  /\ lives = 0 /\ crashes = 0

Up == self # 0

-----------------------------------------------------------------------------
(* The row clock: causal length and the stamp of the base write.           *)

Outranks(k, l) == k.cl > l.cl \/ (k.cl = l.cl /\ k.id > l.id)

PutRowState(k, l) == IF Outranks(l, k) THEN l ELSE k

ClockOf(x) == [cl |-> x.cl, id |-> x.id]

\* The greatest clock wins, whatever the order.
Folded(k, S) == FoldSet(PutRowState, k, {ClockOf(x) : x \in S})

\* The batch d sees its own earlier records, else the cache.
getRowState(d) ==
  IF d.built = <<>> THEN cache.clock ELSE ClockOf(d.built[Len(d.built)])

\* NextLiveCL and NextTombCL on the clock the drain sees.
NextCL(k, del) ==
  IF (k.cl % 2 = 1) = del THEN k.cl + 1 ELSE k.cl

-----------------------------------------------------------------------------
(* A local transaction and its wal hook, in this process or in an          *)
(* extension process.                                                      *)

Commit(o, del) ==
  /\ o = self \/ o \in Ext
  /\ Len(deletes) < MaxCommits
  /\ o \in Ext => Len(journal[o]) < MaxExtCommits
  /\ del => deletes # <<>> /\ ~deletes[Len(deletes)]
  /\ LET c == Len(deletes) + 1 IN
       /\ deletes' = Append(deletes, del)
       /\ counted' = [counted EXCEPT ![c] = 1]
       /\ journal' = [journal EXCEPT ![o] = Append(@, c)]
  /\ UNCHANGED <<marks, mirror, synced, meta, clean, dirs, lifeVars, cache, drain, held>>

-----------------------------------------------------------------------------
(* The drain of one origin (Drainer.Run and MetaSink.Apply).               *)

\* AlignResume: an offset of the other journal falls on any record boundary.
Aligned(off, of, len) ==
  IF off.of = of \/ off.n = 0 THEN {IF off.n > len THEN len ELSE off.n} ELSE 0..len

\* scanSecondaries finds the journal of another origin and attaches a drain.
Attach(o) ==
  /\ Up /\ stopping = "no" /\ ~InProcessOnly
  /\ o # self /\ o \in dirs
  /\ drain[o].pc = "none"
  /\ journal[o] # <<>>
  /\ \E n \in Aligned(cache.marker[o], "journal", Len(journal[o])) :
       drain' = [drain EXCEPT ![o] = [NoDrain EXCEPT !.pc = "idle", !.off = n]]
  /\ UNCHANGED <<appVars, diskVars, lifeVars, cache, held>>

CollectBatch(o, k) ==
  /\ Up /\ drain[o].pc = "idle"
  /\ drain[o].off + k <= Len(journal[o])
  /\ drain' = [drain EXCEPT ![o].pc = "build",
                            ![o].todo = SubSeq(journal[o], drain[o].off + 1, drain[o].off + k)]
  /\ UNCHANGED <<appVars, diskVars, lifeVars, cache, held>>

\* A self-log that records only the first changeset of a batch.
MutAppendSelf(o, x) ==
  mirror' = IF o = self /\ drain[o].built = <<>> THEN [mirror EXCEPT ![o] = Append(@, x)] ELSE mirror

\* Manager.AppendSelf; the drain of another origin owns no self-log.
AppendSelf(o, x) ==
  mirror' = IF o = self THEN [mirror EXCEPT ![o] = Append(@, x)] ELSE mirror

\* One commit of the batch is built on the clocks of the batch so far.
BuildChangeset(o) ==
  /\ Up /\ drain[o].pc = "build"
  /\ LET d   == drain[o]
         c   == Head(d.todo)
         k   == getRowState(d)
         end == d.off + Len(d.built) + 1
         x   == [o |-> o, seq |-> cache.next[o] + Len(d.built), id |-> c,
                 cl |-> NextCL(k, deletes[c]), end |-> IF o = self THEN end ELSE 0] IN
       /\ AppendSelf(o, x)
       /\ drain' = [drain EXCEPT
            ![o].todo = Tail(d.todo), ![o].built = Append(d.built, x),
            ![o].pc = IF Len(d.todo) > 1 THEN "build" ELSE "sync"]
  /\ UNCHANGED <<appVars, journal, synced, meta, clean, dirs, lifeVars, cache, held>>

\* A sync that returns before the self-log is on disk.
MutSyncSelf(o) == UNCHANGED synced

\* Manager.SyncSelf.
SyncSelf(o) == synced' = IF o = self THEN [synced EXCEPT ![o] = Len(mirror[o])] ELSE synced

SyncBatch(o) ==
  /\ Up /\ drain[o].pc = "sync"
  /\ SyncSelf(o)
  /\ drain' = [drain EXCEPT ![o].pc = "publish"]
  /\ UNCHANGED <<appVars, journal, mirror, meta, clean, dirs, lifeVars, cache, held>>

ChangesetOf(x) == [o |-> x.o, seq |-> x.seq, id |-> x.id, cl |-> x.cl]

\* secondaryPublishFn keeps a serving copy of what it broadcasts; an append
\* that fails is logged and the broadcast goes out all the same.
Retain(o, x) ==
  \/ mirror' = IF o = self THEN mirror ELSE [mirror EXCEPT ![o] = Append(@, x)]
  \/ o # self /\ UNCHANGED mirror

\* The listeners of one changeset; a broadcast may reach no peer.
Publish(o) ==
  /\ Up /\ drain[o].pc = "publish"
  /\ LET x == drain[o].built[drain[o].sent + 1] IN
       /\ Retain(o, x)
       /\ held' \in {held, held \cup {ChangesetOf(x)}}
  /\ drain' = [drain EXCEPT ![o].sent = @ + 1,
                            ![o].pc = IF drain[o].sent + 1 = Len(drain[o].built) THEN "clock" ELSE "publish"]
  /\ UNCHANGED <<appVars, journal, synced, meta, clean, dirs, lifeVars, cache>>

PutRowStates(o) ==
  /\ Up /\ drain[o].pc = "clock"
  /\ cache' = [cache EXCEPT !.clock = Folded(@, Range(drain[o].built))]
  /\ drain' = [drain EXCEPT ![o].pc = "alloc"]
  /\ UNCHANGED <<appVars, diskVars, lifeVars, held>>

AllocSelfSeqs(o) ==
  /\ Up /\ drain[o].pc = "alloc"
  /\ cache' = [cache EXCEPT !.next[o] = @ + Len(drain[o].built)]
  /\ drain' = [drain EXCEPT ![o].pc = "mark"]
  /\ UNCHANGED <<appVars, diskVars, lifeVars, held>>

\* The marker is set one record past the end of the batch.
MutSetSnapshotMarker(o) ==
  /\ Up /\ drain[o].pc = "mark"
  /\ LET off == drain[o].off + Len(drain[o].built) + 1 IN
       /\ cache' = [cache EXCEPT !.marker[o] = [of |-> "journal", n |-> off]]
       /\ drain' = [drain EXCEPT ![o] = [NoDrain EXCEPT !.pc = "idle", !.off = off]]
  /\ UNCHANGED <<appVars, diskVars, lifeVars, held>>

SetSnapshotMarker(o) ==
  /\ Up /\ drain[o].pc = "mark"
  /\ LET off == drain[o].off + Len(drain[o].built) IN
       /\ cache' = [cache EXCEPT !.marker[o] = [of |-> "journal", n |-> off]]
       /\ drain' = [drain EXCEPT ![o] = [NoDrain EXCEPT !.pc = "idle", !.off = off]]
  /\ UNCHANGED <<appVars, diskVars, lifeVars, held>>

-----------------------------------------------------------------------------
(* Peers pull what this node advertises, and its fetcher pulls what peers  *)
(* hold.                                                                   *)

\* Tips without the overlay of the numbers this node produced.
MutAppliedTip(o) == Max({0} \cup cache.applied[o])

\* AppliedTipMap: a locally drained origin is overlaid with next - 1.
AppliedTip(o) ==
  IF cache.next[o] > 1 THEN cache.next[o] - 1
  ELSE Max({0} \cup cache.applied[o])

PeerPull(o, i) ==
  /\ Up /\ stopping = "no" /\ i \in DOMAIN mirror[o]
  /\ mirror[o][i].seq <= AppliedTip(o)
  /\ ChangesetOf(mirror[o][i]) \notin held
  /\ held' = held \cup {ChangesetOf(mirror[o][i])}
  /\ UNCHANGED <<appVars, diskVars, lifeVars, cache, drain>>

PeersPull(o) == \E i \in DOMAIN mirror[o] : PeerPull(o, i)


Foreign(o) == o # self

\* applyPayloadCache for a changeset the fetcher or a broadcast brings back.
FetchBack(x) ==
  /\ Up /\ Foreign(x.o)
  /\ x.seq \notin cache.applied[x.o]
  /\ counted' = [counted EXCEPT ![x.id] = IF <<x.o, x.seq>> \in marks THEN @ ELSE @ + 1]
  /\ marks' = marks \cup {<<x.o, x.seq>>}
  /\ mirror' = [mirror EXCEPT ![x.o] = Append(@, [o |-> x.o, seq |-> x.seq, id |-> x.id, cl |-> x.cl, end |-> 0])]
  /\ cache' = [cache EXCEPT !.clock = PutRowState(@, ClockOf(x)),
                            !.applied[x.o] = @ \cup {x.seq},
                            !.marker[x.o] = [of |-> "mirror", n |-> Len(mirror'[x.o])]]
  /\ UNCHANGED <<deletes, journal, synced, meta, clean, dirs, lifeVars, drain, held>>

-----------------------------------------------------------------------------
(* Snapshots and the end of a life.                                        *)

Saved == stopping \in {"closeSaved", "detachSaved"}

Snapshot ==
  /\ Up /\ ~Saved /\ meta # cache
  /\ meta' = cache
  /\ UNCHANGED <<appVars, journal, mirror, synced, clean, dirs, lifeVars, cache, drain, held>>

Drains == {o \in Origin : drain[o].pc # "none"}

\* Close goes on once every drain has reached the head of its journal (one
\* that gives up leaves the node as a crash does); Detach drains for a
\* limited time and goes on anyway.
BeginStop(how) ==
  /\ Up /\ stopping = "no"
  /\ how = "close" => \A o \in Drains : drain[o].off = Len(journal[o])
  /\ stopping' = how
  /\ UNCHANGED <<appVars, diskVars, self, adopt, lives, crashes, cache, drain, held>>

\* The snapshotter's last snapshot, whose error is ignored; the drains and
\* the writers still run.
FinalSnapshot ==
  /\ stopping \in {"close", "detach"}
  /\ meta' \in {cache, meta}
  /\ stopping' = IF stopping = "close" THEN "closeSaved" ELSE "detachSaved"
  /\ UNCHANGED <<appVars, journal, mirror, synced, clean, dirs, self, adopt, lives, crashes, cache, drain, held>>

Stop ==
  /\ self' = 0 /\ stopping' = "no"
  /\ cache' = EmptyImage
  /\ drain' = [o \in Origin |-> NoDrain]

\* The drains end between two batches.  A close marks itself clean, a
\* handoff keeps the origin claimed and leaves clean_shutdown false.
EndStop ==
  /\ Saved
  /\ \A o \in Drains : drain[o].pc = "idle"
  /\ IF stopping = "closeSaved"
     THEN clean' = {TRUE} /\ UNCHANGED adopt
     ELSE adopt' = self /\ UNCHANGED clean
  /\ Stop
  /\ UNCHANGED <<appVars, journal, mirror, synced, meta, dirs, lives, crashes, held>>

\* One number of records for each mirror journal.
Cuts(low, high) ==
  LET longest == Max({high[p] : p \in Origin}) IN
  {cut \in [Origin -> 0..longest] : \A p \in Origin : cut[p] \in low[p]..high[p]}

Lengths == [p \in Origin |-> Len(mirror[p])]

\* The process or the host dies; unsynced tails of the journals may go.
Crash ==
  /\ Up /\ crashes < MaxCrashes
  /\ crashes' = crashes + 1
  /\ \E cut \in Cuts(synced, Lengths) :
       mirror' = [p \in Origin |-> SubSeq(mirror[p], 1, cut[p])]
  /\ Stop
  /\ UNCHANGED <<appVars, journal, synced, meta, clean, dirs, adopt, lives, held>>

\* The successor of a handoff dies before it opens the node.
Abandon ==
  /\ adopt # 0 /\ crashes < MaxCrashes
  /\ crashes' = crashes + 1
  /\ adopt' = 0
  /\ UNCHANGED <<appVars, diskVars, self, stopping, lives, cache, drain, held>>

-----------------------------------------------------------------------------
(* Opening the node.                                                       *)

\* claimLocks of a node without a pinned NodeID: adopt, rotate after an
\* unclean end, recycle the first unlocked directory, or mint.
MayClaim(o) ==
  IF adopt # 0 THEN o = adopt
  ELSE IF clean = {FALSE} \/ dirs \ Ext = {} THEN o \notin dirs
  ELSE o = Min(dirs \ Ext)

\* The records of p's mirror journal after its start that the snapshot does
\* not cover, a repeated number only once.
ReplayMirrorRecords(p, start) ==
  {i \in start + 1 .. Len(mirror[p]) :
     /\ mirror[p][i].seq \notin meta.applied[p]
     /\ \A j \in start + 1 .. i - 1 : mirror[p][j].seq # mirror[p][i].seq}

\* RecoverMirror from the chosen start of each mirror journal but o's own.
RecoverMirror(o, start) ==
  LET fresh == [p \in Origin |-> IF p = o THEN {} ELSE ReplayMirrorRecords(p, start[p])]
      records == UNION {{mirror[p][i] : i \in fresh[p]} : p \in Origin}
  IN  [meta EXCEPT
         !.clock = Folded(@, records),
         !.applied = [p \in Origin |-> @[p] \cup {mirror[p][i].seq : i \in fresh[p]}]]

MirrorStarts ==
  {start \in Cuts([p \in Origin |-> 0], Lengths) :
     \A p \in Origin : start[p] \in Aligned(meta.marker[p], "mirror", Len(mirror[p]))}

OwnRecords(o) == {x \in Range(mirror[o]) : x.end > 0}

\* The promotion guard of RecoverSelf lets the node open.
SelfLogCovers(o) ==
  \/ \E i \in DOMAIN mirror[o] : mirror[o][i].end = 0
  \/ \A s \in 1 .. (meta.next[o] - 1) : \E i \in DOMAIN mirror[o] : mirror[o][i].seq >= s

\* A recovery that leaves the resume marker where the snapshot had it.
MutResumeMarkers(off, ends, len) == {off}

\* The marker RecoverSelf leaves: the greatest source offset, unless the
\* snapshot's is greater; an offset of the mirror journal may be, by any
\* number of records.
ResumeMarkers(off, ends, len) ==
  IF ends = {} THEN {off}
  ELSE IF off.of = "journal" THEN {[off EXCEPT !.n = Max({@} \cup ends)]}
  ELSE {[of |-> "journal", n |-> n] : n \in Max(ends)..len}

RecoverSelf(image, o, marker) ==
  [image EXCEPT
     !.next[o] = Max({@} \cup {x.seq + 1 : x \in OwnRecords(o)}),
     !.clock = Folded(@, OwnRecords(o)),
     !.marker[o] = marker]

Open(o) ==
  /\ ~Up /\ lives < MaxLives
  /\ MayClaim(o) /\ SelfLogCovers(o)
  /\ self' = o /\ adopt' = 0 /\ lives' = lives + 1
  /\ clean' = {FALSE} /\ dirs' = dirs \cup {o}
  /\ \E start \in MirrorStarts,
        marker \in ResumeMarkers(meta.marker[o], {x.end : x \in OwnRecords(o)}, Len(journal[o])) :
       /\ cache' = RecoverSelf(RecoverMirror(o, start), o, marker)
       /\ \E n \in Aligned(marker, "journal", Len(journal[o])) :
            drain' = [drain EXCEPT ![o] = [NoDrain EXCEPT !.pc = "idle", !.off = n]]
  /\ synced' = IF PriorDurable THEN Lengths ELSE synced
  /\ UNCHANGED <<appVars, journal, mirror, meta, stopping, crashes, held>>

-----------------------------------------------------------------------------

Drain(o) ==
  \/ \E k \in 1..BatchMax : CollectBatch(o, k)
  \/ BuildChangeset(o)
  \/ SyncBatch(o)
  \/ Publish(o)
  \/ PutRowStates(o)
  \/ AllocSelfSeqs(o)
  \/ SetSnapshotMarker(o)

Next ==
  \/ \E o \in Origin : \/ \E del \in BOOLEAN : Commit(o, del)
                       \/ Attach(o)
                       \/ Drain(o)
                       \/ PeersPull(o)
                       \/ Open(o)
  \/ \E x \in held : FetchBack(x)
  \/ Snapshot
  \/ \E how \in {"close", "detach"} : BeginStop(how)
  \/ FinalSnapshot \/ EndStop
  \/ Crash \/ Abandon

Spec == Init /\ [][Next]_vars

(* The drains, the scan for other origins and the peers' fetch rounds run  *)
(* for as long as the process is up; an operator reopens a stopped node.   *)
(* Lives and crashes are bounded, so weak fairness is enough.              *)
FairSpec ==
  /\ Spec
  /\ \A o \in Origin : /\ WF_vars(Drain(o))
                       /\ WF_vars(Attach(o))
                       /\ WF_vars(PeersPull(o))
  /\ WF_vars(\E o \in Origin : Open(o))
  /\ WF_vars(FinalSnapshot \/ EndStop)

-----------------------------------------------------------------------------

Records == held \cup {ChangesetOf(x) : x \in UNION {Range(mirror[o]) : o \in Origin}}

SameDot(x, y) == x.o = y.o /\ x.seq = y.seq

(* A dot names one changeset for ever: whatever the lives of the node, the *)
(* peers and the mirror journals never hold two different changesets under *)
(* one origin and sequence number (capture before publish, RecoverSelf).   *)
OneContentPerDot == \A x, y \in Records : SameDot(x, y) => x = y

(* A local commit is published under one dot: neither a restart nor a      *)
(* second drain ships it again under a fresh number, which a peer would    *)
(* count a second time (the resume marker of the drain).                   *)
OneDotPerCommit == \A x, y \in Records : x.id = y.id => SameDot(x, y)

(* The increment of a local commit is in app.db once, although the node's  *)
(* own changesets come back to it from peers.                              *)
CountedOnce == \A c \in 1..Len(deletes) : counted[c] = 1

(* What a node advertises as the tip of an origin it runs or ran under, it *)
(* can serve, whatever tails of its journals crashes took: every number up *)
(* to the tip is in its mirror journal (AppendSelf and SyncSelf before     *)
(* AllocSelfSeq).  The serving copy of an extension's drain is not synced, *)
(* and its append may fail: the run has in-process drains only.            *)
AdvertisedServable ==
  \A o \in Origin : \A s \in 1 .. (cache.next[o] - 1) : s \in {x.seq : x \in Range(mirror[o])}

(* RecoverSelf never refuses to open a node that has always run with a     *)
(* self-log: the numbers a snapshot claims are captured, whatever tail of  *)
(* the log a host crash takes.                                             *)
NeverRefused == \A o \in Origin : MayClaim(o) => SelfLogCovers(o)

(* The numbers of the running origin never pass a commit whose changeset   *)
(* is not on disk in the self-log, after crashes that took an unsynced     *)
(* tail and opens that recover from what is left (SyncSelf before the      *)
(* cache moves, RecoverSelf).  What a prior life left is taken to be on    *)
(* disk, as openSegment presumes.                                          *)
DurablyCaptured ==
  Up => \A s \in 1 .. (cache.next[self] - 1) :
          s \in {mirror[self][i].seq : i \in 1..synced[self]}

(* Every commit of the node's own origin reaches some peer, whatever       *)
(* broadcasts are lost, if the node is up at the end: the drain resumes    *)
(* where the last life stopped and peers pull what is advertised.          *)
EventuallyHeld ==
  <>[](Up /\ stopping = "no" =>
         \A o \in Origin \ Ext : \A c \in Range(journal[o]) : \E x \in held : x.id = c)
=============================================================================
