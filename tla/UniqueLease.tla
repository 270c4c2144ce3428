---------------------------- MODULE UniqueLease ----------------------------
(***************************************************************************)
(* Coordinated unique keys (package unique): a value of a NOT NULL UNIQUE   *)
(* key is reserved at the leaseholder before the transaction commits.  The  *)
(* lease is one object mutated by compare-and-swap; the taken-set is soft   *)
(* state, derived from the leaseholder's own replica of the rows, handed    *)
(* over on a clean stop and rebuilt behind a drain otherwise.               *)
(*                                                                         *)
(* One key, one table.  Every instant is kept relative to now: `left' is    *)
(* the time until an expiry and `age' the time since a grant or a release,  *)
(* so the passing of a unit of time (PassTime) moves all of them.  Time     *)
(* waits for what is due: a maintenance tick starts every Cadence and takes *)
(* at most MaxStall unless it hangs in a renewal, which takes at most        *)
(* MaxRenew, and from a commit hook's first attempt to reserve until the row *)
(* is on every replica it takes at most Lag (the retry budget and the        *)
(* bounded staleness the windows are set by).                               *)
(***************************************************************************)
EXTENDS Integers, Sequences, SequencesExt, FiniteSets, TLC

CONSTANTS
  Node,        \* processes: each runs a writer, a client and a leaseholder
  Row,         \* rows, i.e. possible owners
  Value,       \* values of the key
  Starts,      \* where to begin: the rows, which node writes which of them, and
               \* whether a leaseholder was there before
  Ttl, Drain, Quarantine, Grace,   \* LeaseholderConfig
  Lag,         \* replication bound
  MaxStall,    \* how long a maintenance tick takes at most
  MaxRenew,    \* how long one that hangs in a renewal takes at most
  Cadence,     \* how often RunMaintenance ticks at least
  MaxGen,      \* bound on acquisitions
  MaxTxn,      \* bound on transactions
  MaxFaults    \* bound on lost replies, failed calls, slow ticks, crashes and stops

ASSUME TimesAssumption ==
  /\ {Ttl, Drain, Quarantine, Grace, MaxGen} \subseteq Nat \ {0}
  /\ {Lag, MaxStall, MaxRenew, Cadence, MaxTxn, MaxFaults} \subseteq Nat
  /\ Drain >= Quarantine /\ Grace >= Lag /\ MaxRenew >= MaxStall

Nobody == "nobody"     \* no owner
Gone   == "gone"       \* the owner name of a process that crashed
Null   == "null"       \* a row that holds no value of the key
Past   == -MaxStall    \* an instant before every clock reading an acquisition uses

ASSUME NamesAssumption == {Nobody, Gone} \cap Node = {}

VARIABLES
  lease,    \* the lease object: owner, generation, time left
  handoff,  \* the handoff object
  holder,   \* per node: Leaseholder.isLeader, needRebuild, serveAfter, lease
  table,    \* per node: reservationTable
  pc,       \* per node: the step of the maintenance loop it is in
  stall,    \* per node: time since its last tick began and read the clock
  seen,     \* per node: the rows its last enumeration returned
  conn,     \* per node: the leaseholder its client has cached
  req,      \* per node: the transaction in its commit hook
  home,     \* which node writes which row
  db,       \* per node: its replica of the rows
  queue,    \* per node: changesets on their way to it
  txns, faults,
  slips     \* history: which gaps of the protocol have opened

vars == <<lease, handoff, holder, table, pc, stall, seen, conn, req, home, db,
          queue, txns, faults, slips>>
-----------------------------------------------------------------------------
(* reservationTable *)

NoEntry == [owner |-> Nobody, age |-> 0, backed |-> FALSE]
NoHold  == [owner |-> Nobody, age |-> 0]

newReservationTable ==
  [taken |-> [v \in Value |-> NoEntry], hold |-> [v \in Value |-> NoHold],
   servable |-> FALSE, fenced |-> {}, stopped |-> FALSE]

Free(e) == e.owner = Nobody

(* grantable: a value observed in two rows is refused; a taken one goes to
   its owner or to the row its owner's transaction moves it to; a released one
   to its last owner at once and to others after the window.               *)
MutGrantable(t, c) ==
  LET cur == t.taken[c.value]  hold == t.hold[c.value] IN
  /\ c.value \notin t.fenced
  /\ \/ cur.owner = c.owner
     \/ cur.owner = c.prev /\ c.prev # Nobody
     \/ Free(cur)

grantable(t, c) ==
  LET cur == t.taken[c.value]  hold == t.hold[c.value] IN
  /\ c.value \notin t.fenced
  /\ \/ cur.owner = c.owner
     \/ cur.owner = c.prev /\ c.prev # Nobody
     \/ Free(cur) /\ (Free(hold) \/ hold.owner = c.owner \/ hold.age >= Quarantine)

Servable(t) == t.servable /\ ~t.stopped

Conflict(t, claims) ==
  \/ \E c \in claims : ~grantable(t, c)
  \/ \E c, d \in claims : c.value = d.value /\ c.owner # d.owner

reserve(t, claims) ==
  LET of(v) == {c \in claims : c.value = v}
      owner(v) == (CHOOSE c \in of(v) : TRUE).owner
  IN  [t EXCEPT
        !.taken = [v \in Value |->
                     IF of(v) = {} \/ @[v].owner = owner(v) THEN @[v]
                     ELSE [owner |-> owner(v), age |-> 0, backed |-> FALSE]],
        !.hold = [v \in Value |-> IF of(v) = {} THEN @[v] ELSE NoHold]]

RowsWith(rows, v) == {r \in Row : rows[r] = v}

duplicateClaims(rows) == {v \in Value : Cardinality(RowsWith(rows, v)) > 1}

Young(e) == ~Free(e) /\ ~e.backed /\ e.age < Grace

(* ingest: taken = rows of the snapshot, and grants younger than Grace; what
   leaves the taken-set enters the hold.                                    *)
MutIngest(t, rows) ==
  LET backing(v) == CHOOSE r \in RowsWith(rows, v) : TRUE
      seeded(v) == RowsWith(rows, v) # {}
  IN  [t EXCEPT
        !.taken = [v \in Value |->
                     IF seeded(v)
                       THEN [owner |-> backing(v), age |-> 0, backed |-> TRUE]
                       ELSE NoEntry],
        !.servable = TRUE, !.fenced = duplicateClaims(rows)]

ingest(t, rows) ==
  LET backing(v) == CHOOSE r \in RowsWith(rows, v) : TRUE
      seeded(v) == RowsWith(rows, v) # {}
  IN  [t EXCEPT
        !.taken = [v \in Value |->
                     IF Young(@[v]) /\ (seeded(v) => @[v].owner # backing(v))
                       THEN @[v]
                     ELSE IF seeded(v)
                       THEN [owner |-> backing(v), age |-> 0, backed |-> TRUE]
                     ELSE NoEntry],
        !.hold = [v \in Value |->
                     IF Free(t.taken[v]) \/ Young(t.taken[v]) \/ seeded(v) THEN @[v]
                     ELSE [owner |-> t.taken[v].owner, age |-> 0]],
        !.servable = TRUE, !.fenced = duplicateClaims(rows)]

clear(t) == [newReservationTable EXCEPT !.stopped = t.stopped]

sweep(t) ==
  [t EXCEPT !.hold = [v \in Value |-> IF @[v].age >= Quarantine THEN NoHold ELSE @[v]]]

(* load: handed-over grants count as young, releases keep their age *)
load(t) ==
  [t EXCEPT !.taken = [v \in Value |-> IF Free(handoff.taken[v]) THEN NoEntry ELSE
                         [owner |-> handoff.taken[v].owner, age |-> 0, backed |-> FALSE]],
            !.hold = handoff.hold, !.stopped = FALSE]
-----------------------------------------------------------------------------
NoLeadership == [leader |-> FALSE, rebuild |-> FALSE, wait |-> 0, gen |-> 0,
                 left |-> 0, etag |-> FALSE]
NoConn == [to |-> Nobody, gen |-> 0]
Idle   == [stage |-> "idle", w |-> <<>>, left |-> 0, moved |-> FALSE]

Init ==
  /\ handoff = [gen |-> 0, taken |-> newReservationTable.taken,
                hold |-> newReservationTable.hold, derived |-> TRUE]
  /\ holder = [n \in Node |-> NoLeadership]
  /\ table = [n \in Node |-> newReservationTable]
  /\ pc = [n \in Node |-> "idle"]
  /\ stall = [n \in Node |-> Cadence]
  /\ seen = [n \in Node |-> [r \in Row |-> Null]]
  /\ \E s \in Starts :
        /\ lease = IF s.led THEN [owner |-> Gone, gen |-> 1, left |-> Past]
                   ELSE [owner |-> Nobody, gen |-> 0, left |-> Past]
        /\ db = [n \in Node |-> s.rows]
        /\ home = s.home
  /\ conn = [n \in Node |-> NoConn]
  /\ req = [n \in Node |-> Idle]
  /\ queue = [n \in Node |-> <<>>]
  /\ txns = 0 /\ faults = 0 /\ slips = {}

(* The gaps: a table that was never derived is adopted ("handoff"); a granted
   transfer of a value never commits ("transfer"); a value is vacated while
   the new leaseholder drains ("drain").                                      *)
Slip(gap, opens) == slips' = IF opens THEN slips \cup {gap} ELSE slips

Fault == faults < MaxFaults /\ faults' = faults + 1
NoFault == UNCHANGED faults

(* Any write of the lease object changes its ETag: only a writer that got the
   reply still holds the current one.                                        *)
Written(rec, n, acked) ==
  /\ lease' = rec
  /\ holder' = [m \in Node |-> [holder[m] EXCEPT !.etag = m = n /\ acked]]

held(now) == lease.left + now > 0
-----------------------------------------------------------------------------
(* Leaseholder.tick, driven by the ticker of RunMaintenance.  A kick (a reserve
   for a key not derived yet) only brings a tick forward and is left out.     *)

BeginTick(n) ==
  /\ pc[n] = "idle" /\ stall[n] >= Cadence
  /\ pc' = [pc EXCEPT ![n] = "lease"]
  /\ stall' = [stall EXCEPT ![n] = 0]
  /\ UNCHANGED <<lease, handoff, holder, table, seen, conn, req, home, db, queue,
                 txns, faults, slips>>

Goto(n, step) == pc' = [pc EXCEPT ![n] = step]

(* The lease object is unchanged: a peer leads, or the call failed *)
TickFails(n) ==
  /\ pc[n] = "lease"
  /\ Goto(n, "idle")
  /\ \/ ~holder[n].leader /\ held(stall[n]) /\ lease.owner # n /\ NoFault
     \/ Fault
  /\ UNCHANGED <<lease, handoff, holder, table, stall, seen, conn, req, home, db,
                 queue, txns, slips>>

Acquirable(n) ==
  /\ pc[n] = "lease" /\ ~holder[n].leader /\ lease.gen < MaxGen
  /\ ~(held(stall[n]) /\ lease.owner # n)

(* ExpiresAtUS of a lease written now, counted from the tick's clock reading *)
Expiry(n) == IF Ttl - stall[n] > Past THEN Ttl - stall[n] ELSE Past

NextLease(n) == [owner |-> n, gen |-> lease.gen + 1, left |-> Expiry(n)]

(* tryAdoptHandoff: only the table of the generation just before *)
Adoptable(n) == lease.gen > 0 /\ handoff.gen = lease.gen

MutFailoverDrain(n) == IF lease.gen > 0 THEN Drain + Quarantine ELSE 0

MutNoDrain(n) == 0

FailoverDrain(n) == IF lease.gen > 0 THEN Drain ELSE 0

Lead(n, adopted) ==
  [leader |-> TRUE, rebuild |-> ~adopted, gen |-> lease.gen + 1,
   wait |-> (IF adopted THEN 0 ELSE FailoverDrain(n)) - stall[n],
   left |-> Expiry(n), etag |-> TRUE]

Acquire(n) ==
  /\ Acquirable(n)
  /\ lease' = NextLease(n)
  /\ \E adopted \in BOOLEAN :
        /\ IF adopted THEN Adoptable(n) /\ NoFault
           ELSE IF Adoptable(n) THEN Fault ELSE NoFault   \* the read failed
        /\ holder' = [m \in Node |-> IF m = n THEN Lead(n, adopted)
                                     ELSE [holder[m] EXCEPT !.etag = FALSE]]
        /\ table' = IF adopted THEN [table EXCEPT ![n] = load(@)] ELSE table
        /\ Slip("handoff", adopted /\ ~handoff.derived)
  /\ Goto(n, "enumerate")
  /\ UNCHANGED <<handoff, stall, seen, conn, req, home, db, queue, txns>>

(* The write went through and its reply was lost *)
AcquireUnacked(n) ==
  /\ Acquirable(n) /\ Fault
  /\ Written(NextLease(n), n, FALSE)
  /\ Goto(n, "idle")
  /\ UNCHANGED <<handoff, table, stall, seen, conn, req, home, db, queue, txns, slips>>

Mine(n) == lease.owner = n /\ lease.gen = holder[n].gen

Fenced(n) ==
  /\ pc[n] = "lease" /\ holder[n].leader
  /\ ~Mine(n) \/ ~holder[n].etag
  /\ holder' = [holder EXCEPT ![n].leader = FALSE, ![n].rebuild = FALSE]
  /\ Goto(n, "idle")
  /\ UNCHANGED <<lease, handoff, table, stall, seen, conn, req, home, db, queue,
                 txns, faults, slips>>

Renew(n) ==
  /\ pc[n] = "lease" /\ holder[n].leader /\ Mine(n) /\ holder[n].etag
  /\ lease' = [lease EXCEPT !.left = Expiry(n)]
  /\ \/ /\ NoFault
        /\ holder' = [holder EXCEPT ![n].left = Expiry(n)]
        /\ Goto(n, "enumerate")
     \/ /\ Fault
        /\ holder' = [holder EXCEPT ![n].etag = FALSE]
        /\ Goto(n, "idle")
  /\ UNCHANGED <<handoff, table, stall, seen, conn, req, home, db, queue, txns, slips>>

(* maintain *)
Serving(n) == holder[n].leader /\ holder[n].wait + stall[n] <= 0

Enumerate(n) ==
  /\ pc[n] = "enumerate" /\ Serving(n)
  /\ seen' = [seen EXCEPT ![n] = db[n]]
  /\ Goto(n, "ingest")
  /\ UNCHANGED <<lease, handoff, holder, table, stall, conn, req, home, db, queue,
                 txns, faults, slips>>

SweepOnly(n) ==
  /\ pc[n] = "enumerate"
  /\ IF Serving(n) THEN Fault ELSE NoFault
  /\ table' = [table EXCEPT ![n] = sweep(@)]
  /\ Goto(n, "idle")
  /\ UNCHANGED <<lease, handoff, holder, stall, seen, conn, req, home, db, queue,
                 txns, slips>>

Ingest(n) ==
  /\ pc[n] = "ingest"
  /\ table' = [table EXCEPT ![n] =
                 sweep(ingest(IF holder[n].rebuild THEN clear(@) ELSE @, seen[n]))]
  /\ holder' = [holder EXCEPT ![n].rebuild = FALSE]
  /\ seen' = [seen EXCEPT ![n] = [r \in Row |-> Null]]
  /\ Goto(n, "idle")
  /\ UNCHANGED <<lease, handoff, stall, conn, req, home, db, queue, txns, faults, slips>>
-----------------------------------------------------------------------------
(* Stopping and crashing.  A process that ends takes its leadership and its
   table with it, its client's request and the connections to it.             *)

Ends(n) ==
  /\ Goto(n, "down")
  /\ conn' = [m \in Node |-> IF m = n \/ conn[m].to = n THEN NoConn ELSE conn[m]]
  /\ req' = [m \in Node |->
               IF m = n THEN Idle
               ELSE IF conn[m].to = n /\ req[m].stage = "checked"
                 THEN [req[m] EXCEPT !.stage = "want"]
               ELSE req[m]]
  /\ seen' = [seen EXCEPT ![n] = [r \in Row |-> Null]]
  /\ holder' = [holder EXCEPT ![n] = NoLeadership]
  /\ table' = [table EXCEPT ![n] = newReservationTable]
  /\ Slip("transfer", req[n].moved)

(* releaseLease *)
BeginStop(n) ==
  /\ pc[n] = "idle" /\ holder[n].leader /\ Fault
  /\ holder' = [holder EXCEPT ![n].leader = FALSE]
  /\ Goto(n, "publish")
  /\ UNCHANGED <<lease, handoff, table, stall, seen, conn, req, home, db, queue,
                 txns, slips>>

(* snapshotAndStop and HandoffStore.Write, which may fail; in between nothing
   changes a table that is stopped and no longer maintained.                  *)
SnapshotAndStop(n) == [table EXCEPT ![n].stopped = TRUE]

PublishHandoff(n) ==
  /\ pc[n] = "publish"
  /\ table' = SnapshotAndStop(n)
  /\ \/ /\ handoff' = [gen |-> holder[n].gen, taken |-> table[n].taken,
                       hold |-> table[n].hold, derived |-> ~holder[n].rebuild]
        /\ NoFault
     \/ Fault /\ UNCHANGED handoff
  /\ Goto(n, "release")
  /\ UNCHANGED <<lease, holder, stall, seen, conn, req, home, db, queue, txns, slips>>

Release(n) ==
  /\ pc[n] = "release"
  /\ \/ /\ Mine(n) /\ holder[n].etag /\ NoFault
        /\ lease' = [lease EXCEPT !.left = Past]
     \/ /\ IF Mine(n) /\ holder[n].etag THEN Fault ELSE NoFault
        /\ UNCHANGED lease
  /\ Ends(n)
  /\ UNCHANGED <<handoff, stall, home, db, queue, txns>>

(* A crash: the next process of this node has another origin, hence another
   name in the lease.                                                        *)
Crash(n) ==
  /\ pc[n] # "down" /\ Fault
  /\ lease' = IF lease.owner = n THEN [lease EXCEPT !.owner = Gone] ELSE lease
  /\ Ends(n)
  /\ UNCHANGED <<handoff, stall, home, db, queue, txns>>

Restart(n) ==
  /\ pc[n] = "down"
  /\ stall' = [stall EXCEPT ![n] = Cadence]
  /\ Goto(n, "idle")
  /\ UNCHANGED <<lease, handoff, holder, table, seen, conn, req, home, db, queue, txns,
                 faults, slips>>
-----------------------------------------------------------------------------
(* The client: Producer.reserveCoordinated and LeaseClient.Reserve *)

(* netSameTxnTransfers: the row of the same transaction that gives the value up *)
TransferredFrom(n, w, r) == {p \in DOMAIN w \ {r} : db[n][p] = w[r] /\ w[p] # w[r]}

(* The claim for the value a row ends the transaction with *)
appendClaims(n, w, r) ==
  LET from == TransferredFrom(n, w, r) IN
  [value |-> w[r], owner |-> r,
   prev |-> IF from = {} THEN Nobody ELSE CHOOSE p \in from : TRUE]

CoordinatedClaims(n, w) ==
  {appendClaims(n, w, r) : r \in {x \in DOMAIN w : w[x] # Null}}

Moves(claims) == \E c \in claims : c.prev # Nobody

Writes(n) ==
  UNION {[rows -> Value \cup {Null}] :
           rows \in SUBSET {r \in Row : home[r] = n} \ {{}}}

Merge(rows, w) == w @@ rows

BeginTxn(n) ==
  /\ pc[n] # "down" /\ req[n] = Idle /\ txns < MaxTxn
  /\ \E w \in Writes(n) :
        /\ \E r \in DOMAIN w : w[r] # Null \/ db[n][r] # Null
        /\ req' = [req EXCEPT ![n] =
             [stage |-> IF CoordinatedClaims(n, w) = {} THEN "granted" ELSE "want",
              w |-> w, left |-> Lag, moved |-> FALSE]]
  /\ txns' = txns + 1
  /\ UNCHANGED <<lease, handoff, holder, table, pc, stall, seen, conn, home, db,
                 queue, faults, slips>>

(* connect: the lease names a live leaseholder that answers *)
Connect(n) ==
  /\ req[n].stage = "want" /\ conn[n] = NoConn
  /\ held(0) /\ lease.owner \in Node /\ pc[lease.owner] # "down"
  /\ conn' = [conn EXCEPT ![n] = [to |-> lease.owner, gen |-> lease.gen]]
  /\ UNCHANGED <<lease, handoff, holder, table, pc, stall, seen, req, home, db,
                 queue, txns, faults, slips>>

(* canServe, the generation gate of the RPC *)
MutCanServe(m, gen) ==
  /\ holder[m].leader /\ ~holder[m].rebuild /\ holder[m].gen = gen
  /\ holder[m].wait <= 0

canServe(m, gen) ==
  /\ holder[m].leader /\ ~holder[m].rebuild /\ holder[m].gen = gen
  /\ holder[m].wait <= 0 /\ holder[m].left > 0

reset(n) == conn' = [conn EXCEPT ![n] = NoConn]

CheckServe(n) ==
  /\ req[n].stage = "want" /\ conn[n] # NoConn
  /\ IF canServe(conn[n].to, conn[n].gen)
       THEN /\ req' = [req EXCEPT ![n].stage = "checked"]
            /\ UNCHANGED conn
       ELSE reset(n) /\ UNCHANGED req
  /\ UNCHANGED <<lease, handoff, holder, table, pc, stall, seen, home, db, queue,
                 txns, faults, slips>>

(* reservationTable.reserve and its answer, which may be lost *)
Reserve(n) ==
  LET m == conn[n].to
      claims == CoordinatedClaims(n, req[n].w)
  IN
  /\ req[n].stage = "checked"
  /\ \/ /\ ~Servable(table[m]) /\ NoFault /\ reset(n)
        /\ req' = [req EXCEPT ![n].stage = "want"]
        /\ UNCHANGED <<table, slips>>
     \/ /\ Servable(table[m]) /\ Conflict(table[m], claims) /\ NoFault
        /\ req' = [req EXCEPT ![n] = Idle]
        /\ Slip("transfer", req[n].moved)
        /\ UNCHANGED <<table, conn>>
     \/ /\ Servable(table[m]) /\ ~Conflict(table[m], claims)
        /\ table' = [table EXCEPT ![m] = reserve(@, claims)]
        /\ \/ /\ NoFault
              /\ req' = [req EXCEPT ![n].stage = "granted", ![n].moved = Moves(claims)]
              /\ UNCHANGED conn
           \/ /\ Fault /\ reset(n)
              /\ req' = [req EXCEPT ![n].stage = "want",
                                    ![n].moved = Moves(claims)]
        /\ UNCHANGED slips
  /\ UNCHANGED <<lease, handoff, holder, pc, stall, seen, home, db, queue, txns>>

(* The retry budget is spent, or the transaction fails after its hook *)
GiveUp(n) ==
  /\ req[n].stage \in {"want", "granted"}
  /\ req' = [req EXCEPT ![n] = Idle]
  /\ Slip("transfer", req[n].moved)
  /\ UNCHANGED <<lease, handoff, holder, table, pc, stall, seen, conn, home, db,
                 queue, txns, faults>>

Commit(n) ==
  /\ req[n].stage = "granted"
  /\ db' = [db EXCEPT ![n] = Merge(@, req[n].w)]
  /\ queue' = [m \in Node |-> IF m = n THEN queue[m]
                 ELSE Append(queue[m], [w |-> req[n].w, left |-> req[n].left])]
  /\ req' = [req EXCEPT ![n] = Idle]
  /\ Slip("drain", /\ \E m \in Node : holder[m].leader /\ holder[m].rebuild
                   /\ \E r \in DOMAIN req[n].w : db[n][r] \notin {Null, req[n].w[r]})
  /\ UNCHANGED <<lease, handoff, holder, table, pc, stall, seen, conn, home, txns,
                 faults>>

(* A changeset reaches a replica, in any order: what an older one says of the
   same rows no longer counts.                                               *)
Without(w, rows) == [r \in DOMAIN w \ rows |-> w[r]]

Deliver(m, i) ==
  /\ i \in DOMAIN queue[m]
  /\ db' = [db EXCEPT ![m] = Merge(@, queue[m][i].w)]
  /\ queue' = [queue EXCEPT ![m] = RemoveAt(
        [j \in DOMAIN @ |->
           IF j < i THEN [@[j] EXCEPT !.w = Without(@, DOMAIN queue[m][i].w)]
           ELSE @[j]], i)]
  /\ UNCHANGED <<lease, handoff, holder, table, pc, stall, seen, conn, req, home,
                 txns, faults, slips>>
-----------------------------------------------------------------------------
(* An instant before every clock reading in use stays at the bound *)
Later(left, low) == IF left > low THEN left - 1 ELSE low

Older(age, limit) == IF age < limit THEN age + 1 ELSE age

Aged(t) ==
  [t EXCEPT
     !.taken = [v \in Value |-> IF Free(@[v]) \/ @[v].backed THEN @[v]
                  ELSE [@[v] EXCEPT !.age = Older(@, Grace)]],
     !.hold = [v \in Value |-> IF Free(@[v]) THEN @[v]
                  ELSE [@[v] EXCEPT !.age = Older(@, Quarantine)]]]

Ticking(n) == pc[n] \in {"lease", "enumerate", "ingest"}

Pending(n) == req[n].stage # "idle"

Patience(n) == IF pc[n] = "lease" /\ holder[n].leader THEN MaxRenew ELSE MaxStall

PassTime ==
  /\ \A n \in Node :
        /\ Ticking(n) => stall[n] < Patience(n)
        /\ pc[n] = "idle" => stall[n] < Cadence
        /\ Pending(n) => req[n].left > 0
        /\ \A i \in DOMAIN queue[n] : queue[n][i].left > 0
  /\ IF \E n \in Node : Ticking(n) /\ stall[n] = 0 THEN Fault ELSE NoFault   \* slow from now on
  /\ lease' = [lease EXCEPT !.left = Later(@, Past)]
  /\ handoff' = [handoff EXCEPT !.hold = Aged([newReservationTable EXCEPT !.hold = handoff.hold]).hold]
  /\ holder' = [n \in Node |->
        [holder[n] EXCEPT !.wait = Later(@, -Patience(n)), !.left = Later(@, Past)]]
  /\ table' = [n \in Node |-> Aged(table[n])]
  /\ stall' = [n \in Node |-> IF Ticking(n) \/ pc[n] = "idle" THEN stall[n] + 1 ELSE 0]
  /\ req' = [n \in Node |-> IF Pending(n) THEN [req[n] EXCEPT !.left = @ - 1] ELSE req[n]]
  /\ queue' = [n \in Node |->
        [i \in DOMAIN queue[n] |-> [queue[n][i] EXCEPT !.left = @ - 1]]]
  /\ UNCHANGED <<pc, seen, conn, home, db, txns, slips>>

Maintenance(n) ==
  \/ BeginTick(n) \/ TickFails(n) \/ Acquire(n) \/ AcquireUnacked(n)
  \/ Fenced(n) \/ Renew(n) \/ Enumerate(n) \/ SweepOnly(n) \/ Ingest(n)

Process(n) ==
  \/ BeginStop(n) \/ PublishHandoff(n) \/ Release(n) \/ Crash(n) \/ Restart(n)

Writer(n) ==
  \/ BeginTxn(n) \/ Connect(n) \/ CheckServe(n) \/ Reserve(n) \/ GiveUp(n)
  \/ Commit(n)

Next ==
  \/ \E n \in Node : Maintenance(n) \/ Process(n) \/ Writer(n)
  \/ \E n \in Node : \E i \in DOMAIN queue[n] : Deliver(n, i)
  \/ PassTime

Spec == Init /\ [][Next]_vars
-----------------------------------------------------------------------------
Holds(v) == {r \in Row : db[home[r]][r] = v}

(* Every variable has its type: the times stay inside their windows *)
TypeOK ==
  /\ lease \in [owner : Node \cup {Nobody, Gone}, gen : 0..MaxGen, left : Past..Ttl]
  /\ \A n \in Node :
       /\ holder[n] \in [leader : BOOLEAN, rebuild : BOOLEAN, wait : -MaxRenew..Drain,
                         gen : 0..MaxGen, left : Past..Ttl, etag : BOOLEAN]
       /\ table[n].taken \in [Value -> [owner : Row \cup {Nobody}, age : 0..Grace, backed : BOOLEAN]]
       /\ table[n].hold \in [Value -> [owner : Row \cup {Nobody}, age : 0..Quarantine]]
       /\ pc[n] \in {"idle", "lease", "enumerate", "ingest", "publish", "release", "down"}
       /\ stall[n] \in 0..(MaxRenew + Cadence)
       /\ req[n].stage \in {"idle", "want", "checked", "granted"}
       /\ db[n] \in [Row -> Value \cup {Null}]

(* The generation gate with its soft expiry fence (canServe): at no time do
   two nodes answer reservations for their generation, although a leaseholder
   may hang in a renewal until its successor has drained and serves.         *)
AtMostOneServes ==
  \A n, m \in Node :
     canServe(n, holder[n].gen) /\ canServe(m, holder[m].gen) => n = m

(* Reserve is the linearization point: no commit gives a value to a second
   row, whatever crashes, lost replies, takeovers and handoffs came before,
   unless a table that was never derived from the rows had been adopted
   ("handoff") or a transaction that had been granted a transfer of a value
   between its rows had failed ("transfer").  Rows that shared a value before
   the key existed may go on sharing it.                                     *)
NoSecondHolder ==
  [][\A v \in Value : slips \subseteq {"drain"} =>
       \/ Cardinality(Holds(v)') <= 1
       \/ Holds(v)' \subseteq Holds(v)]_vars

(* The same although a leaseholder may stop while it still drains, and its
   successor adopt what it published.                                         *)
NoSecondHolderDespiteHandoff ==
  [][\A v \in Value : slips \subseteq {"drain", "handoff"} =>
       \/ Cardinality(Holds(v)') <= 1
       \/ Holds(v)' \subseteq Holds(v)]_vars

(* Quarantine until stable (reservationTable.grantable): when a free value is
   granted, no replica still has it in one other row, given that a row is on
   every replica within Lag and that the hold outlasts Lag, two cadences and a
   failed enumeration.  It is not so after one of the gaps has opened: a value
   vacated while a new leaseholder drains ("drain") enters no hold, since the
   table is derived from the rows only when the drain is over.                *)
GrantedWhenStable ==
  [][\A m \in Node : \A v \in Value :
       LET before == table[m].taken[v]  after == table'[m].taken[v] IN
       /\ slips = {} /\ UNCHANGED holder
       /\ Free(before) /\ ~Free(after) /\ ~after.backed
       => \A n \in Node : \/ RowsWith(db[n], v) \subseteq {after.owner}
                          \/ v \in duplicateClaims(db[n])]_vars

(* The taken-set is soft state, but complete while it is used (ingest): a
   leaseholder that serves grants a value some row holds to no row that was not
   granted it before, unless the gap "handoff" or "transfer" has opened.       *)
ServingKnows ==
  \A n \in Node : \A v \in Value :
    /\ canServe(n, holder[n].gen) /\ Servable(table[n])
    /\ slips \subseteq {"drain"} /\ Holds(v) # {}
    => \A r \in Row \ (Holds(v) \cup {table[n].taken[v].owner}) :
         ~grantable(table[n], [value |-> v, owner |-> r, prev |-> Nobody])
=============================================================================
