---------------------------- MODULE NodeTraffic ----------------------------
(* The usage of one client as the master adds it up: setRemoteTrafficLocked   *)
(* folds the counters the nodes report into the client_traffics row, with a    *)
(* baseline per (node, email), while resets, deletions and the master's own    *)
(* poll change the same row and nodes lose, reset or restore their counters.   *)
(* Upload and download are treated alike, so one counter stands for both. The   *)
(* client has no renewal period, so nodeClientRenewed never holds.              *)
EXTENDS Naturals, FiniteSets, FiniteSetsExt

CONSTANTS
    Nodes,       \* nodes that serve the client
    Inbs,        \* inbounds on those nodes that may list it
    NodeOf,      \* the node of an inbound
    None,        \* no row, no baseline, no snapshot, no transaction
    TrafficMax,  \* database.TrafficMax, the clamp of every counter
    MaxUse,      \* bound: units of traffic in a behaviour
    MaxEvents    \* bound: resets, deletions, edits, counters going back, ...

ASSUME NodesAssumption == IsFiniteSet(Nodes)
ASSUME NodeOfAssumption == NodeOf \in [Inbs -> Nodes]
ASSUME TrafficMaxAssumption == TrafficMax \in Nat
ASSUME NoneIsNoCounter == None \notin Nat \cup Nodes

VARIABLES
    row,      \* master: the client's counter in client_traffics, or None
    base,     \* master: node_client_traffics, the counter last seen from a node
    known,    \* master: the inbounds with a central row
    buried,   \* master: the email has a live tombstone
    pending,  \* master: nodes.config_dirty
    at,       \* master: where the sync of a node is
    snap,     \* master: the snapshot it fetched
    busy,     \* master: the node whose merge transaction the writer executes, or None
    txn,      \* master: that transaction
    resets,   \* master: nodes that still have to be told of a reset
    cnt,      \* nodes: the node's own counter
    carries,  \* nodes: the inbounds that list the client
    spent,    \* bound: traffic so far
    events,   \* bound: events so far
    local,    \* ghost: what the master's own core added to the row
    credit,   \* ghost: what the merges added to the row for a node
    owed,     \* ghost: what was really used through a node and is the row's to count
    since,    \* ghost: what was used through a node since its snapshot was taken
    steady    \* ghost: the node's counter did not go back under a baseline or a snapshot

nodeVars == <<cnt, carries>>
ghostVars == <<local, credit, owed, since, steady>>
masterVars == <<row, base, known, buried, pending, resets>>
syncVars == <<at, snap, busy, txn>>
trafficVars == <<masterVars, syncVars, nodeVars, spent, events, ghostVars>>

AllNone == [n \in Nodes |-> None]
AllZero == [n \in Nodes |-> 0]
On(n) == {c \in Inbs : NodeOf[c] = n}

(* A snapshot: the inbounds that list the client, the client's counter folded   *)
(* over their copies, and whether the tick had just pushed the configuration.   *)
Snapshots == [from : SUBSET Inbs, canon : Nat, just : BOOLEAN]

(* A merge transaction: what is left to do, the row and the baseline so far,    *)
(* the inbounds it imported, the flags it runs under, and for the ghosts what   *)
(* it added and whether it created the row.                                     *)
Transactions == [todo : SUBSET Inbs, row : Nat \cup {None}, base : Nat \cup {None},
                 new : SUBSET Inbs, dirty : BOOLEAN, frozen : BOOLEAN,
                 added : Nat, seeded : BOOLEAN]

NoSnapshot == [from |-> {}, canon |-> 0, just |-> FALSE]
NoTransaction == [todo |-> {}, row |-> None, base |-> None, new |-> {}, dirty |-> FALSE,
                  frozen |-> FALSE, added |-> 0, seeded |-> FALSE]

(* Bounds the rare events of a behaviour.                                       *)
Event == events < MaxEvents /\ events' = events + 1

(* Faulty variant: nothing keeps the counter from growing past its limit.       *)
UnclampedAdd(v, delta) == v + delta

(* A counter after delta more, clamped.                                         *)
ClampedAdd(v, delta) == IF v + delta > TrafficMax THEN TrafficMax ELSE v + delta

TrafficInit ==
    /\ row = 0 /\ base = AllNone /\ known \in {{}, Inbs} /\ buried = FALSE
    /\ pending = [n \in Nodes |-> FALSE]
    /\ at = [n \in Nodes |-> "idle"] /\ busy = None /\ resets = {}
    /\ snap = [n \in Nodes |-> NoSnapshot] /\ txn = NoTransaction
    /\ cnt = AllZero /\ carries = Inbs
    /\ spent = 0 /\ events = 0 /\ local = 0 /\ credit = AllZero /\ owed = AllZero /\ since = AllZero
    /\ steady = [n \in Nodes |-> TRUE]

-----------------------------------------------------------------------------
(* The nodes. The client uses traffic on node n, which counts it. The byte is   *)
(* the row's to count from the moment the row has a baseline for the node; what *)
(* a node counted before the master knew it is no new usage.                    *)
Use(n) ==
    /\ spent < MaxUse /\ cnt[n] < TrafficMax
    /\ carries \cap On(n) # {}
    /\ spent' = spent + 1
    /\ cnt' = [cnt EXCEPT ![n] = @ + 1]
    /\ since' = [since EXCEPT ![n] = @ + (IF at[n] = "pulled" THEN 1 ELSE 0)]
    /\ owed' = [owed EXCEPT ![n] = @ + (IF base[n] = None THEN 0 ELSE 1)]
    /\ UNCHANGED <<events, masterVars, syncVars, carries, local, credit, steady>>

(* The counter of node n goes back to v; it leaves the exact balance of the     *)
(* ghosts alone only while neither a baseline nor a snapshot refers to it.      *)
GoesBack(n, v) ==
    /\ cnt' = [cnt EXCEPT ![n] = v]
    /\ steady' = [steady EXCEPT ![n] = @ /\ base[n] = None /\ at[n] # "pulled"]

(* A reset on the node, a restored backup, a reinstalled panel.                  *)
NodeSetsBack(n, v) ==
    /\ Event
    /\ v < cnt[n]
    /\ GoesBack(n, v)
    /\ UNCHANGED <<masterVars, syncVars, carries, spent, local, credit, owed, since>>

(* The node's inbound gains or loses the client; with the last one the node     *)
(* drops its counter.                                                           *)
NodeAttaches(c) ==
    /\ Event
    /\ c \notin carries
    /\ carries' = carries \cup {c}
    /\ UNCHANGED <<masterVars, syncVars, cnt, spent, ghostVars>>

NodeDetaches(c) ==
    /\ Event
    /\ c \in carries
    /\ carries' = carries \ {c}
    /\ IF carries' \cap On(NodeOf[c]) = {}
         THEN GoesBack(NodeOf[c], 0)
         ELSE UNCHANGED <<cnt, steady>>
    /\ UNCHANGED <<masterVars, syncVars, spent, local, credit, owed, since>>

-----------------------------------------------------------------------------
(* The sync of one node. Reconcile comes first on a dirty node; when it         *)
(* succeeded the flag is cleared and the snapshot counts as just pushed. After  *)
(* a reconcile that fails the sync goes on as on a clean node.                  *)
Reconciled(n) ==
    /\ at[n] = "idle" /\ pending[n]
    /\ at' = [at EXCEPT ![n] = "pushed"]
    /\ pending' = [pending EXCEPT ![n] = FALSE]
    /\ UNCHANGED <<events, row, base, known, buried, resets, snap, busy, txn, nodeVars, spent, ghostVars>>

(* Faulty variant: the list the masters poll carries the total that             *)
(* maybePushGlobals sent the node (overlayInboundsClientStats).                  *)
ReportWithGlobals(n) == IF row # None /\ row > cnt[n] THEN row ELSE cnt[n]

(* What the node reports: its own counter, without what masters pushed to it.   *)
Report(n) == cnt[n]

(* Faulty variant: the folded value is the lowest copy.                         *)
FoldedToMin(copies, canon) ==
    /\ \A c \in DOMAIN copies : copies[c] >= canon
    /\ IF DOMAIN copies = {} THEN canon = 0 ELSE \E c \in DOMAIN copies : copies[c] = canon

(* The copies of a counter folded to their maximum (nodeEmailTotals).           *)
FoldedTo(copies, canon) ==
    /\ \A c \in DOMAIN copies : copies[c] <= canon
    /\ IF DOMAIN copies = {} THEN canon = 0 ELSE \E c \in DOMAIN copies : copies[c] = canon

(* FetchTrafficSnapshot. Every inbound that lists the client carries a copy of  *)
(* its counter; copies may lag, the newest is the node's counter.               *)
Fetch(n) ==
    /\ at[n] \in {"idle", "pushed"}
    /\ \E copies \in [carries \cap On(n) -> 0 .. Report(n)], canon \in 0 .. Report(n) :
         /\ carries \cap On(n) # {} => \E c \in DOMAIN copies : copies[c] = Report(n)
         /\ FoldedTo(copies, canon)
         /\ snap' = [snap EXCEPT ![n] = [from |-> carries \cap On(n), canon |-> canon,
                                         just |-> at[n] = "pushed"]]
    /\ at' = [at EXCEPT ![n] = "pulled"]
    /\ UNCHANGED <<events, masterVars, busy, txn, nodeVars, spent, ghostVars>>

FetchFails(n) ==
    /\ at[n] = "pushed"
    /\ at' = [at EXCEPT ![n] = "idle"]
    /\ UNCHANGED <<events, masterVars, snap, busy, txn, nodeVars, spent, ghostVars>>

-----------------------------------------------------------------------------
(* The merge, on the serial writer. It re-reads the dirty flag; an inbound       *)
(* without a central row is created unless the node is dirty.                    *)
MergeBegin(n) ==
    /\ busy = None /\ at[n] = "pulled"
    /\ busy' = n
    /\ LET new == IF pending[n] THEN {} ELSE snap[n].from \ known
       IN  txn' = [todo |-> snap[n].from \cap (known \cup new), row |-> row,
                   base |-> base[n], new |-> new, dirty |-> pending[n],
                   frozen |-> pending[n] \/ snap[n].just, added |-> 0, seeded |-> FALSE]
    /\ UNCHANGED <<events, masterVars, at, snap, nodeVars, spent, ghostVars>>

(* Faulty variant: after a dip the whole counter is taken for new usage.         *)
DeltaAfterDip(b, canon) == IF b = None THEN 0 ELSE IF canon < b THEN canon ELSE canon - b

(* What a counter adds to the row: nothing without a baseline or after a dip.    *)
Delta(b, canon) == IF b = None \/ canon < b THEN 0 ELSE canon - b

(* Faulty variant: the baseline of the loop is not moved by its first inbound.   *)
StaleBase(t, canon) == IF t.base # None THEN t.base ELSE canon

(* The baseline after the merge: the counter, but a dip on a frozen tick keeps   *)
(* the old one.                                                                  *)
NextBase(t, canon) ==
    IF t.frozen /\ t.base # None /\ canon < t.base THEN t.base ELSE canon

(* Inbound c is done and leaves this row and baseline.                           *)
WithRow(t, c, r, b, added, seeded) ==
    [todo |-> t.todo \ {c}, row |-> r, base |-> b, new |-> t.new, dirty |-> t.dirty,
     frozen |-> t.frozen, added |-> added, seeded |-> seeded]

(* One inbound of the snapshot that lists the client. A row that is missing is   *)
(* created unless the node is dirty or the client was just deleted here; it      *)
(* starts at the node's counter when the inbound was imported in this merge and  *)
(* the client has no tombstone, else at zero.                                    *)
SeedRow(c, canon) ==
    /\ txn.row = None /\ ~txn.dirty
    /\ c \in txn.new \/ ~buried
    /\ LET seed == IF c \in txn.new /\ ~buried THEN canon ELSE 0
       IN  txn' = WithRow(txn, c, seed, canon, seed, TRUE)

SkipRow(c) ==
    /\ txn.row = None
    /\ txn.dirty \/ (c \notin txn.new /\ buried)
    /\ txn' = WithRow(txn, c, None, txn.base, txn.added, txn.seeded)

AddToRow(c, canon) ==
    /\ txn.row # None
    /\ LET delta == Delta(txn.base, canon)
       IN  txn' = WithRow(txn, c, ClampedAdd(txn.row, delta), NextBase(txn, canon),
                          txn.added + delta, txn.seeded)

MergeInbound(c) ==
    /\ busy # None /\ c \in txn.todo
    /\ \/ SeedRow(c, snap[busy].canon)
       \/ SkipRow(c)
       \/ AddToRow(c, snap[busy].canon)
    /\ UNCHANGED <<events, masterVars, at, snap, busy, nodeVars, spent, ghostVars>>

(* The sweep of clients that left the node drops the baseline. The row stays:    *)
(* the client's record exists, SyncInbound created it with the row. It looks     *)
(* only at rows filed under an inbound of this node, which the row of a client   *)
(* with several inbounds may or may not be.                                      *)
MaySweep == ~txn.dirty /\ txn.row # None /\ snap[busy].from = {}

SyncEnds ==
    /\ at' = [at EXCEPT ![busy] = "idle"]
    /\ snap' = [snap EXCEPT ![busy] = NoSnapshot]
    /\ busy' = None
    /\ txn' = NoTransaction
    /\ since' = [since EXCEPT ![busy] = 0]

MergeCommit(swept) ==
    /\ busy # None /\ txn.todo = {}
    /\ swept => MaySweep
    /\ row' = txn.row
    /\ base' = [base EXCEPT ![busy] = IF swept THEN None ELSE txn.base]
    /\ known' = known \cup txn.new
    /\ SyncEnds
    /\ credit' = [credit EXCEPT ![busy] = txn.added + (IF txn.seeded THEN 0 ELSE @)]
    /\ owed' = [owed EXCEPT ![busy] =
                  IF txn.seeded THEN txn.added + since[busy]
                  ELSE IF base[busy] = None /\ txn.base # None THEN @ + since[busy] ELSE @]
    /\ steady' = [steady EXCEPT ![busy] = @ /\ ~(swept /\ txn.base # None)]
    /\ UNCHANGED <<events, buried, pending, resets, nodeVars, spent, local>>

(* An error anywhere in the merge, or the end of the process: nothing is kept.   *)
MergeFails ==
    /\ Event
    /\ busy # None
    /\ SyncEnds
    /\ UNCHANGED <<masterVars, nodeVars, spent, local, credit, owed, steady>>

-----------------------------------------------------------------------------
(* The other writers of the row, all on the serial writer.                       *)

(* addClientTraffic: the master's own core reports usage of the client.          *)
AddClientTraffic(k) ==
    /\ busy = None /\ row # None /\ spent < MaxUse
    /\ row' = ClampedAdd(row, k)
    /\ spent' = spent + 1
    /\ local' = local + k
    /\ UNCHANGED <<events, base, known, buried, pending, resets, syncVars, nodeVars,
                   credit, owed, since, steady>>

(* The ghosts at a new zero point of the row. A snapshot already taken can       *)
(* still set a baseline.                                                         *)
FromZero ==
    /\ local' = 0 /\ credit' = AllZero /\ owed' = AllZero
    /\ steady' = [n \in Nodes |-> steady[n] \/ at[n] # "pulled"]
    /\ UNCHANGED since

(* Faulty variant: a reset keeps the baselines.                                  *)
DropNoBaselines == base

(* Every reset and every deletion drops the baselines of all nodes.              *)
DropBaselines == AllNone

(* ResetClientTraffic for one of the client's node inbounds: the transaction,    *)
(* after which the node is told.                                                 *)
ResetClientTraffic(c) ==
    /\ Event
    /\ busy = None /\ row # None /\ c \in known
    /\ row' = 0
    /\ base' = DropBaselines
    /\ pending' = [pending EXCEPT ![NodeOf[c]] = TRUE]
    /\ resets' = resets \cup {NodeOf[c]}
    /\ FromZero
    /\ UNCHANGED <<known, buried, syncVars, nodeVars, spent>>

(* The node executes the reset.                                                  *)
RemoteReset(n) ==
    /\ n \in resets
    /\ resets' = resets \ {n}
    /\ GoesBack(n, 0)
    /\ UNCHANGED <<events, row, base, known, buried, pending, syncVars, carries, spent,
                   local, credit, owed, since>>

(* The call fails or the process ends first; nothing replays it.                 *)
RemoteResetLost(n) ==
    /\ n \in resets
    /\ resets' = resets \ {n}
    /\ UNCHANGED <<events, row, base, known, buried, pending, syncVars, nodeVars, spent, ghostVars>>

(* BulkResetTraffic, ResetAllClientTraffics, ResetAllTraffics: the row and the   *)
(* baselines, no word to the nodes.                                              *)
BulkResetTraffic ==
    /\ Event
    /\ busy = None /\ row # None
    /\ row' = 0
    /\ base' = DropBaselines
    /\ FromZero
    /\ UNCHANGED <<known, buried, pending, resets, syncVars, nodeVars, spent>>

(* DelClientStat with the tombstone of the deletion, and AddClientStat, which    *)
(* keeps the counters of a row that is still there.                              *)
DelClientStat ==
    /\ Event
    /\ busy = None /\ row # None
    /\ row' = None
    /\ base' = DropBaselines
    /\ buried' = TRUE
    /\ FromZero
    /\ UNCHANGED <<known, pending, resets, syncVars, nodeVars, spent>>

AddClientStat ==
    /\ Event
    /\ busy = None
    /\ row' = IF row = None THEN 0 ELSE row
    /\ buried' = FALSE
    /\ UNCHANGED <<base, known, pending, resets, syncVars, nodeVars, spent, ghostVars>>

BurialExpires ==
    /\ buried
    /\ buried' = FALSE
    /\ UNCHANGED <<events, row, base, known, pending, resets, syncVars, nodeVars, spent, ghostVars>>

(* Any committed edit of the node's configuration.                               *)
MarkNodeDirty(n) ==
    /\ Event
    /\ ~pending[n]
    /\ pending' = [pending EXCEPT ![n] = TRUE]
    /\ UNCHANGED <<row, base, known, buried, resets, syncVars, nodeVars, spent, ghostVars>>

-----------------------------------------------------------------------------
NodeSteps(n) ==
    \/ Use(n)
    \/ \E v \in 0 .. cnt[n] : NodeSetsBack(n, v)
    \/ \E c \in On(n) : NodeAttaches(c) \/ NodeDetaches(c)

MergeSteps == (\E c \in Inbs : MergeInbound(c)) \/ (\E swept \in BOOLEAN : MergeCommit(swept)) \/ MergeFails

SyncSteps(n) == Reconciled(n) \/ Fetch(n) \/ FetchFails(n) \/ MergeBegin(n)

RowSteps ==
    \/ \E k \in 1 .. TrafficMax : AddClientTraffic(k)
    \/ BulkResetTraffic \/ DelClientStat \/ AddClientStat \/ BurialExpires
    \/ \E c \in Inbs : ResetClientTraffic(c)
    \/ \E n \in Nodes : RemoteReset(n) \/ RemoteResetLost(n) \/ MarkNodeDirty(n)

TrafficNext == (\E n \in Nodes : NodeSteps(n) \/ SyncSteps(n)) \/ MergeSteps \/ RowSteps

TrafficSpec == TrafficInit /\ [][TrafficNext]_trafficVars

-----------------------------------------------------------------------------
(* Types of the accounting state of setRemoteTrafficLocked and the resets.       *)
TrafficTypeOK ==
    /\ row \in Nat \cup {None}
    /\ base \in [Nodes -> Nat \cup {None}]
    /\ known \subseteq Inbs
    /\ buried \in BOOLEAN
    /\ pending \in [Nodes -> BOOLEAN]
    /\ at \in [Nodes -> {"idle", "pushed", "pulled"}]
    /\ snap \in [Nodes -> Snapshots]
    /\ busy \in Nodes \cup {None}
    /\ txn \in Transactions
    /\ resets \subseteq Nodes
    /\ cnt \in [Nodes -> Nat]
    /\ carries \subseteq Inbs
    /\ spent \in Nat /\ events \in Nat /\ local \in Nat
    /\ credit \in [Nodes -> Nat] /\ owed \in [Nodes -> Nat] /\ since \in [Nodes -> Nat]
    /\ steady \in [Nodes -> BOOLEAN]

(* Usage is never counted twice: whatever resets, restored backups, failed       *)
(* merges, stale snapshots and lost calls do, the row never holds more for a     *)
(* node than was used through it since the row started at zero or was imported   *)
(* (setRemoteTrafficLocked, the resets).                                         *)
NeverOvercounts == \A n \in Nodes : credit[n] <= owed[n]

(* Usage is not lost either: as long as a node's counter did not go back, what   *)
(* the row holds for it and what the next merge will add are all that was used.  *)
CountedExactly ==
    \A n \in Nodes : steady[n] /\ base[n] # None => credit[n] + cnt[n] = owed[n] + base[n]

(* The shared row is the sum of its sources, clamped: no merge of one node       *)
(* overwrites what another one or the master's own core added.                   *)
RowIsTheSum ==
    row # None => row = Min({TrafficMax, local + MapThenSumSet(LAMBDA n : credit[n], Nodes)})
=============================================================================
