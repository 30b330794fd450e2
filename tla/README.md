# TLA+ development for LucX-UI

LucX-UI is a Go panel (a 3x-ui fork) that owns an Xray-core process and, as a
*master*, the same panel on remote *nodes*. Its database holds the inbounds and
their clients; background jobs meter traffic, disable depleted clients, revive
the core and keep the nodes equal to the master. This directory holds TLA+
models of the parts where several goroutines, processes or machines can
disagree about that state, TLC runs on small instances, and TLAPS proofs of the
safety properties for every instance.

All paths below are relative to `src/internal/` unless they start with `src/`.

## 1. Inventory

| Component | State it keeps | Operations | What is hard | What makes it correct |
|---|---|---|---|---|
| Serial traffic writer (`web/service/traffic_writer.go`) | `twQueue/twCtx/twCancel/twDone` under `twMu`, one goroutine | start, stop, submit | stop racing submit, full channel with the lock held, restart overlapping a drain | every write applied once or refused, the caller told the truth, everyone returns |
| Xray lifecycle (`web/service/xray.go`, `xray/process.go`, `xray/hot_diff.go`) | current `Process` with its config snapshot, `isNeedXrayRestart`, `isManuallyStopped`, `heldBack` | RestartXray, StopXray, ApplyPendingRestart, hot apply | many callers, one lock, three copies of the config, errors in the middle of a hot apply | a working core is not torn down in vain, a manual stop sticks, drift is known, the core comes back |
| Watchdog and polls (`web/job/check_xray_running_job.go`, `xray_traffic_job.go`, `node_traffic_sync_job.go`) | a miss counter, what a poll still owes | cron ticks | acting on state read without the lock | as above |
| Live client edits (`web/service/client_inbound_apply.go`, `web/runtime/local.go`) | per-inbound lock | add, update, delete | database and core change in separate steps | the core follows, or a restart is asked for |
| Client CRUD and tombstones (`web/service/client_crud.go`, `client_locks.go`) | `recentlyDeleted`, records | create, delete | a merge between two steps | a delete stays deleted, a failed one does not happen |
| Node sync (`web/service/inbound_node.go`, `node.go`, `web/runtime/remote.go`) | `config_dirty`, `config_dirty_at`, `pushedFP`, adopted settings | client push, reconcile, snapshot, merge | lost answers, stale snapshots, restarts, edits during a tick | no committed edit undone, clean means equal, convergence |
| Node traffic merge (same files) | the shared counter row, a baseline per node | merge of deltas, resets, deletions | resets, restored backups and restarts on either side, older snapshots | usage counted once, and all of it |
| Node onboarding (`inbound_node.go`, `node.go`, `web/job/node_traffic_sync_job.go`) | `InboundsAdoptedAt`, the selection of tags | import, sweep, drop, edits of the selection | sweeping before importing | a node is never emptied by mistake, a deletion stays |
| Orphaned clients (`web/service/client_sync_orphan.go`) | `sync_orphaned_at` | mark, clear, reap | the reaper reads before it gets to the writer | only a client that was lost for the whole grace period is deleted |
| Local accounting (`web/service/inbound_traffic.go`, `inbound_disable.go`, `client_crud.go`) | counters, quota, expiry, allowance, in three copies | AddTraffic, renew, reset, update, bulk | the poll racing an edit that has read the settings | the copies agree, an exhausted client is off, a paid renewal arrives once |
| Client addresses (`web/service/inbound_client_ips.go`, `inbound_node_ips.go`) | a row per client, one per client and panel GUID | scan, prune, sync both ways | copies that arrive late, cloned panels | a pruned address stays away, attribution is true |
| IP limit (`web/job/check_client_ip_job.go`) | `bannedSeen`, the log fail2ban reads | observe, log, remove and add again | a client switched off within the window, a log that cannot be opened | each connection over the limit is logged once, the core serves who is on |
| Sidecar managers and jobs (`lucx/tunnel`, other `lucx/*`) | records with process and fingerprint, config files | Ensure, Remove, StopAll, reconcile job | a record deleted while another caller waits for it | no process is lost, the sidecar follows the database |
| Event bus (`eventbus/bus.go`) | a bounded channel, a queue and a worker per subscriber | Subscribe, Publish, Stop | full queues, replaced subscribers, stop | order, silence after Stop |
| WebSocket hub (`web/websocket/hub.go`, `web/service/panel/websocket.go`) | clients, two bounded channels | Register, Unregister, Broadcast, Stop | slow clients, panics of the loop | no gaps, no leaked entry, Stop closes all |
| Tunnel monitor, Discord gateway, login limiter, port conflict check | small state or none | | | not modelled, see 7 |
| Rest: subscription server, importers, settings, migrations, notifications, frontend | data and formatting | | little | not modelled, see 7 |

How they interact: the polls, the merges and the client edits commit through the
serial writer, and an edit then calls the local core or a node; some operations
of the operator (`DelInbound`, `SetInboundEnable`, `NodeService.Update`) commit in
transactions of their own beside it; edits and
polls set `isNeedXrayRestart`, which a 30-second cron consumes; `RestartXray`
reads the database through `GetXrayConfig`, which itself submits to the writer;
the node sync tick (5 s) reconciles dirty nodes, pulls a snapshot and merges it
on the writer, then copies client addresses and the totals of all nodes.
`PROJECT.json` lists every component with its status and the
hazards at their lines.

## 2. Modules

| Module | Models | Proofs |
|---|---|---|
| `SerialWriter` | the promise to a caller of `submitTrafficWrite` | |
| `TrafficWriter` | the protocol that keeps it | `TrafficWriter_proofs` |
| `XrayLifecycle` | RestartXray, its six callers, live edits, crashes | `XrayLifecycle_proofs` |
| `NodeSync` | edits, dirty flag, fingerprint, tombstones, the sync tick, restarts | `NodeSync_proofs` |
| `NodeTraffic` | the usage of a client, added up from several nodes and inbounds | `NodeTraffic_proofs` |
| `NodeAdoption` | the inbounds of a node: import, selection, sweep, deletion | `NodeInbounds_proofs` |
| `SyncOrphans` | a client no node reports any more, and its reaper | `NodeInbounds_proofs` |
| `ClientQuota` | quota, expiry and renewal of a client in their three copies | `Services_proofs` |
| `IpEntries` | address lists with the time each address was last seen | |
| `ClientIps` | those lists on a master and a node, and their exchange | `Addresses_proofs` |
| `IpLimit` | the IP limit on one panel | `Addresses_proofs` |
| `TunnelManager` | a sidecar manager with its job, edits, stops, crashes | `Services_proofs` |
| `EventBus` | the event bus | `Messaging_proofs` |
| `WsHub` | the WebSocket hub with its connections | `Messaging_proofs` |
| `MCTrafficWriter`, `MCXrayLifecycle`, `MCNodeSync` | symmetry sets and, for the writer, the state after `Server.start` | |
| `MCNodes`, `MCServices` | six modules about master and node, four about services of one panel, in one instance | |

`MCNodes` and `MCServices` do not compose their modules: their parts share no
variable, `part` (or `service`) is chosen in the initial state and says which of
them steps, and the others stay as they start. Each part is explored as if it
were alone.

Definitions named *Faulty variant* are plausible bugs of the definition they
precede; no specification uses them. They show that each property can fail.

### TrafficWriter

`twQueue`, `twCtx`, `twCancel` and `twDone` are always set and cleared together,
so `cur` (the writer generation they belong to) stands for all four. A locked
section that cannot block is one action guarded by `mu = None`; the one that can
block, the send on a full channel, makes `mu` its holder. A writer is in its
`select`, applying, draining, applying in the drain, or exited; Go's `select`
may take either ready case, so `WriterReceive` stays enabled after a cancel.
`applied` counts how often a call's function ran. The 5-second submit timer may
fire at any moment while the send waits. A function that panics is answered
with an error by `safeApply`: error and success are the same answer here.

### XrayLifecycle

A config is `users` (what each client is served), `static` (what has no reload
API) and `clash` (two inbounds on one socket). `db`, `snap` and `core` are the
three copies: the database, `Process.config` and the running core. `pc[c]` is
where each caller of RestartXray is; the states in `InRestart` hold the package
lock. `ReadConfig` includes the `AddTraffic(nil, nil)` of `GetXrayConfig`.
`AddTraffic` is one step: it runs on the writer and calls the core there.
`Crash` may happen at any time, also just after a successful start, which is
how a core that cannot bind dies. `leaving` marks a process whose `Stop` was
called and may have failed. `unowned` is a ghost: the users for whom two changes
overlapped (an edit or a poll beside a RestartXray that has already read the
database, a poll beside an edit) or whose failure went to nobody
(`NodeTrafficSyncJob` drops the `needRestart` of AddTraffic).

Left out: inbound and outbound handlers and routing rules in the hot diff (they
follow the users' pattern of removals before additions), the routing of the
sidecars that RestartXray restores after a start, the online maps, and an error
when the setting `RestartXrayOnClientDisable` is read.

### NodeSync

One inbound on one node. A payload is the set of its clients, so fingerprints
are equal iff payloads are; that an add followed by its delete gives back the
same payload is an abstraction of settings that list the same clients. A call
to the node is one step at the node and one at the master; `EditPushLost` and
`ReconcileSendLost` are calls the node executes and the master believes failed.
`EditRead` is the read before the transaction, `EditCommit` the transaction with
`MarkNodeDirtyTx`, `EditAdvance` the fingerprint after a successful push. The
tick reads the flag and its stamp together (`JobStart`), reads the inbound
without `lockInbound` (`ReconcileRead`), skips an unchanged payload
(`ReconcileCheck`), sends and records it, clears the flag if the stamp is still
the one it read, fetches, samples the flag and merges. `Restart` may come at any
point and forgets fingerprints and tombstones. `want` is a ghost: the committed
edits applied in order.

`excuses` is a ghost that names the situations the code gets wrong (section 4):
an edit that commits inside a reconcile, an edit that goes back to the recorded
payload, a merge that strips a client the operator wants. The safety properties
speak about behaviours that met none of them.

Assumptions: stamps are unique (the code uses milliseconds); the locked re-read
of `config_dirty` succeeds (its error is ignored at `inbound_node.go:485`); the
node changes its clients only when asked by this master. The counters of the
same merge are in `NodeTraffic`, the inbounds and the sweep in `NodeAdoption`,
the clients it leaves without an inbound in `SyncOrphans`. Left out: tag
aliases, client updates (`UpdateUser`), edits made by AddTraffic on node
inbounds, and the lifecycle lift of the merge.

### NodeTraffic

One client on several inbounds of several nodes. `row` is its `client_traffics`
row on the master, `base[n]` the `node_client_traffics` baseline, `cnt[n]` the
counter of node `n`, which may go back at any time (a reset, a restored backup,
a reinstalled panel). `setRemoteTrafficLocked` is a transaction of several
steps on the writer: it opens with the flags it sampled, takes the inbounds of
the snapshot one by one, and commits or fails. Between a fetch and its merge
the client may be used, reset, deleted and created again. Ghosts: `credit[n]`
is what merges added for a node, `owed[n]` what was used through it and is the
row's to count, `since[n]` what was used since the snapshot, and `steady[n]`
says that the counter did not go back under a baseline or a snapshot; only
usage lost with a counter is excused. `DelClientStat` is a step on the writer: a
client is deleted there from each of its inbounds. The last transaction of a
deletion (`client_crud.go:933`) is not on the writer and clears what is left of a
client that had no inbound; that one in the middle of a merge is left out. Also
left out: the lifecycle lift, the online trees, the traffic of whole inbounds, and
of the totals a master pushes to its nodes everything but that a node's report
does not contain them.

### NodeAdoption

One node, whose inbounds are their tags. The tick (`syncOne`) works with the node row it
read, `tn`: ReconcileNode reads the rows, lists the node, pushes, sweeps if the
node was adopted, and clears the flag; then it fetches, samples, merges and
records `inbounds_adopted_at`. The merge has the writer for three steps, as
`setRemoteTrafficLocked` does: it reads the node row with the flag
(`MergeReadsFlag`), reads the central rows (`MergeReadsRows`), and commits one
transaction computed from both (`MergeTags`). `CreateInbound` commits on the
writer and so never in between; `DeleteInbound`, `UpdateNode` and `EditInbound`
may fall between any two steps, as do changes on the node and failed or empty
answers. `hurried` names the ways an adoption is recorded
without a full import: the selection grew or the node was edited under the
tick (`grown`, `edited`), the snapshot was empty (`empty`), or the merge could
not make a row (`unmade`). `NotSweptBeforeImport` excuses these four.
`overtaken` holds the tags deleted between the two reads of a merge that found
the node clean; `DeletedNotRevived` excuses these tags, for that merge only
(section 4), and `CreatedNotDropped` excuses nothing.

### SyncOrphans

One client. `MergeSnapshot` is a merge of any set of inbounds of which any
subset reports the client and any subset fails. Time is counted in parts of the
grace period. `unseen` and `late` are the two exceptions of section 4.

### ClientQuota

One client on several local inbounds. `stat`, `rec` and `conf` are the copies in
`client_traffics`, `clients` and the inbound settings. The poll is two
transactions (`PollCounts`, `PollMaintains`); an edit reads under
`lockInbound` and commits later; `Update`, `BulkSetEnable` and the resets go
from inbound to inbound and may fail at each. `spoiled` names when the copies
drift: the poll changed the client while an edit was at work (`overlap`), a
call failed half way (`partial`), a reset met a client that is off elsewhere
(`zeroed`). Renewals and cut-offs are claimed without excuse.

### ClientIps and IpLimit

Two views of the same rows. `ClientIps` has a master and a node, each with a core,
a scan, a prune and a row, and the sync that copies rows down, rows up and
attributions up. Read, merge and write of a row are separate steps, so writes
get lost as they do in the code; only the rows a panel keeps per client and GUID
(`node_client_ips`) are read and written in one step, because whoever writes the
row of one GUID does so in sequence. Times are relative to now, which keeps the
state finite without a bound on time. `cloned` is a node made from the master's
disk. `IpLimit` has one panel: the run observes, reads, writes, logs and removes the
client from the core for a moment, while the poll and the operator switch it on
and off. `unlogged` and `astray` name what the code loses (section 4).

### TunnelManager

One key. A record that was deleted from the map lives on with the callers that
hold it, so `Records` are interchangeable cells and `cell` is the one in the
map. `opMu` is `holder`; the config file `disk` is shared by all records of the
key. An edit that creates or deletes an inbound that is off calls nobody and
leaves the key to the job (`LeftToJob`). `TunnelJob.Run` reads the database and then ensures or removes. A crash, a
failed stop or start and an exit of the panel with its processes alive are
faults. `excuses`: an Ensure got its record before a Remove and `opMu` after it
(`outrun`), a stop failed (`survivor`), two Ensures hold two records at once
(`shared`).

### EventBus and WsHub

Events and messages are numbered as they are published, so order and gaps are
arithmetic. Channels have their capacities as constants; a full one drops
(bus), cuts off (hub fan-out) or waits (register). `WorkerTakes` and
`WorkerExits` may both be enabled, as in Go's `select`. `HubPanics` may happen
over any operation or message the loop has taken, which is lost with it, until the
attempts are used up and the hub is down for good. No statement of the loop is
known to panic (`trySend` recovers by itself), so a panic in the middle of a
fan-out is not modelled. `mishaps` holds connections whose Register or Unregister
was not carried out.

## 3. Runs

| Run | Instance | Checks | Shows |
|---|---|---|---|
| `writer_protocol` | 3 calls, 2 writers, 2 stoppers, channel of 1 (59 thousand states) | `TypeOK ExactlyOnce NeverAbandoned OneWriter EveryCallReturns EveryStopReturns ImplementsSerialWriter` | the protocol keeps its promise |
| `writer_serialized` | 2 calls, 1 writer, 1 stopper | `Serialized` | violated, section 4 |
| `xray_drift` | 1 client, 2 credentials, pending, traffic and node sync callers, restart on disable (767 thousand states) | `DriftIsKnown` | drift is flagged outside the overlaps |
| `xray_control` | 2 static sections, clashes, watchdog, operator, saver (25 thousand states) | `TypeOK NoRefusedTeardown ManualStopSticks WatchdogRevives` | the core is kept, stopped and revived as told |
| `xray_pending` | 1 client, pending caller | `PendingRestartConverges` | violated |
| `xray_heldback` | saver | `HeldBackIsTrue` | violated |
| `node_safety` | all of `MCNodes` (2.2 million states) | `TypeOK MasterIntact CleanMeansEqual`; `NeverOvercounts CountedExactly RowIsTheSum`; `NotSweptBeforeImport DeletedNotRevived CreatedNotDropped`; `AttributionIsTrue NotResurrected`; `OverLimitIsLogged CoreFollowsRecord`; `ReapedWasLost` | what master and node keep of each other survives failures, lost answers and restarts |
| `node_converges` | NodeSync with 1 client (117 thousand states) | `Converges` | the node catches up |
| `services` | all of `MCServices` (186 thousand states) | `TunnelTracked FingerprintTells TunnelConverges`; `InPublicationOrder QuietAfterStop BusStopReturns`; `NoGaps NoLeakedClient StopClosesAll`; `CopiesAgree RenewalsPaid ExhaustedIsCutOff RenewalArrives` | sidecar, bus, hub and quota keep their promises, also in the end |
| `node_overlap`, `node_revert`, `node_tombstone` | 2 clients, 2, 2 and 1 edits | `OverlapIsSafe`, `RevertIsSafe`, `TombstoneIsSafe` | violated |

Bounds. Three calls on a channel of one give one call being applied, one queued
and one blocked with the lock; two generations are needed for a restart to
overlap a stop, and a third would only repeat it. Credentials and static
sections are compared for equality only, so two of each give "the same" and
"another". Three edits give an edit, one that undoes it and one more while a
tick works on either; one restart and one lost answer fall at every point. With
two clients, four edits and two lost answers the inductive invariant of NodeSync
was also checked (7.3 million states). `node_converges` has one client because
its strong fairness conditions make the liveness check the costly part; with one
client an edit and its undoing, and all three excused situations, still occur.

`node_safety`. *sync*: 2 clients, 3 edits, 1 restart, 1 lost answer, any number
of failed calls. *traffic*: 2 nodes, one with two inbounds so that one snapshot
lists the client twice; 3 units of usage against a clamp of 2, so the clamp is
met; 1 rare event, which falls at each point of a merge. *adoption*: 2 tags,
every selection and every initial content of the node, 2 edits, 1 trouble.
*ips*: 1 address (no step relates two), kept for 1 unit, without a bound on time.
*limit*: 2 addresses and a limit of 1, the clock up to 2 and every period 1, so
that an address is live, then forgotten; 2 events, enough for a switch-off
inside the window or a restart after a fault. *orphans*: 2 inbounds, a grace
period of 3, 3 operations of the operator, which create, attach and detach.

`services`. *tunnel*: the job, a stop and one editor with 2 configs, 3 records (a
caller each may hold a deleted one), 2 edits, 1 fault. *bus*: 2 workers with
equal or different ids, a channel of 2, queues of 1, 3 events: both kinds of
queue overflow. *hub*: 2 connections, 2 operations, buffers of 1, 2 messages, 2
attempts, so that a slow client is cut off and the hub restarts and goes down.
*quota*: 2 inbounds, quota 1, period 2, allowance 1, a term that is over or
starts at the first use, the clock up to 4 (both renewals an expired term would
ask for), 1 call or failed poll.

Deadlock is not checked: all calls made, all
edits used up and everything idle is a legal end.

Fairness. `TrafficWriter`: a spawned goroutine, a begun call and a begun stop
keep running; nobody is obliged to call anything. `XrayLifecycle`: the
watchdog's cron tick comes again and calls in progress go on; reading the
database and starting the process may fail repeatedly but not forever (strong
fairness). `NodeSync`: the 5-second tick comes again, a begun edit ends, a
tombstone expires, and a node or database asked again and again answers at
last (strong fairness on the reconcile's steps, the fetch and the merge).
`TunnelManager`: cron starts the job again, what was begun goes on, a waiter gets
`opMu` at last (Go's mutex hands over to a starving waiter). `EventBus`:
goroutines run and handlers return (their network calls have timeouts). `WsHub`:
the loop runs, a cancelled context is noticed, a pump keeps writing. `ClientQuota`:
time passes and the poll comes again; no edit is obliged to end. `NodeTraffic`,
`NodeAdoption`, `ClientIps`, `IpLimit` and `SyncOrphans` state safety only and no
fairness.
Under the fairness of `NodeSync` a node whose edits have ceased converges even after the situations in
`excuses`: master and node end up equal, possibly on the wrong content.

## 4. Where the code and its comments disagree

1. **Serialized** (`traffic_writer.go:115-121`): writes handed to
   `runSerializedTx` "can never execute concurrently" with the poll. While the
   writer drains after a cancel, `submitTrafficWrite` applies writes in the
   caller. `Server.stop` ends the writer before the HTTP server.
2. **PendingRestartConverges** (`xray.go:2423-2426`, `process.go:310-312`): the
   flag is consumed before RestartXray looks at it; with the database back at a
   stale snapshot nothing is done although the core serves something else.
3. **HeldBackIsTrue** (`xray.go:128-129`): only a full restart clears the
   reason shown on the status page.
4. **OverlapIsSafe** (`remote.go:540-544`): a reconcile holds no inbound lock;
   an edit inside it leaves a fingerprint that does not describe the node.
5. **RevertIsSafe** (`remote.go:540-544`): a stale fingerprint does not lead to
   a re-send when a second edit makes the wanted payload equal to it.
6. **TombstoneIsSafe** (`client_crud.go:926`): a merge between the tombstone and
   the failure of a delete finishes the deletion on the master; a later merge
   undoes it.

The newer modules meet situations of the same kind. They are excluded from the
properties by name, as above, and no run is spent on each:

- A renewal switches on a client the operator had switched off. The comment at
  `inbound_traffic.go:421-424` and `inbound_autorenew_shared_email_test.go:135`
  want such a client preserved and recognise it by a row that is still on, but
  `Update` and `BulkSetEnable` switch off the row as well.
- The reaper deletes a client that a merge or an operator attached after it had
  read it: "no later merge reclaimed" (`client_sync_orphan.go:45-46`) is tested
  once, before the writer (`late`). A client attached by hand keeps its mark
  until a merge sees it (`unseen`).
- A client switched off within the 100 ms of `disconnectClientTemporarily` is put
  back into the core (`check_client_ip_job.go:678-689`, `outrun`).
- `bannedSeen` moves before the log file is opened: if that fails the line is
  never written for that connection (`check_client_ip_job.go:542-551`).
- An Ensure that waited for `opMu` of a record a Remove deleted starts a process
  nobody finds again (`lucx/tunnel/manager.go:313`, `outrun`).
- An adoption can be recorded although the import was incomplete; the next
  reconcile then sweeps the rest (`hurried`).
- `setRemoteTrafficLocked` re-reads `config_dirty` on the writer
  (`inbound_node.go:485-488`) and the rows in a second statement (503-506), before
  its transaction begins. `DelInbound` is not on the writer (`inbound.go:1489`): a
  deletion that commits between the two is not seen as dirty and its row is not
  found, so the merge makes the row again (`inbound_node.go:743-767`,
  `overtaken`). The node is dirty by then, and the next reconcile pushes the
  inbound the operator deleted.

## 5. Proofs

The theorems hold for every value of the constants that satisfies the ASSUMEs
of the modules (a channel of at least one slot, `None` outside the other sets,
callers among the six, `Off` not a credential, a positive limit and grace
period, finitely many nodes, inbounds and addresses, bounds natural numbers).
Twelve modules are covered by eight modules of proofs; every safety property
that a passing run checks is a theorem.

**TrafficWriter_proofs.** `IInv` = `TypeOK`, `WriterInv` (the only writer that
lives is `cur`; it applies a request iff it is in an applying state; it drains
or has exited only after it was cancelled; once it has exited its channel is
empty), `LockInv` (a blocked call holds `mu`, and its writer is `cur` and not
cancelled), `QueueInv` (requests in channels are distinct, and whatever is
queued or being applied belongs to one call that waits for it) and `CallInv` (for each place of a call
how often it was applied and whether it was answered). `NeverAbandoned` needs
all of them: an accepted call is in a channel, being applied or answered, and a
writer exits only with its channel empty. `Refinement` maps each call to a stage
of `SerialWriter`; every action moves at most one call by one stage.

**XrayLifecycle_proofs.** `IInv` = `TypeOK`, `WatchdogInv` (what the miss
counter can be at each place of the watchdog), `OneRestart` (the lock),
`NotStopped` (nobody is past the manual-stop test while `manual` holds) and
`NoRefusedTeardown`, which is inductive with the lock because the snapshot
changes only under it. `ManualStopSticks` follows step by step from `NotStopped`.
`DriftIsKnown` speaks only of states in which every call has returned, so it
needs what holds before: `KnownIInv`, inductive on top of `IInv`. Its core is
`DriftInv`: a client the running core serves otherwise than the database says is
always somebody's. A restart is flagged, refused in the open, being made or owed
by a caller (`Carried`), the edit that caused it is still in flight, or the
difference is one of the two that `DriftIsKnown` excuses (`Settled`). A restart
that is being made settles a drift because the config it applies is the
database's but for changes made since (`FreshInv`).

**NodeSync_proofs.** `IInv` = `TypeOK`, `StampInv` (no tick holds a later stamp
than the row, an open edit has a stamp left) and, as long as `excuses` is empty,
`Sound`: `m = want`, a clean node equals the master, and for the edit, the
fingerprint and the tick what each may differ by. `MasterIntact` alone is not
inductive: a merge is harmless only because a snapshot fetched while the node is
clean equals the master (`JobInv`), which needs that a fingerprint equal to the
wanted payload proves the node's state (`FingerprintInv`), which fails exactly
in the excused situations.

**NodeTraffic_proofs.** `TrafficIInv` = the types, `RowInv` (no row, nothing
counted), `BalanceInv` (per node, credit and what the next merge will add are at
most what was used, and exactly that while the counter is steady), `SnapInv`
(how far a snapshot in hand may lag behind the counter) and `TxnInv` (what an
open transaction has added and the baseline it will store). `NeverOvercounts`
alone is not inductive: a merge is harmless because its snapshot is not ahead of
the counter and its baseline not behind what was already credited. `RowIsTheSum`
adds `RowSumIInv`: counters stay within the maximum (`CounterInv`), the row is the
clamped sum of the local usage and all credits (`SumInv`), and an open transaction
holds the row it read plus what it added, clamped once however often it clamps
(`OpenInv`). The sum over the nodes is a fold, and the prover has no induction
over data. Its lemmas take a smallest counterexample instead (`Least`, from the
well-foundedness of `<`): `SumsExist` (the fold's recursive definition has a
solution), `TotalMoves` (one summand more is that much more in the sum) and `SumIs`
(this is the sum of the property).

**NodeInbounds_proofs.** For `NodeAdoption`, `AdoptionIInv` = the types, `TickInv`
(a later edit keeps the node dirty; without one the row the tick read is the row
there is), `WaitInv` (what waits for its import is on the node, and no adopted row
manages it), `GoneInv` (a deleted inbound that the node still serves is managed only
while the node is dirty, a reconcile that may lower the flag has seen it, and a
merge that read the flag as clean either has its row among those it read, or does
not report it, or was overtaken by the deletion) and
`PromiseInv` (a created one: no such inbound exists while a merge that read the
flag as clean has the writer). Each of the three action properties is
about one step, the sweep or the merge; the invariant carries what that step relies
on across the calls since the tick began. For `SyncOrphans`, `OrphanIInv` = the
types, `MarkInv` (a mark that no attachment by hand met means that the client has
had no inbound for at least the age of the mark) and `ReaperInv` (what the reaper
read is still true, or `late`).

**Addresses_proofs.** For `ClientIps`, `IpsIInv` = the types of every copy in flight
(`EntryTypes`), `SeenInv` (each attribution, also one that a scan or a sync
holds, was observed by that panel) and `DroppedInv` (an address that was dropped
is, wherever a copy of it remains, too old to be accepted). Without the copies
held between a read and a write neither property is inductive. For `IpLimit` two
inductive invariants. `LimitIInv`: what the core knows follows the record or a
change on its way (`ChangeInv`), and while the job holds the client out it will put
it back (`RemovedInv`). `LogIInv`: times do not run ahead of the clock
(`TimeTypes`), and `bannedSeen` and the log agree apart from lost lines
(`BannedInv`), which is why no line is doubled.

**Messaging_proofs.** `BusIInv` = the types, `OrderInv` (for each worker, what it
handles, its queue and the channel are increasing end to end and bounded by what
was published, so the next event published is above all of them) and `StopInv` (once
Stop has begun the bus is marked stopped, once it has returned everything has
ended). `HubIInv` = the types,
`JoinInv` (a connection registers once, before anything is sent to it), `BufferInv`
(`NoGaps` in a form that a fan-out and a write keep) and `LeaveInv` (an Unregister
is behind its Register in the channel, unless a panic took either). `NoLeakedClient` alone is not inductive: a
Register taken after its Unregister would bring the client back.

**Services_proofs.** `TunnelIInv` = the types, `HoldInv` (a caller past `opMu` holds
the lock of its record), `TrackInv` (a process that runs, and one about to start,
is in the map or being removed) and `FileInv` (the file an Ensure wrote is the one
its process reads); the last two hold as long as no excuse was met. For
`ClientQuota`, `PaidIInv` = the types, `ClockInv` and `RenewalsPaid`, whose
arithmetic (a renewal moves the term by whole periods until it lies ahead) is in
the lemmas before it. `CopyIInv` adds `RestInv` (each inbound has one turn in a call)
and, unless `spoiled`, `Agree` between calls and `Between` inside one: there is a
value `b` that every copy had when the call began, and each copy is `b` or what the
call makes of it.

Only model-checked: all liveness (`EveryCallReturns EveryStopReturns WatchdogRevives
Converges TunnelConverges BusStopReturns StopClosesAll ExhaustedIsCutOff
RenewalArrives`), which is outside the prover's reach.

## 6. Plan

Done, in this order: the serial writer (everything else commits through it), the
core's lifecycle, the sync of one inbound with one node; then the traffic merge,
onboarding and sweep, the sidecar manager, event bus and hub, quota and renewal,
addresses and IP limit, orphaned clients. Next:

1. Proofs: an abstract specification of the node sync (what the operator wants,
   reached on the node) and the safety part of its refinement by `NodeSync`; the
   same for the event bus as a lossy ordered channel.
2. Composition of `NodeSync` with the edits AddTraffic makes on node inbounds.
3. Hot diff and port conflict as pure operators against reference definitions.
4. Login limiter, tunnel monitor and Discord gateway: one small state machine
   each.

## 7. Not modelled

The models cover the code in which several actors share state, about 7.4
thousand lines, 6 % of the implementation. Most of the rest has no
behaviour a state machine would say anything about:

- Text and formats: subscription rendering (`sub/`), share links, importers,
  parsers, generation of core and sidecar configs, certificates, notifications.
  These map one input to one output and keep no state; the repository tests them
  with examples.
- The user interface (`frontend/`), the install and update scripts, packaging.
- Storage: gorm models, `database/db.go` and its one-off migrations, settings
  with their defaults and validation. A transaction is an atomic step of a model.
- Request handlers that bind parameters and call a service. The service calls
  that change shared state are the actions of the models.
- Repetition: the other sidecar managers and jobs have the records, locks and
  reconcile of `TunnelManager`, and bulk create, attach, detach, adjust and
  delete have the read, transaction and push of a single edit.
- Cryptography, TLS, network transport, kernel routes and metrics.
- Not yet: tunnel monitor, Discord gateway, login limiter, port conflict check,
  heartbeat, online trees, the lifecycle lift of a merge.
