--------------------------- MODULE XrayLifecycle ---------------------------
(***************************************************************************)
(* The panel's hold on the local xray-core process: XrayService.RestartXray*)
(* and its callers (internal/web/service/xray.go), the process wrapper     *)
(* (internal/xray/process.go), the crash watchdog, the two polls that      *)
(* disable depleted clients, and the live client edits of                  *)
(* client_inbound_apply.go, which reach the core through its API without   *)
(* RestartXray.                                                            *)
(*                                                                         *)
(* A generated config has three parts here: what the core serves to each   *)
(* client (users), the sections without a reload API (static) and whether  *)
(* two of its inbounds bind one socket (clash).  Three copies of the users *)
(* exist and drift apart: db (the panel's database), snap (Process.config, *)
(* what change detection compares with) and core (what xray really runs).  *)
(***************************************************************************)
EXTENDS Naturals

CONSTANTS
    Users,       \* client emails of one local inbound
    Creds,       \* credentials a client may have
    Statics,     \* contents of the sections that need a restart
    Clashes,     \* {FALSE}, or BOOLEAN when the operator may save a bind conflict
    Callers,     \* who calls RestartXray
    DropRestart, \* the RestartXrayOnClientDisable setting
    Off          \* a client the config does not serve

\* watchdog: CheckXrayRunningJob; pending: ApplyPendingRestart; traffic and
\* nodesync: the polls that disable depleted clients; admin: the operator's
\* restart, which forces; saver: the template save, which does not.  Each job
\* has one run at a time (cron.SkipIfStillRunning).
AllCallers == {"watchdog", "pending", "traffic", "nodesync", "admin", "saver"}

ASSUME CallersAssumption == Callers \subseteq AllCallers
ASSUME OffAssumption == Off \notin Creds
ASSUME DropRestartAssumption == DropRestart \in BOOLEAN
ASSUME ClashAssumption == Clashes \subseteq BOOLEAN /\ FALSE \in Clashes

VARIABLES
    db,          \* the config GetXrayConfig would generate now
    up,          \* Process.IsRunning of the current process
    leaving,     \* Process.intentionalStop: Stop was called, perhaps in vain
    snap,        \* Process.GetConfig of the current process
    core,        \* the users the running core serves
    manual,      \* isManuallyStopped
    need,        \* isNeedXrayRestart
    held,        \* xrayLifecycle.heldBack # ""
    checkTime,   \* CheckXrayRunningJob.checkTime
    owed,        \* needRestart0 of XrayTrafficJob.Run
    pc,          \* where each caller of RestartXray is
    force,       \* the isForce argument of each call
    cfg,         \* the xrayConfig the holder of the lock generated
    edit,        \* the client edit in flight
    unowned      \* ghost: users whose last change raced with another one, or
                 \* whose failure was reported to nobody

proc  == <<up, leaving, snap>>
flags == <<manual, need, held>>
jobs  == <<checkTime, owed>>
calls == <<pc, force, cfg>>
vars  == <<db, proc, core, flags, jobs, calls, edit, unowned>>

InRestart == {"config", "decide", "hotRemove", "hotAdd", "stop", "start"}
CallerPC  == {"idle", "saved", "want", "rearm"} \cup InRestart
UserMap   == [Users -> Creds \cup {Off}]
Config    == [users : UserMap, static : Statics, clash : Clashes]
NoEdit    == [pc |-> "idle", user |-> Off, new |-> Off, need |-> FALSE]

\* startTask's RestartXray(true) has succeeded and nobody is served yet.
Init ==
    /\ db \in {[users |-> [u \in Users |-> Off], static |-> s, clash |-> FALSE] : s \in Statics}
    /\ up = TRUE
    /\ leaving = FALSE
    /\ snap = db
    /\ core = db.users
    /\ manual = FALSE
    /\ need = FALSE
    /\ held = FALSE
    /\ checkTime = 0
    /\ owed = FALSE
    /\ pc = [c \in Callers |-> "idle"]
    /\ force = [c \in Callers |-> FALSE]
    /\ cfg = db
    /\ edit = NoEdit
    /\ unowned = {}

\* The package-level mutex `lock` is held by the caller inside RestartXray.
LockFree == \A c \in Callers : pc[c] \notin InRestart

\* A config read from the database earlier is still being applied.
BeingApplied == \E c \in Callers : pc[c] \in InRestart \ {"config"}

EditInFlight(u) == edit.pc # "idle" /\ edit.user = u

(***************************************************************************)
(* A client edit (AddInboundClient, UpdateInboundClient,                   *)
(* DelInboundClientByEmail on a local Xray inbound), serialized by         *)
(* lockInbound: commit, then RemoveUser/AddUser on the running core, then  *)
(* the controller's SetToNeedRestart when the live part did not do.        *)
(***************************************************************************)

EditCommit(u, new) ==
    /\ edit.pc = "idle"
    /\ new # db.users[u]
    /\ db' = [db EXCEPT !.users[u] = new]
    /\ edit' = [pc |-> IF db.users[u] # Off THEN "remove" ELSE "add",
                user |-> u, new |-> new, need |-> FALSE]
    /\ unowned' = IF BeingApplied THEN unowned \cup {u} ELSE unowned
    /\ UNCHANGED <<proc, core, flags, jobs, calls>>

\* What follows a live call: the add, then the flag if any call asked for it.
AfterLive(asks) ==
    LET n == edit.need \/ asks IN
    edit' = CASE edit.pc = "remove" /\ edit.new # Off -> [edit EXCEPT !.pc = "add", !.need = n]
              [] ~(edit.pc = "remove" /\ edit.new # Off) /\ n -> [edit EXCEPT !.pc = "flag", !.need = n]
              [] OTHER -> NoEdit

\* RemoveUser on a running core: done, or "not found".  A client that leaves
\* asks for a restart when the setting wants its sessions dropped.
LiveRemoveOK ==
    /\ edit.pc = "remove"
    /\ up
    /\ core' = [core EXCEPT ![edit.user] = Off]
    /\ AfterLive(edit.new = Off /\ DropRestart /\ core[edit.user] # Off)
    /\ UNCHANGED <<db, proc, flags, jobs, calls, unowned>>

\* AddUser succeeds only when the email is not in the core yet.
LiveAddOK ==
    /\ edit.pc = "add"
    /\ up
    /\ core[edit.user] = Off
    /\ core' = [core EXCEPT ![edit.user] = edit.new]
    /\ AfterLive(FALSE)
    /\ UNCHANGED <<db, proc, flags, jobs, calls, unowned>>

\* The core is down, the API call fails, or AddUser finds the email taken.
LiveFails ==
    /\ edit.pc \in {"remove", "add"}
    /\ AfterLive(TRUE)
    /\ UNCHANGED <<db, proc, core, flags, jobs, calls, unowned>>

SetToNeedRestart ==
    /\ edit.pc = "flag"
    /\ need' = TRUE
    /\ edit' = NoEdit
    /\ UNCHANGED <<db, proc, core, manual, held, jobs, calls, unowned>>

(***************************************************************************)
(* AddTraffic's lifecycle maintenance, on the serial writer: a depleted    *)
(* client is disabled, a renewed one enabled, then the core is told.  ok   *)
(* is FALSE when that call failed and AddTraffic reports needRestart.      *)
(***************************************************************************)

AddTraffic(u, new, ok) ==
    /\ (new = Off) # (db.users[u] = Off)
    /\ ok => up /\ (new # Off => core[u] = Off)
    /\ db' = [db EXCEPT !.users[u] = new]
    /\ core' = IF ok THEN [core EXCEPT ![u] = new] ELSE core

(***************************************************************************)
(* The callers of RestartXray.                                             *)
(***************************************************************************)

Idle(c) == c \in Callers /\ pc[c] = "idle"

GoTo(c, place) == pc' = [pc EXCEPT ![c] = place]

Call(c, isForce) ==
    /\ GoTo(c, "want")
    /\ force' = [force EXCEPT ![c] = isForce]

\* Faulty variant: the counter never gets past the first miss.
WatchdogTickForgets ==
    /\ Idle("watchdog")
    /\ checkTime' = IF up \/ manual THEN 0 ELSE 1
    /\ UNCHANGED <<db, proc, core, flags, owed, calls, edit, unowned>>

\* CheckXrayRunningJob.Run, up to its call of RestartXray(false): DidXrayCrash
\* is read without the lock, and only the second miss in a row counts.
WatchdogTick ==
    /\ Idle("watchdog")
    /\ IF up \/ manual
       THEN checkTime' = 0 /\ UNCHANGED <<pc, force>>
       ELSE /\ checkTime' = checkTime + 1
            /\ IF checkTime' > 1 THEN Call("watchdog", FALSE) ELSE UNCHANGED <<pc, force>>
    /\ UNCHANGED <<db, proc, core, flags, owed, cfg, edit, unowned>>

\* ApplyPendingRestart: the flag is consumed before RestartXray(false) is called.
PendingTick ==
    /\ Idle("pending")
    /\ need
    /\ need' = FALSE
    /\ Call("pending", FALSE)
    /\ UNCHANGED <<db, proc, core, manual, held, jobs, cfg, edit, unowned>>

\* XrayTrafficJob.Run: with the setting on, a disabled client is followed by
\* RestartXray(false); needRestart0 is looked at only after that.
TrafficPoll(u, new, ok) ==
    /\ Idle("traffic")
    /\ up
    /\ AddTraffic(u, new, ok)
    /\ IF DropRestart /\ new = Off
       THEN Call("traffic", FALSE) /\ owed' = ~ok
       ELSE GoTo("traffic", IF ok THEN "idle" ELSE "rearm") /\ UNCHANGED <<force, owed>>
    /\ unowned' = IF BeingApplied \/ EditInFlight(u) THEN unowned \cup {u} ELSE unowned
    /\ UNCHANGED <<proc, flags, checkTime, cfg, edit>>

\* NodeTrafficSyncJob.Run: AddTraffic's needRestart is dropped, and the restart
\* the setting asks for is a forced one.
NodeSyncPoll(u, new, ok) ==
    /\ Idle("nodesync")
    /\ AddTraffic(u, new, ok)
    /\ IF DropRestart /\ new = Off THEN Call("nodesync", TRUE) ELSE UNCHANGED <<pc, force>>
    /\ unowned' = IF BeingApplied \/ EditInFlight(u) \/ ~ok THEN unowned \cup {u} ELSE unowned
    /\ UNCHANGED <<proc, flags, jobs, cfg, edit>>

\* The SetToNeedRestart of ApplyPendingRestart and of the polls.
Rearm(c) ==
    /\ pc[c] = "rearm"
    /\ need' = TRUE
    /\ GoTo(c, "idle")
    /\ UNCHANGED <<db, proc, core, manual, held, jobs, force, cfg, edit, unowned>>

AdminRestart ==
    /\ Idle("admin")
    /\ Call("admin", TRUE)
    /\ UNCHANGED <<db, proc, core, flags, jobs, cfg, edit, unowned>>

\* XraySettingController.updateSetting: save the template, then reconcile a
\* running core; an error goes to the operator and is not retried.
SaveSetting(s, b) ==
    /\ Idle("saver")
    /\ <<s, b>> # <<db.static, db.clash>>
    /\ db' = [db EXCEPT !.static = s, !.clash = b]
    /\ GoTo("saver", "saved")
    /\ UNCHANGED <<proc, core, flags, jobs, force, cfg, edit, unowned>>

SaveApply ==
    /\ "saver" \in Callers
    /\ pc["saver"] = "saved"
    /\ IF up THEN Call("saver", FALSE) ELSE GoTo("saver", "idle") /\ UNCHANGED force
    /\ UNCHANGED <<db, proc, core, flags, jobs, cfg, edit, unowned>>

(***************************************************************************)
(* RestartXray.                                                            *)
(***************************************************************************)

\* Faulty variant: the pending restart's error is logged and forgotten.
ReturnForgetsError(c, failed) ==
    /\ GoTo(c, IF \/ failed /\ c \in {"traffic", "nodesync"}
                  \/ owed /\ c = "traffic"
               THEN "rearm" ELSE "idle")
    /\ checkTime' = IF c = "watchdog" THEN 0 ELSE checkTime
    /\ owed' = IF c = "traffic" THEN FALSE ELSE owed

\* Faulty variant: the watchdog does not start counting anew.
ReturnKeepsCounting(c, failed) ==
    /\ GoTo(c, IF \/ failed /\ c \in {"pending", "traffic", "nodesync"}
                  \/ owed /\ c = "traffic"
               THEN "rearm" ELSE "idle")
    /\ owed' = IF c = "traffic" THEN FALSE ELSE owed
    /\ UNCHANGED checkTime

\* A call returns, releasing the lock, and its caller looks at the error.
Return(c, failed) ==
    /\ GoTo(c, IF \/ failed /\ c \in {"pending", "traffic", "nodesync"}
                  \/ owed /\ c = "traffic"
               THEN "rearm" ELSE "idle")
    /\ checkTime' = IF c = "watchdog" THEN 0 ELSE checkTime
    /\ owed' = IF c = "traffic" THEN FALSE ELSE owed

\* The manual-stop test, under the lock.
RestartBegin(c) ==
    /\ pc[c] = "want"
    /\ LockFree
    /\ IF ~force[c] /\ manual
       THEN Return(c, FALSE) /\ UNCHANGED manual
       ELSE GoTo(c, "config") /\ manual' = FALSE /\ UNCHANGED jobs
    /\ UNCHANGED <<db, proc, core, need, held, force, cfg, edit, unowned>>

\* GetXrayConfig: AddTraffic(nil, nil) first, its results ignored, then the read.
ReadConfig(c) ==
    /\ pc[c] = "config"
    /\ \/ UNCHANGED <<db, core>> /\ unowned' = {}
       \/ \E u \in Users, new \in Creds \cup {Off}, ok \in BOOLEAN :
            /\ AddTraffic(u, new, ok)
            /\ unowned' = {v \in {u} : EditInFlight(v)}
    /\ cfg' = db'
    /\ GoTo(c, "decide")
    /\ UNCHANGED <<proc, flags, jobs, force, edit>>

ReadConfigFails(c) ==
    /\ pc[c] = "config"
    /\ \/ UNCHANGED <<db, core, unowned>>
       \/ \E u \in Users, new \in Creds \cup {Off}, ok \in BOOLEAN :
            /\ AddTraffic(u, new, ok)
            /\ unowned' = unowned \cup {u}
    /\ Return(c, TRUE)
    /\ UNCHANGED <<proc, flags, force, cfg, edit>>

\* bindConflicts: a clash the running config already serves is excused.
BindConflict == cfg.clash /\ ~snap.clash

NoRestartNeeded(c) == ~force[c] /\ cfg = snap /\ ~need

\* restartToDropClients: a client leaves the config and the setting is on.
DropsUsers == \E u \in Users : snap.users[u] # Off /\ cfg.users[u] = Off

\* ComputeHotDiff succeeds and its diff may be applied through the API.
HotApplicable == cfg.static = snap.static /\ ~(DropRestart /\ DropsUsers)

\* The process is down: start one, whatever the config.
DecideStart(c) ==
    /\ pc[c] = "decide"
    /\ ~up
    /\ GoTo(c, "start")
    /\ UNCHANGED <<db, proc, core, flags, jobs, force, cfg, edit, unowned>>

DecideNothing(c) ==
    /\ pc[c] = "decide"
    /\ up
    /\ NoRestartNeeded(c)
    /\ Return(c, FALSE)
    /\ UNCHANGED <<db, proc, core, flags, force, cfg, edit, unowned>>

\* "config refused", before anything is stopped; the status page is told.
DecideRefuse(c) ==
    /\ pc[c] = "decide"
    /\ up
    /\ ~NoRestartNeeded(c)
    /\ BindConflict
    /\ held' = TRUE
    /\ Return(c, TRUE)
    /\ UNCHANGED <<db, proc, core, manual, need, force, cfg, edit, unowned>>

\* Faulty variant: a forced restart is not checked.
DecideApplyForced(c) ==
    /\ pc[c] = "decide"
    /\ up
    /\ ~NoRestartNeeded(c)
    /\ BindConflict => force[c]
    /\ GoTo(c, IF ~force[c] /\ cfg # snap /\ HotApplicable THEN "hotRemove" ELSE "stop")
    /\ UNCHANGED <<db, proc, core, flags, jobs, force, cfg, edit, unowned>>

DecideApply(c) ==
    /\ pc[c] = "decide"
    /\ up
    /\ ~NoRestartNeeded(c)
    /\ ~BindConflict
    /\ GoTo(c, IF ~force[c] /\ cfg # snap /\ HotApplicable THEN "hotRemove" ELSE "stop")
    /\ UNCHANGED <<db, proc, core, flags, jobs, force, cfg, edit, unowned>>

\* tryHotApply: removals first, then additions (each replacing a user the core
\* already has), then SetConfig.  The diff is computed from snap, not from core.
HotChanged == {u \in Users : snap.users[u] # cfg.users[u]}

HotRemove(c) ==
    /\ pc[c] = "hotRemove"
    /\ up
    /\ core' = [u \in Users |->
                  IF u \in HotChanged /\ snap.users[u] # Off THEN Off ELSE core[u]]
    /\ GoTo(c, "hotAdd")
    /\ UNCHANGED <<db, proc, flags, jobs, force, cfg, edit, unowned>>

HotAdd(c) ==
    /\ pc[c] = "hotAdd"
    /\ up
    /\ core' = [u \in Users |->
                  IF u \in HotChanged /\ cfg.users[u] # Off THEN cfg.users[u] ELSE core[u]]
    /\ snap' = cfg
    /\ Return(c, FALSE)
    /\ UNCHANGED <<db, up, leaving, flags, force, cfg, edit, unowned>>

\* Any API error falls back to the full restart.
HotFails(c) ==
    /\ pc[c] \in {"hotRemove", "hotAdd"}
    /\ GoTo(c, "stop")
    /\ UNCHANGED <<db, proc, core, flags, jobs, force, cfg, edit, unowned>>

\* process.Stop, its error ignored: the process is no longer the current one.
StopProcess(c) ==
    /\ pc[c] = "stop"
    /\ up' = FALSE
    /\ leaving' = TRUE
    /\ GoTo(c, "start")
    /\ UNCHANGED <<db, snap, core, flags, jobs, force, cfg, edit, unowned>>

\* NewProcess and xrayState.replace, which forgets why a config was held back.
NewProcess(isUp) ==
    /\ up' = isUp
    /\ leaving' = FALSE
    /\ snap' = cfg
    /\ held' = FALSE

StartProcess(c) ==
    /\ pc[c] = "start"
    /\ NewProcess(TRUE)
    /\ core' = cfg.users
    /\ Return(c, FALSE)
    /\ UNCHANGED <<db, manual, need, force, cfg, edit, unowned>>

StartFails(c) ==
    /\ pc[c] = "start"
    /\ NewProcess(FALSE)
    /\ Return(c, TRUE)
    /\ UNCHANGED <<db, core, manual, need, force, cfg, edit, unowned>>

(***************************************************************************)
(* StopXray, and what the core does on its own.                            *)
(***************************************************************************)

\* Faulty variant: the stop does not wait for a restart in progress.
StopXrayUnlocked ==
    /\ manual' = TRUE
    /\ up' \in {FALSE, up}
    /\ leaving' = (leaving \/ up)
    /\ UNCHANGED <<db, snap, core, need, held, jobs, calls, edit, unowned>>

\* The flag is set whether or not the process stops.
StopXray ==
    /\ LockFree
    /\ manual' = TRUE
    /\ up' \in {FALSE, up}
    /\ leaving' = (leaving \/ up)
    /\ UNCHANGED <<db, snap, core, need, held, jobs, calls, edit, unowned>>

\* The process exits by itself: an unbindable config, a fault, a late SIGTERM.
Crash ==
    /\ up
    /\ up' = FALSE
    /\ UNCHANGED <<db, leaving, snap, core, flags, jobs, calls, edit, unowned>>

-----------------------------------------------------------------------------

LiveStep == LiveRemoveOK \/ LiveAddOK \/ LiveFails \/ SetToNeedRestart

RestartStep(c) ==
    \/ RestartBegin(c) \/ ReadConfig(c) \/ ReadConfigFails(c)
    \/ DecideStart(c) \/ DecideNothing(c) \/ DecideRefuse(c) \/ DecideApply(c)
    \/ HotRemove(c) \/ HotAdd(c) \/ HotFails(c)
    \/ StopProcess(c) \/ StartProcess(c) \/ StartFails(c)
    \/ Rearm(c)

Next ==
    \/ \E u \in Users, new \in Creds \cup {Off} : EditCommit(u, new)
    \/ LiveStep
    \/ WatchdogTick \/ PendingTick \/ AdminRestart
    \/ \E u \in Users, new \in Creds \cup {Off}, ok \in BOOLEAN :
          TrafficPoll(u, new, ok) \/ NodeSyncPoll(u, new, ok)
    \/ \E s \in Statics, b \in Clashes : SaveSetting(s, b)
    \/ SaveApply
    \/ \E c \in Callers : RestartStep(c)
    \/ StopXray \/ Crash

Spec == Init /\ [][Next]_vars

\* Cron ticks keep coming and a call in progress goes on.  Reading the database
\* and starting the process may fail any number of times, but not forever.
Fairness ==
    /\ WF_vars(WatchdogTick)
    /\ \A c \in Callers : WF_vars(RestartStep(c))
    /\ \A c \in Callers : SF_vars(ReadConfig(c)) /\ SF_vars(StartProcess(c))

FairSpec == Spec /\ Fairness

-----------------------------------------------------------------------------

TypeOK ==
    /\ db \in Config /\ snap \in Config /\ cfg \in Config
    /\ core \in UserMap
    /\ up \in BOOLEAN /\ leaving \in BOOLEAN
    /\ manual \in BOOLEAN /\ need \in BOOLEAN /\ held \in BOOLEAN
    /\ checkTime \in 0..2
    /\ owed \in BOOLEAN
    /\ pc \in [Callers -> CallerPC]
    /\ force \in [Callers -> BOOLEAN]
    /\ edit \in [pc : {"idle", "remove", "add", "flag"}, user : Users \cup {Off},
                 new : Creds \cup {Off}, need : BOOLEAN]
    /\ unowned \subseteq Users

\* RestartXray's lock: at most one caller is between its Lock and its Unlock.
OneRestart ==
    \A c, d \in Callers : (pc[c] \in InRestart /\ pc[d] \in InRestart) => c = d

\* No edit, poll or RestartXray is under way.
Quiet == edit.pc = "idle" /\ \A c \in Callers : pc[c] = "idle"

\* A stop the operator asked for is not undone by a tick, a poll or a save that
\* was already under way: only a forced call ends it (StopXray, RestartXray).
ManualStopSticks ==
    [][manual => /\ up' => up
                 /\ ~manual' => \E c \in Callers : pc[c] = "want" /\ force[c]]_vars

\* "A config the core cannot bind never replaces one that works" (RestartXray):
\* whoever goes on to stop a running core brings no clash it does not have.
NoRefusedTeardown ==
    \A c \in Callers : pc[c] \in {"hotRemove", "hotAdd", "stop"} /\ up => ~BindConflict

\* A running core that serves a client something else than the database says is
\* known to the panel, unless the snapshot hides it or two changes overlapped:
\* the flag is set or the refusal is shown.  leaving: a core that survived Stop.
DriftIsKnown ==
    Quiet /\ up /\ ~leaving =>
        \A u \in Users : core[u] # db.users[u] =>
            need \/ held \/ u \in unowned \/ snap.users[u] = db.users[u]

\* The watchdog brings a crashed core back unless the operator stopped it.
WatchdogRevives == (~up /\ ~manual) ~> (up \/ manual)

\* What ApplyPendingRestart and SetConfig promise: with the request consumed and
\* nothing racing, the running core serves what the database says.  False when
\* a live edit left the snapshot stale.
PendingRestartConverges ==
    Quiet /\ up /\ ~leaving /\ ~need /\ ~held /\ unowned = {} => core = db.users

\* GetHeldBackConfig says "" when the pending config was applied.  False: only
\* a full restart clears the reason.
HeldBackIsTrue == Quiet /\ up /\ cfg = db /\ snap = db => ~held
=============================================================================
