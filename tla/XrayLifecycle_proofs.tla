----------------------- MODULE XrayLifecycle_proofs -----------------------
(***************************************************************************)
(* Proofs about XrayLifecycle for any clients, credentials, static         *)
(* sections and set of callers.  All results rest on the mutex of          *)
(* RestartXray: one caller is inside at a time (OneRestart), it has found  *)
(* or made the manual-stop flag down (NotStopped), and nobody else touches *)
(* the config it generated or the snapshot it compared it with.  On top of *)
(* that, KnownIInv follows every drift of the core from the database to    *)
(* the flag, the caller or the edit that will report it.                   *)
(***************************************************************************)
EXTENDS XrayLifecycle, TLAPS

\* Whoever is inside RestartXray passed the manual-stop test, and StopXray waits.
NotStopped == \A c \in Callers : pc[c] \in InRestart => ~manual

\* The watchdog's counter starts anew with every RestartXray it asked for.
WatchdogInv ==
    "watchdog" \in Callers =>
        /\ pc["watchdog"] # "rearm"
        /\ pc["watchdog"] # "saved"
        /\ pc["watchdog"] = "idle" => checkTime \in 0..1

IInv == TypeOK /\ WatchdogInv /\ OneRestart /\ NotStopped /\ NoRefusedTeardown

-----------------------------------------------------------------------------

\* A client's change leaves a config a config (EditCommit, AddTraffic).
LEMMA ConfigEdit ==
    ASSUME NEW d \in Config, NEW u \in Users, NEW new \in Creds \cup {Off}
    PROVE  [d EXCEPT !.users[u] = new] \in Config
  BY DEF Config, UserMap

\* AddTraffic keeps the types of the database and of the core.
LEMMA AddTrafficType ==
    ASSUME TypeOK, NEW u \in Users, NEW new \in Creds \cup {Off}, NEW ok \in BOOLEAN,
           AddTraffic(u, new, ok)
    PROVE  db' \in Config /\ core' \in UserMap
  <1>1. db' \in Config BY ConfigEdit DEF TypeOK, AddTraffic
  <1>2. core' \in UserMap BY DEF TypeOK, AddTraffic, UserMap
  <1> QED BY <1>1, <1>2

\* The edit in flight stays one through its live calls (AfterLive).
LEMMA AfterLiveType ==
    ASSUME TypeOK, edit.pc \in {"remove", "add"}, NEW asks \in BOOLEAN, AfterLive(asks)
    PROVE  edit' \in [pc : {"idle", "remove", "add", "flag"}, user : Users \cup {Off},
                     new : Creds \cup {Off}, need : BOOLEAN]
  <1>1. (edit.need \/ asks) \in BOOLEAN BY DEF TypeOK
  <1> QED BY <1>1 DEF TypeOK, AfterLive, NoEdit

\* RestartXray returns: its caller is outside the lock, the watchdog idle with
\* its counter at zero, and no other caller has moved.
LEMMA ReturnFacts ==
    ASSUME TypeOK, NEW c \in Callers, NEW failed \in BOOLEAN, Return(c, failed)
    PROVE  /\ pc' \in [Callers -> CallerPC]
           /\ checkTime' \in 0..2
           /\ owed' \in BOOLEAN
           /\ pc'[c] \in {"idle", "rearm"}
           /\ \A d \in Callers \ {c} : pc'[d] = pc[d]
           /\ c = "watchdog" => pc'[c] = "idle" /\ checkTime' = 0
           /\ c # "watchdog" => checkTime' = checkTime
  <1>1. /\ pc' \in [Callers -> CallerPC]
        /\ pc'[c] \in {"idle", "rearm"}
        /\ \A d \in Callers \ {c} : pc'[d] = pc[d]
    BY DEF TypeOK, Return, GoTo, CallerPC
  <1>2. c = "watchdog" => pc'[c] = "idle" BY DEF TypeOK, Return, GoTo
  <1>3. /\ c = "watchdog" => checkTime' = 0
        /\ c # "watchdog" => checkTime' = checkTime
    BY DEF Return
  <1>4. checkTime' \in 0..2 BY <1>3 DEF TypeOK
  <1>5. owed' \in BOOLEAN BY DEF TypeOK, Return
  <1> QED BY <1>1, <1>2, <1>3, <1>4, <1>5

\* A RestartXray that returns leaves the watchdog counting from zero.
LEMMA ReturnWatchdog ==
    ASSUME TypeOK, WatchdogInv, NEW c \in Callers, NEW failed \in BOOLEAN, Return(c, failed)
    PROVE  WatchdogInv'
  <1>1. CASE c = "watchdog"
    <2>1. pc'["watchdog"] = "idle" /\ checkTime' = 0 BY <1>1, ReturnFacts
    <2> QED BY <2>1 DEF WatchdogInv
  <1>2. CASE c # "watchdog"
    <2>1. checkTime' = checkTime /\ ("watchdog" \in Callers => pc'["watchdog"] = pc["watchdog"])
      BY <1>2, ReturnFacts
    <2> QED BY <2>1 DEF WatchdogInv
  <1> QED BY <1>1, <1>2

-----------------------------------------------------------------------------
(***************************************************************************)
(* Every step keeps IInv.                                                  *)
(***************************************************************************)

\* A client edit commits (AddInboundClient and its like).
LEMMA EditCommitKeeps ==
    ASSUME IInv, NEW u \in Users, NEW new \in Creds \cup {Off}, EditCommit(u, new) PROVE IInv'
  <1> USE DEF IInv, EditCommit, BeingApplied, proc, flags, jobs, calls
  <1>1. TypeOK' BY ConfigEdit DEF TypeOK
  <1>2. WatchdogInv' BY DEF WatchdogInv, TypeOK, InRestart
  <1>3. OneRestart' BY DEF OneRestart, TypeOK, InRestart
  <1>4. NotStopped' BY DEF NotStopped, TypeOK, InRestart
  <1>5. NoRefusedTeardown' BY DEF NoRefusedTeardown, BindConflict, OneRestart, TypeOK, InRestart
  <1> QED BY <1>1, <1>2, <1>3, <1>4, <1>5

\* RemoveUser on the running core.
LEMMA LiveRemoveOKKeeps ==
    ASSUME IInv, LiveRemoveOK PROVE IInv'
  <1> USE DEF IInv, LiveRemoveOK, proc, flags, jobs, calls
  <1>1. TypeOK'
    <2>1. core' \in UserMap BY DEF TypeOK, UserMap
    <2>2. (edit.new = Off /\ DropRestart /\ core[edit.user] # Off) \in BOOLEAN OBVIOUS
    <2> QED BY <2>1, <2>2, AfterLiveType DEF TypeOK
  <1>2. WatchdogInv' BY DEF WatchdogInv, TypeOK, InRestart
  <1>3. OneRestart' BY DEF OneRestart, TypeOK, InRestart
  <1>4. NotStopped' BY DEF NotStopped, TypeOK, InRestart
  <1>5. NoRefusedTeardown' BY DEF NoRefusedTeardown, BindConflict, OneRestart, TypeOK, InRestart
  <1> QED BY <1>1, <1>2, <1>3, <1>4, <1>5

\* AddUser on the running core.
LEMMA LiveAddOKKeeps ==
    ASSUME IInv, LiveAddOK PROVE IInv'
  <1> USE DEF IInv, LiveAddOK, proc, flags, jobs, calls
  <1>1. TypeOK'
    <2>1. core' \in UserMap BY DEF TypeOK, UserMap
    <2> QED BY <2>1, AfterLiveType DEF TypeOK
  <1>2. WatchdogInv' BY DEF WatchdogInv, TypeOK, InRestart
  <1>3. OneRestart' BY DEF OneRestart, TypeOK, InRestart
  <1>4. NotStopped' BY DEF NotStopped, TypeOK, InRestart
  <1>5. NoRefusedTeardown' BY DEF NoRefusedTeardown, BindConflict, OneRestart, TypeOK, InRestart
  <1> QED BY <1>1, <1>2, <1>3, <1>4, <1>5

\* A live call fails.
LEMMA LiveFailsKeeps ==
    ASSUME IInv, LiveFails PROVE IInv'
  <1> USE DEF IInv, LiveFails, proc, flags, jobs, calls
  <1>1. TypeOK' BY AfterLiveType DEF TypeOK
  <1>2. WatchdogInv' BY DEF WatchdogInv, TypeOK, InRestart
  <1>3. OneRestart' BY DEF OneRestart, TypeOK, InRestart
  <1>4. NotStopped' BY DEF NotStopped, TypeOK, InRestart
  <1>5. NoRefusedTeardown' BY DEF NoRefusedTeardown, BindConflict, OneRestart, TypeOK, InRestart
  <1> QED BY <1>1, <1>2, <1>3, <1>4, <1>5

\* SetToNeedRestart after a client edit.
LEMMA SetToNeedRestartKeeps ==
    ASSUME IInv, SetToNeedRestart PROVE IInv'
  <1> USE DEF IInv, SetToNeedRestart, NoEdit, proc, flags, jobs, calls
  <1>1. TypeOK' BY DEF TypeOK
  <1>2. WatchdogInv' BY DEF WatchdogInv, TypeOK, InRestart
  <1>3. OneRestart' BY DEF OneRestart, TypeOK, InRestart
  <1>4. NotStopped' BY DEF NotStopped, TypeOK, InRestart
  <1>5. NoRefusedTeardown' BY DEF NoRefusedTeardown, BindConflict, OneRestart, TypeOK, InRestart
  <1> QED BY <1>1, <1>2, <1>3, <1>4, <1>5

\* A tick of CheckXrayRunningJob: it counts only from idle.
LEMMA WatchdogTickKeeps ==
    ASSUME IInv, WatchdogTick PROVE IInv'
  <1> USE DEF IInv, WatchdogTick, Idle, Call, GoTo, proc, flags, jobs, calls
  <1>1. TypeOK'
    <2>1. checkTime' \in 0..2 BY DEF TypeOK, WatchdogInv
    <2>2. pc' \in [Callers -> CallerPC] BY DEF TypeOK, CallerPC
    <2>3. force' \in [Callers -> BOOLEAN] BY DEF TypeOK
    <2> QED BY <2>1, <2>2, <2>3 DEF TypeOK
  <1>2. WatchdogInv' BY DEF WatchdogInv, TypeOK, InRestart
  <1>3. OneRestart' BY DEF OneRestart, TypeOK, InRestart
  <1>4. NotStopped' BY DEF NotStopped, TypeOK, InRestart
  <1>5. NoRefusedTeardown' BY DEF NoRefusedTeardown, BindConflict, OneRestart, TypeOK, InRestart
  <1> QED BY <1>1, <1>2, <1>3, <1>4, <1>5

\* ApplyPendingRestart consumes the flag.
LEMMA PendingTickKeeps ==
    ASSUME IInv, PendingTick PROVE IInv'
  <1> USE DEF IInv, PendingTick, Idle, Call, GoTo, proc, flags, jobs, calls
  <1>1. TypeOK' BY DEF TypeOK, CallerPC, InRestart
  <1>2. WatchdogInv' BY DEF WatchdogInv, TypeOK, InRestart
  <1>3. OneRestart' BY DEF OneRestart, TypeOK, InRestart
  <1>4. NotStopped' BY DEF NotStopped, TypeOK, InRestart
  <1>5. NoRefusedTeardown' BY DEF NoRefusedTeardown, BindConflict, OneRestart, TypeOK, InRestart
  <1> QED BY <1>1, <1>2, <1>3, <1>4, <1>5

\* XrayTrafficJob.Run disables or renews a client.
LEMMA TrafficPollKeeps ==
    ASSUME IInv, NEW u \in Users, NEW new \in Creds \cup {Off}, NEW ok \in BOOLEAN, TrafficPoll(u, new, ok) PROVE IInv'
  <1> USE DEF IInv, TrafficPoll, Idle, Call, GoTo, proc, flags, jobs, calls
  <1>1. TypeOK'
    <2>1. db' \in Config /\ core' \in UserMap BY AddTrafficType
    <2>2. pc' \in [Callers -> CallerPC] BY DEF TypeOK, CallerPC
    <2>3. force' \in [Callers -> BOOLEAN] /\ owed' \in BOOLEAN BY DEF TypeOK
    <2>4. unowned' \subseteq Users BY DEF TypeOK
    <2> QED BY <2>1, <2>2, <2>3, <2>4 DEF TypeOK
  <1>2. WatchdogInv' BY DEF WatchdogInv, TypeOK, InRestart
  <1>3. OneRestart' BY DEF OneRestart, TypeOK, InRestart
  <1>4. NotStopped' BY DEF NotStopped, TypeOK, InRestart
  <1>5. NoRefusedTeardown' BY DEF NoRefusedTeardown, BindConflict, OneRestart, TypeOK, InRestart
  <1> QED BY <1>1, <1>2, <1>3, <1>4, <1>5

\* NodeTrafficSyncJob.Run disables or renews a client.
LEMMA NodeSyncPollKeeps ==
    ASSUME IInv, NEW u \in Users, NEW new \in Creds \cup {Off}, NEW ok \in BOOLEAN, NodeSyncPoll(u, new, ok) PROVE IInv'
  <1> USE DEF IInv, NodeSyncPoll, Idle, Call, GoTo, proc, flags, jobs, calls
  <1>1. TypeOK'
    <2>1. db' \in Config /\ core' \in UserMap BY AddTrafficType
    <2>2. pc' \in [Callers -> CallerPC] BY DEF TypeOK, CallerPC
    <2>3. force' \in [Callers -> BOOLEAN] BY DEF TypeOK
    <2>4. unowned' \subseteq Users BY DEF TypeOK
    <2> QED BY <2>1, <2>2, <2>3, <2>4 DEF TypeOK
  <1>2. WatchdogInv' BY DEF WatchdogInv, TypeOK, InRestart
  <1>3. OneRestart' BY DEF OneRestart, TypeOK, InRestart
  <1>4. NotStopped' BY DEF NotStopped, TypeOK, InRestart
  <1>5. NoRefusedTeardown' BY DEF NoRefusedTeardown, BindConflict, OneRestart, TypeOK, InRestart
  <1> QED BY <1>1, <1>2, <1>3, <1>4, <1>5

\* A failed restart is asked for again.
LEMMA RearmKeeps ==
    ASSUME IInv, NEW c \in Callers, Rearm(c) PROVE IInv'
  <1> USE DEF IInv, Rearm, GoTo, proc, flags, jobs, calls
  <1>1. TypeOK' BY DEF TypeOK, CallerPC, InRestart
  <1>2. WatchdogInv' BY DEF WatchdogInv, TypeOK, InRestart
  <1>3. OneRestart' BY DEF OneRestart, TypeOK, InRestart
  <1>4. NotStopped' BY DEF NotStopped, TypeOK, InRestart
  <1>5. NoRefusedTeardown' BY DEF NoRefusedTeardown, BindConflict, OneRestart, TypeOK, InRestart
  <1> QED BY <1>1, <1>2, <1>3, <1>4, <1>5

\* The operator asks for a forced restart.
LEMMA AdminRestartKeeps ==
    ASSUME IInv, AdminRestart PROVE IInv'
  <1> USE DEF IInv, AdminRestart, Idle, Call, GoTo, proc, flags, jobs, calls
  <1>1. TypeOK' BY DEF TypeOK, CallerPC, InRestart
  <1>2. WatchdogInv' BY DEF WatchdogInv, TypeOK, InRestart
  <1>3. OneRestart' BY DEF OneRestart, TypeOK, InRestart
  <1>4. NotStopped' BY DEF NotStopped, TypeOK, InRestart
  <1>5. NoRefusedTeardown' BY DEF NoRefusedTeardown, BindConflict, OneRestart, TypeOK, InRestart
  <1> QED BY <1>1, <1>2, <1>3, <1>4, <1>5

\* updateSetting saves the template.
LEMMA SaveSettingKeeps ==
    ASSUME IInv, NEW s \in Statics, NEW b \in Clashes, SaveSetting(s, b) PROVE IInv'
  <1> USE DEF IInv, SaveSetting, Idle, GoTo, proc, flags, jobs, calls
  <1>1. TypeOK'
    <2>1. db' \in Config BY DEF TypeOK, Config
    <2> QED BY <2>1 DEF TypeOK, CallerPC
  <1>2. WatchdogInv' BY DEF WatchdogInv, TypeOK, InRestart
  <1>3. OneRestart' BY DEF OneRestart, TypeOK, InRestart
  <1>4. NotStopped' BY DEF NotStopped, TypeOK, InRestart
  <1>5. NoRefusedTeardown' BY DEF NoRefusedTeardown, BindConflict, OneRestart, TypeOK, InRestart
  <1> QED BY <1>1, <1>2, <1>3, <1>4, <1>5

\* updateSetting reconciles a running core.
LEMMA SaveApplyKeeps ==
    ASSUME IInv, SaveApply PROVE IInv'
  <1> USE DEF IInv, SaveApply, Call, GoTo, proc, flags, jobs, calls
  <1>1. TypeOK' BY DEF TypeOK, CallerPC, InRestart
  <1>2. WatchdogInv' BY DEF WatchdogInv, TypeOK, InRestart
  <1>3. OneRestart' BY DEF OneRestart, TypeOK, InRestart
  <1>4. NotStopped' BY DEF NotStopped, TypeOK, InRestart
  <1>5. NoRefusedTeardown' BY DEF NoRefusedTeardown, BindConflict, OneRestart, TypeOK, InRestart
  <1> QED BY <1>1, <1>2, <1>3, <1>4, <1>5

\* RestartXray takes the lock: nobody is inside, and it leaves at once or lowers
\* the manual-stop flag.
LEMMA RestartBeginKeeps ==
    ASSUME IInv, NEW c \in Callers, RestartBegin(c) PROVE IInv'
  <1> USE DEF IInv, RestartBegin, GoTo, LockFree, proc, flags, jobs, calls
  <1>1. TypeOK'
    <2>1. CASE ~force[c] /\ manual BY <2>1, ReturnFacts DEF TypeOK
    <2>2. CASE ~(~force[c] /\ manual)
      BY <2>2 DEF TypeOK, CallerPC, InRestart
    <2> QED BY <2>1, <2>2
  <1>2. WatchdogInv'
    <2>1. CASE ~force[c] /\ manual BY <2>1, ReturnWatchdog
    <2>2. CASE ~(~force[c] /\ manual) BY <2>2 DEF WatchdogInv, TypeOK
    <2> QED BY <2>1, <2>2
  <1>3. OneRestart' BY ReturnFacts DEF OneRestart, TypeOK, InRestart
  <1>4. NotStopped' BY ReturnFacts DEF NotStopped, TypeOK, InRestart
  <1>5. NoRefusedTeardown' BY ReturnFacts DEF NoRefusedTeardown, BindConflict, OneRestart, TypeOK, InRestart
  <1> QED BY <1>1, <1>2, <1>3, <1>4, <1>5

\* GetXrayConfig replaces only the config of the caller inside.
LEMMA ReadConfigKeeps ==
    ASSUME IInv, NEW c \in Callers, ReadConfig(c) PROVE IInv'
  <1> USE DEF IInv, ReadConfig, GoTo, proc, flags, jobs, calls
  <1>1. TypeOK' BY AddTrafficType DEF TypeOK, CallerPC, InRestart
  <1>2. WatchdogInv' BY DEF WatchdogInv, TypeOK, InRestart
  <1>3. OneRestart' BY DEF OneRestart, TypeOK, InRestart
  <1>4. NotStopped' BY DEF NotStopped, TypeOK, InRestart
  <1>5. NoRefusedTeardown' BY DEF NoRefusedTeardown, BindConflict, OneRestart, TypeOK, InRestart
  <1> QED BY <1>1, <1>2, <1>3, <1>4, <1>5

\* GetXrayConfig fails.
LEMMA ReadConfigFailsKeeps ==
    ASSUME IInv, NEW c \in Callers, ReadConfigFails(c) PROVE IInv'
  <1> USE DEF IInv, ReadConfigFails, proc, flags, jobs, calls
  <1>1. TypeOK'
    <2>1. db' \in Config /\ core' \in UserMap BY AddTrafficType DEF TypeOK
    <2>2. unowned' \subseteq Users BY DEF TypeOK
    <2> QED BY <2>1, <2>2, ReturnFacts DEF TypeOK
  <1>2. WatchdogInv' BY ReturnWatchdog
  <1>3. OneRestart' BY ReturnFacts DEF OneRestart, TypeOK, InRestart
  <1>4. NotStopped' BY ReturnFacts DEF NotStopped, TypeOK, InRestart
  <1>5. NoRefusedTeardown' BY ReturnFacts DEF NoRefusedTeardown, BindConflict, OneRestart, TypeOK, InRestart
  <1> QED BY <1>1, <1>2, <1>3, <1>4, <1>5

\* RestartXray finds no running process.
LEMMA DecideStartKeeps ==
    ASSUME IInv, NEW c \in Callers, DecideStart(c) PROVE IInv'
  <1> USE DEF IInv, DecideStart, GoTo, proc, flags, jobs, calls
  <1>1. TypeOK' BY DEF TypeOK, CallerPC, InRestart
  <1>2. WatchdogInv' BY DEF WatchdogInv, TypeOK, InRestart
  <1>3. OneRestart' BY DEF OneRestart, TypeOK, InRestart
  <1>4. NotStopped' BY DEF NotStopped, TypeOK, InRestart
  <1>5. NoRefusedTeardown' BY DEF NoRefusedTeardown, BindConflict, OneRestart, TypeOK, InRestart
  <1> QED BY <1>1, <1>2, <1>3, <1>4, <1>5

\* RestartXray finds nothing to do.
LEMMA DecideNothingKeeps ==
    ASSUME IInv, NEW c \in Callers, DecideNothing(c) PROVE IInv'
  <1> USE DEF IInv, DecideNothing, proc, flags, jobs, calls
  <1>1. TypeOK' BY ReturnFacts DEF TypeOK
  <1>2. WatchdogInv' BY ReturnWatchdog
  <1>3. OneRestart' BY ReturnFacts DEF OneRestart, TypeOK, InRestart
  <1>4. NotStopped' BY ReturnFacts DEF NotStopped, TypeOK, InRestart
  <1>5. NoRefusedTeardown' BY ReturnFacts DEF NoRefusedTeardown, BindConflict, OneRestart, TypeOK, InRestart
  <1> QED BY <1>1, <1>2, <1>3, <1>4, <1>5

\* RestartXray refuses a config the core cannot bind.
LEMMA DecideRefuseKeeps ==
    ASSUME IInv, NEW c \in Callers, DecideRefuse(c) PROVE IInv'
  <1> USE DEF IInv, DecideRefuse, proc, flags, jobs, calls
  <1>1. TypeOK' BY ReturnFacts DEF TypeOK
  <1>2. WatchdogInv' BY ReturnWatchdog
  <1>3. OneRestart' BY ReturnFacts DEF OneRestart, TypeOK, InRestart
  <1>4. NotStopped' BY ReturnFacts DEF NotStopped, TypeOK, InRestart
  <1>5. NoRefusedTeardown' BY ReturnFacts DEF NoRefusedTeardown, BindConflict, OneRestart, TypeOK, InRestart
  <1> QED BY <1>1, <1>2, <1>3, <1>4, <1>5

\* RestartXray goes on to apply a config, having checked it.
LEMMA DecideApplyKeeps ==
    ASSUME IInv, NEW c \in Callers, DecideApply(c) PROVE IInv'
  <1> USE DEF IInv, DecideApply, GoTo, proc, flags, jobs, calls
  <1>1. TypeOK' BY DEF TypeOK, CallerPC, InRestart
  <1>2. WatchdogInv' BY DEF WatchdogInv, TypeOK, InRestart
  <1>3. OneRestart' BY DEF OneRestart, TypeOK, InRestart
  <1>4. NotStopped' BY DEF NotStopped, TypeOK, InRestart
  <1>5. NoRefusedTeardown' BY DEF NoRefusedTeardown, BindConflict, OneRestart, TypeOK, InRestart
  <1> QED BY <1>1, <1>2, <1>3, <1>4, <1>5

\* tryHotApply's removals.
LEMMA HotRemoveKeeps ==
    ASSUME IInv, NEW c \in Callers, HotRemove(c) PROVE IInv'
  <1> USE DEF IInv, HotRemove, GoTo, proc, flags, jobs, calls
  <1>1. TypeOK'
    <2>1. core' \in UserMap BY DEF TypeOK, UserMap
    <2> QED BY <2>1 DEF TypeOK, CallerPC, InRestart
  <1>2. WatchdogInv' BY DEF WatchdogInv, TypeOK, InRestart
  <1>3. OneRestart' BY DEF OneRestart, TypeOK, InRestart
  <1>4. NotStopped' BY DEF NotStopped, TypeOK, InRestart
  <1>5. NoRefusedTeardown' BY DEF NoRefusedTeardown, BindConflict, OneRestart, TypeOK, InRestart
  <1> QED BY <1>1, <1>2, <1>3, <1>4, <1>5

\* tryHotApply's additions and SetConfig.
LEMMA HotAddKeeps ==
    ASSUME IInv, NEW c \in Callers, HotAdd(c) PROVE IInv'
  <1> USE DEF IInv, HotAdd, proc, flags, jobs, calls
  <1>1. TypeOK'
    <2>1. cfg.users \in UserMap BY DEF TypeOK, Config
    <2>2. core' \in UserMap BY <2>1 DEF TypeOK, UserMap
    <2> QED BY <2>2, ReturnFacts DEF TypeOK
  <1>2. WatchdogInv' BY ReturnWatchdog
  <1>3. OneRestart' BY ReturnFacts DEF OneRestart, TypeOK, InRestart
  <1>4. NotStopped' BY ReturnFacts DEF NotStopped, TypeOK, InRestart
  <1>5. NoRefusedTeardown' BY ReturnFacts DEF NoRefusedTeardown, BindConflict, OneRestart, TypeOK, InRestart
  <1> QED BY <1>1, <1>2, <1>3, <1>4, <1>5

\* tryHotApply gives up.
LEMMA HotFailsKeeps ==
    ASSUME IInv, NEW c \in Callers, HotFails(c) PROVE IInv'
  <1> USE DEF IInv, HotFails, GoTo, proc, flags, jobs, calls
  <1>1. TypeOK' BY DEF TypeOK, CallerPC, InRestart
  <1>2. WatchdogInv' BY DEF WatchdogInv, TypeOK, InRestart
  <1>3. OneRestart' BY DEF OneRestart, TypeOK, InRestart
  <1>4. NotStopped' BY DEF NotStopped, TypeOK, InRestart
  <1>5. NoRefusedTeardown' BY DEF NoRefusedTeardown, BindConflict, OneRestart, TypeOK, InRestart
  <1> QED BY <1>1, <1>2, <1>3, <1>4, <1>5

\* RestartXray stops the process.
LEMMA StopProcessKeeps ==
    ASSUME IInv, NEW c \in Callers, StopProcess(c) PROVE IInv'
  <1> USE DEF IInv, StopProcess, GoTo, proc, flags, jobs, calls
  <1>1. TypeOK' BY DEF TypeOK, CallerPC, InRestart
  <1>2. WatchdogInv' BY DEF WatchdogInv, TypeOK, InRestart
  <1>3. OneRestart' BY DEF OneRestart, TypeOK, InRestart
  <1>4. NotStopped' BY DEF NotStopped, TypeOK, InRestart
  <1>5. NoRefusedTeardown' BY DEF NoRefusedTeardown, BindConflict, OneRestart, TypeOK, InRestart
  <1> QED BY <1>1, <1>2, <1>3, <1>4, <1>5

\* RestartXray's new process starts.
LEMMA StartProcessKeeps ==
    ASSUME IInv, NEW c \in Callers, StartProcess(c) PROVE IInv'
  <1> USE DEF IInv, StartProcess, NewProcess, proc, flags, jobs, calls
  <1>1. TypeOK'
    <2>1. core' \in UserMap BY DEF TypeOK, Config
    <2> QED BY <2>1, ReturnFacts DEF TypeOK
  <1>2. WatchdogInv' BY ReturnWatchdog
  <1>3. OneRestart' BY ReturnFacts DEF OneRestart, TypeOK, InRestart
  <1>4. NotStopped' BY ReturnFacts DEF NotStopped, TypeOK, InRestart
  <1>5. NoRefusedTeardown' BY ReturnFacts DEF NoRefusedTeardown, BindConflict, OneRestart, TypeOK, InRestart
  <1> QED BY <1>1, <1>2, <1>3, <1>4, <1>5

\* RestartXray's new process does not start.
LEMMA StartFailsKeeps ==
    ASSUME IInv, NEW c \in Callers, StartFails(c) PROVE IInv'
  <1> USE DEF IInv, StartFails, NewProcess, proc, flags, jobs, calls
  <1>1. TypeOK' BY ReturnFacts DEF TypeOK
  <1>2. WatchdogInv' BY ReturnWatchdog
  <1>3. OneRestart' BY ReturnFacts DEF OneRestart, TypeOK, InRestart
  <1>4. NotStopped' BY ReturnFacts DEF NotStopped, TypeOK, InRestart
  <1>5. NoRefusedTeardown' BY ReturnFacts DEF NoRefusedTeardown, BindConflict, OneRestart, TypeOK, InRestart
  <1> QED BY <1>1, <1>2, <1>3, <1>4, <1>5

\* StopXray raises the flag while nobody is inside RestartXray.
LEMMA StopXrayKeeps ==
    ASSUME IInv, StopXray PROVE IInv'
  <1> USE DEF IInv, StopXray, LockFree, proc, flags, jobs, calls
  <1>1. TypeOK' BY DEF TypeOK, CallerPC, InRestart
  <1>2. WatchdogInv' BY DEF WatchdogInv, TypeOK, InRestart
  <1>3. OneRestart' BY DEF OneRestart, TypeOK, InRestart
  <1>4. NotStopped' BY DEF NotStopped, TypeOK, InRestart
  <1>5. NoRefusedTeardown' BY DEF NoRefusedTeardown, BindConflict, OneRestart, TypeOK, InRestart
  <1> QED BY <1>1, <1>2, <1>3, <1>4, <1>5

\* The process exits by itself.
LEMMA CrashKeeps ==
    ASSUME IInv, Crash PROVE IInv'
  <1> USE DEF IInv, Crash, proc, flags, jobs, calls
  <1>1. TypeOK' BY DEF TypeOK, CallerPC, InRestart
  <1>2. WatchdogInv' BY DEF WatchdogInv, TypeOK, InRestart
  <1>3. OneRestart' BY DEF OneRestart, TypeOK, InRestart
  <1>4. NotStopped' BY DEF NotStopped, TypeOK, InRestart
  <1>5. NoRefusedTeardown' BY DEF NoRefusedTeardown, BindConflict, OneRestart, TypeOK, InRestart
  <1> QED BY <1>1, <1>2, <1>3, <1>4, <1>5

-----------------------------------------------------------------------------
(***************************************************************************)
(* The theorems.                                                           *)
(***************************************************************************)

\* No step of an edit, a poll, a restart or a stop breaks IInv.
LEMMA NextKeeps == IInv /\ [Next]_vars => IInv'
  <1> SUFFICES ASSUME IInv, [Next]_vars PROVE IInv' OBVIOUS
  <1>1. ASSUME NEW u \in Users, NEW new \in Creds \cup {Off}, EditCommit(u, new) PROVE IInv'
    BY <1>1, EditCommitKeeps
  <1>2. CASE LiveStep
    BY <1>2, LiveRemoveOKKeeps, LiveAddOKKeeps, LiveFailsKeeps, SetToNeedRestartKeeps DEF LiveStep
  <1>3. CASE WatchdogTick \/ PendingTick \/ AdminRestart
    BY <1>3, WatchdogTickKeeps, PendingTickKeeps, AdminRestartKeeps
  <1>4. ASSUME NEW u \in Users, NEW new \in Creds \cup {Off}, NEW ok \in BOOLEAN,
               TrafficPoll(u, new, ok) \/ NodeSyncPoll(u, new, ok)
        PROVE  IInv'
    BY <1>4, TrafficPollKeeps, NodeSyncPollKeeps
  <1>5. ASSUME NEW s \in Statics, NEW b \in Clashes, SaveSetting(s, b) PROVE IInv'
    BY <1>5, SaveSettingKeeps
  <1>6. CASE SaveApply BY <1>6, SaveApplyKeeps
  <1>7. ASSUME NEW c \in Callers, RestartStep(c) PROVE IInv'
    BY <1>7, RestartBeginKeeps, ReadConfigKeeps, ReadConfigFailsKeeps, DecideStartKeeps,
       DecideNothingKeeps, DecideRefuseKeeps, DecideApplyKeeps, HotRemoveKeeps, HotAddKeeps,
       HotFailsKeeps, StopProcessKeeps, StartProcessKeeps, StartFailsKeeps, RearmKeeps
       DEF RestartStep
  <1>8. CASE StopXray \/ Crash BY <1>8, StopXrayKeeps, CrashKeeps
  <1>9. CASE UNCHANGED vars
    BY <1>9 DEF vars, proc, flags, jobs, calls, IInv, TypeOK, WatchdogInv, OneRestart,
                NotStopped, NoRefusedTeardown, BindConflict
  <1> QED BY <1>1, <1>2, <1>3, <1>4, <1>5, <1>6, <1>7, <1>8, <1>9 DEF Next

\* The panel starts with nobody inside RestartXray.
LEMMA InitEstablishes == Init => IInv
  <1> SUFFICES ASSUME Init PROVE IInv OBVIOUS
  <1>1. PICK s \in Statics : db = [users |-> [u \in Users |-> Off], static |-> s, clash |-> FALSE]
    BY DEF Init
  <1>2. [u \in Users |-> Off] \in UserMap BY DEF UserMap
  <1>3. db \in Config /\ db.users \in UserMap
    BY <1>1, <1>2, ClashAssumption DEF Config
  <1>4. TypeOK
    <2>1. /\ snap \in Config /\ cfg \in Config /\ core \in UserMap
          /\ pc \in [Callers -> CallerPC] /\ force \in [Callers -> BOOLEAN]
      BY <1>3 DEF Init, CallerPC
    <2>2. edit \in [pc : {"idle", "remove", "add", "flag"}, user : Users \cup {Off},
                    new : Creds \cup {Off}, need : BOOLEAN]
      BY DEF Init, NoEdit
    <2>3. /\ up \in BOOLEAN /\ leaving \in BOOLEAN /\ manual \in BOOLEAN
          /\ need \in BOOLEAN /\ held \in BOOLEAN /\ owed \in BOOLEAN
      BY DEF Init
    <2>4. checkTime \in 0..2 /\ unowned \subseteq Users BY DEF Init
    <2> QED BY <1>3, <2>1, <2>2, <2>3, <2>4 DEF TypeOK
  <1>5. WatchdogInv /\ OneRestart /\ NotStopped /\ NoRefusedTeardown
    BY DEF Init, WatchdogInv, OneRestart, NotStopped, NoRefusedTeardown, InRestart
  <1> QED BY <1>4, <1>5 DEF IInv

\* IInv holds in every state the panel and its core can reach.
THEOREM Inductive == Spec => []IInv
  BY InitEstablishes, NextKeeps, PTL DEF Spec

\* The state of the panel's hold on its core is well typed.
THEOREM TypeCorrect == Spec => []TypeOK
  <1>1. IInv => TypeOK BY DEF IInv
  <1> QED BY <1>1, Inductive, PTL

\* RestartXray never goes on to stop a running core for a config that brings a
\* bind conflict the core does not already serve.
THEOREM NoRefusedTeardownHolds == Spec => []NoRefusedTeardown
  <1>1. IInv => NoRefusedTeardown BY DEF IInv
  <1> QED BY <1>1, Inductive, PTL

\* A step that brings the core up is one of a caller that found the flag down.
LEMMA StepSticks ==
    ASSUME IInv, [Next]_vars, manual
    PROVE  /\ up' => up
           /\ ~manual' => \E c \in Callers : pc[c] = "want" /\ force[c]
  <1> USE DEF IInv, proc, flags, jobs, calls
  <1>1. ASSUME NEW c \in Callers, StartProcess(c) PROVE FALSE
    BY <1>1 DEF StartProcess, NotStopped, InRestart
  <1>2. ASSUME NEW c \in Callers, RestartBegin(c)
        PROVE  /\ up' = up
               /\ ~manual' => pc[c] = "want" /\ force[c]
    BY <1>2 DEF RestartBegin, TypeOK
  <1>3. ASSUME NEW c \in Callers, RestartStep(c), ~StartProcess(c), ~RestartBegin(c)
        PROVE  (up' => up) /\ manual' = manual
    <2>1. CASE StopProcess(c) \/ StartFails(c)
      BY <2>1 DEF StopProcess, StartFails, NewProcess
    <2>2. CASE ~(StopProcess(c) \/ StartFails(c))
      <3>1. UNCHANGED <<up, manual>>
        BY <1>3, <2>2 DEF RestartStep, ReadConfig, ReadConfigFails, DecideStart, DecideNothing,
                          DecideRefuse, DecideApply, HotRemove, HotAdd, HotFails, Rearm
      <3> QED BY <3>1
    <2> QED BY <2>1, <2>2
  <1>4. CASE \/ \E u \in Users, new \in Creds \cup {Off} : EditCommit(u, new)
             \/ LiveStep
             \/ WatchdogTick \/ PendingTick \/ AdminRestart
             \/ \E u \in Users, new \in Creds \cup {Off}, ok \in BOOLEAN :
                   TrafficPoll(u, new, ok) \/ NodeSyncPoll(u, new, ok)
             \/ \E s \in Statics, b \in Clashes : SaveSetting(s, b)
             \/ SaveApply
             \/ UNCHANGED vars
    <2>1. UNCHANGED <<up, manual>>
      BY <1>4 DEF EditCommit, LiveStep, LiveRemoveOK, LiveAddOK, LiveFails, SetToNeedRestart,
                  WatchdogTick, PendingTick, AdminRestart, TrafficPoll, NodeSyncPoll,
                  SaveSetting, SaveApply, vars
    <2> QED BY <2>1
  <1>5. CASE StopXray
    <2>1. manual' BY <1>5 DEF StopXray
    <2>2. up' \in {FALSE, up} BY <1>5 DEF StopXray
    <2>3. up' => up BY <2>2, Zenon
    <2> QED BY <2>1, <2>3
  <1>6. CASE Crash BY <1>6 DEF Crash
  <1> QED BY <1>1, <1>2, <1>3, <1>4, <1>5, <1>6 DEF Next

\* No tick, poll or save undoes StopXray; only a forced RestartXray does.
THEOREM ManualStopSticksHolds == Spec => ManualStopSticks
  <1>1. IInv /\ [Next]_vars =>
          [manual => /\ up' => up
                     /\ ~manual' => \E c \in Callers : pc[c] = "want" /\ force[c]]_vars
    BY StepSticks
  <1> QED BY <1>1, Inductive, PTL DEF Spec, ManualStopSticks

-----------------------------------------------------------------------------
(***************************************************************************)
(* A drift of the running core is known to the panel.  While anything is   *)
(* under way DriftIsKnown does not hold; what does is that somebody is     *)
(* still to report every drift: a caller of RestartXray on its way         *)
(* (Carried), or the edit that made it.                                    *)
(***************************************************************************)

\* A restart is asked for, refused in the open, being made, or will be asked for
\* again by a caller that owes it.
Carried ==
    \/ need \/ held \/ owed \/ BeingApplied
    \/ \E c \in Callers : pc[c] = "rearm"
    \/ "pending" \in Callers /\ pc["pending"] # "idle"

\* What DriftIsKnown excuses: changes that overlapped, or a snapshot that shows none.
Settled(u) == u \in unowned \/ snap.users[u] = db.users[u]

\* The config being applied is the database's, but for changes made since it was read.
FreshInv == BeingApplied => \A u \in Users : cfg.users[u] = db.users[u] \/ u \in unowned

\* A core that runs although the operator stopped it is one that survived Stop.
StoppedInv == manual /\ up => leaving

\* needRestart0 is looked at when the RestartXray it waits for returns.
OwedInv == owed => "traffic" \in Callers /\ pc["traffic"] \in {"want"} \cup InRestart

\* The client of an edit in flight has what the edit will tell the core, unless
\* another change came in between.
EditInv ==
    /\ edit.pc # "idle" => edit.user \in Users
    /\ up /\ ~leaving /\ edit.pc \in {"remove", "add"} =>
          Carried \/ Settled(edit.user) \/ db.users[edit.user] = edit.new

\* Every drift of a running core has somebody to report it.
DriftInv ==
    up /\ ~leaving =>
        \A u \in Users : core[u] # db.users[u] => Carried \/ Settled(u) \/ EditInFlight(u)

KnownIInv == FreshInv /\ StoppedInv /\ OwedInv /\ EditInv /\ DriftInv

\* A step that moves only callers keeps the reports when nobody forgets one.
LEMMA CallersMove ==
    ASSUME EditInv, DriftInv, UNCHANGED <<db, core, up, leaving, snap, edit, unowned>>,
           up /\ ~leaving /\ Carried => Carried'
    PROVE  EditInv' /\ DriftInv'
  <1>1. \A u : Settled(u)' <=> Settled(u) BY DEF Settled
  <1>2. \A u : EditInFlight(u)' <=> EditInFlight(u) BY DEF EditInFlight
  <1>3. EditInv' BY <1>1 DEF EditInv
  <1>4. DriftInv' BY <1>1, <1>2 DEF DriftInv
  <1> QED BY <1>3, <1>4

\* Whoever has applied a config leaves a snapshot of it (SetConfig, NewProcess).
LEMMA Applied ==
    ASSUME FreshInv, BeingApplied, snap' = cfg, UNCHANGED <<db, edit, unowned>>, EditInv
    PROVE  EditInv' /\ DriftInv'
  <1>1. \A u \in Users : Settled(u)' BY DEF FreshInv, Settled
  <1>2. EditInv' BY <1>1 DEF EditInv
  <1>3. DriftInv' BY <1>1 DEF DriftInv
  <1> QED BY <1>2, <1>3

\* A RestartXray that returns is no longer applying a config, and the traffic
\* job has looked at what it owes.
LEMMA ReturnEnds ==
    ASSUME TypeOK, OneRestart, OwedInv, NEW c \in Callers, pc[c] \in InRestart \cup {"want"},
           LockFree \/ pc[c] \in InRestart, NEW failed \in BOOLEAN, Return(c, failed)
    PROVE  /\ ~BeingApplied'
           /\ OwedInv'
  <1>1. /\ pc'[c] \in {"idle", "rearm"}
        /\ \A d \in Callers \ {c} : pc'[d] = pc[d]
    BY ReturnFacts
  <1>2. ~BeingApplied'
    BY <1>1 DEF BeingApplied, OneRestart, LockFree, InRestart
  <1>3. OwedInv'
    <2>1. CASE c = "traffic" BY <2>1 DEF Return, OwedInv
    <2>2. CASE c # "traffic" BY <2>2, <1>1 DEF Return, OwedInv
    <2> QED BY <2>1, <2>2
  <1> QED BY <1>2, <1>3

\* A RestartXray that fails is asked for again by everybody it was owed to.
LEMMA FailureCarries ==
    ASSUME TypeOK, OneRestart, OwedInv, NEW c \in Callers, pc[c] = "config", Return(c, TRUE),
           need' = need, held' = held, Carried
    PROVE  Carried'
  <1>1. \A d \in Callers \ {c} : pc'[d] = pc[d] BY ReturnFacts
  <1>2. ~BeingApplied BY DEF OneRestart, BeingApplied, InRestart
  <1>3. CASE need \/ held BY <1>3 DEF Carried
  <1>4. CASE owed
    <2>1. CASE c = "traffic"
      <3>1. pc'[c] = "rearm" BY <2>1, <1>4 DEF Return, GoTo, TypeOK
      <3> QED BY <3>1 DEF Carried
    <2>2. CASE c # "traffic"
      <3>1. owed' BY <2>2, <1>4 DEF Return
      <3> QED BY <3>1 DEF Carried
    <2> QED BY <2>1, <2>2
  <1>5. ASSUME NEW d \in Callers, pc[d] = "rearm" PROVE Carried'
    <2>1. pc'[d] = "rearm" BY <1>1, <1>5
    <2> QED BY <2>1 DEF Carried
  <1>6. CASE "pending" \in Callers /\ pc["pending"] # "idle"
    <2>1. pc'["pending"] # "idle"
      <3>1. CASE c = "pending" BY <3>1, <1>6 DEF Return, GoTo, TypeOK
      <3>2. CASE c # "pending" BY <3>2, <1>6, <1>1
      <3> QED BY <3>1, <3>2
    <2> QED BY <2>1, <1>6 DEF Carried
  <1> QED BY <1>2, <1>3, <1>4, <1>5, <1>6 DEF Carried

-----------------------------------------------------------------------------
(***************************************************************************)
(* Every step keeps KnownIInv.                                             *)
(***************************************************************************)

\* The edit that commits is the one that will report.
LEMMA EditCommitKnown ==
    ASSUME IInv, KnownIInv, NEW u \in Users, NEW new \in Creds \cup {Off}, EditCommit(u, new)
    PROVE  KnownIInv'
  <1> USE DEF IInv, KnownIInv, EditCommit, proc, flags, jobs, calls
  <1>1. /\ db'.users[u] = new
        /\ \A v \in Users \ {u} : db'.users[v] = db.users[v]
    BY DEF TypeOK, Config, UserMap
  <1>2. (BeingApplied' <=> BeingApplied) /\ (Carried' <=> Carried)
    BY DEF BeingApplied, Carried
  <1>3. FreshInv' BY <1>1, <1>2 DEF FreshInv
  <1>4. StoppedInv' /\ OwedInv' BY DEF StoppedInv, OwedInv
  <1>5. edit'.pc # "idle" /\ edit'.user = u /\ edit'.new = new OBVIOUS
  <1>6. EditInv' BY <1>1, <1>5 DEF EditInv
  <1>7. DriftInv'
    <2>1. EditInFlight(u)' BY <1>5 DEF EditInFlight
    <2>2. ASSUME NEW v \in Users, v # u PROVE (Settled(v) => Settled(v)') /\ ~EditInFlight(v)
      BY <1>1, <2>2 DEF Settled, EditInFlight
    <2> QED BY <1>1, <1>2, <2>1, <2>2 DEF DriftInv
  <1> QED BY <1>3, <1>4, <1>6, <1>7

\* A live call keeps its edit, or ends it without asking for anything.
LEMMA AfterLiveCases ==
    ASSUME TypeOK, edit.pc \in {"remove", "add"}, NEW asks \in BOOLEAN, AfterLive(asks)
    PROVE  \/ /\ edit'.pc \in {"add", "flag"} /\ edit'.user = edit.user /\ edit'.new = edit.new
           \/ /\ edit' = NoEdit /\ ~asks
              /\ edit.pc = "remove" => edit.new = Off
  <1> DEFINE n == edit.need \/ asks
  <1>1. CASE edit.pc = "remove" /\ edit.new # Off
    BY <1>1 DEF TypeOK, AfterLive
  <1>2. CASE ~(edit.pc = "remove" /\ edit.new # Off) /\ n
    BY <1>2 DEF TypeOK, AfterLive
  <1>3. CASE ~(edit.pc = "remove" /\ edit.new # Off) /\ ~n
    BY <1>3 DEF TypeOK, AfterLive
  <1> QED BY <1>1, <1>2, <1>3

\* What a live call tells the core is what the database says, or the edit goes on.
LEMMA LiveCallKnown ==
    ASSUME IInv, KnownIInv, edit.pc \in {"remove", "add"}, NEW asks \in BOOLEAN, AfterLive(asks),
           UNCHANGED <<db, proc, flags, jobs, calls, unowned>>,
           \A v \in Users : v # edit.user => core'[v] = core[v],
           edit' = NoEdit => core'[edit.user] = edit.new
    PROVE  KnownIInv'
  <1> USE DEF IInv, KnownIInv, proc, flags, jobs, calls
  <1>1. (BeingApplied' <=> BeingApplied) /\ (Carried' <=> Carried)
    BY DEF BeingApplied, Carried
  <1>2. \A v : Settled(v)' <=> Settled(v) BY DEF Settled
  <1>3. FreshInv' /\ StoppedInv' /\ OwedInv' BY <1>1 DEF FreshInv, StoppedInv, OwedInv
  <1>4. edit.user \in Users BY DEF EditInv
  <1>5. CASE edit'.pc \in {"add", "flag"} /\ edit'.user = edit.user /\ edit'.new = edit.new
    <2>1. EditInv' BY <1>1, <1>2, <1>5 DEF EditInv
    <2>2. \A v : EditInFlight(v)' <=> EditInFlight(v) BY <1>5 DEF EditInFlight
    <2>3. EditInFlight(edit.user) BY DEF EditInFlight
    <2>4. DriftInv' BY <1>1, <1>2, <2>2, <2>3 DEF DriftInv
    <2> QED BY <1>3, <2>1, <2>4
  <1>6. CASE edit' = NoEdit
    <2>1. edit'.pc = "idle" BY <1>6 DEF NoEdit
    <2>2. EditInv' BY <2>1 DEF EditInv
    <2>3. \A v : v # edit.user => ~EditInFlight(v) BY DEF EditInFlight
    <2>4. up /\ ~leaving => Carried \/ Settled(edit.user) \/ db.users[edit.user] = edit.new
      BY DEF EditInv
    <2>5. DriftInv' BY <1>1, <1>2, <1>6, <2>3, <2>4 DEF DriftInv
    <2> QED BY <1>3, <2>2, <2>5
  <1> QED BY <1>5, <1>6, AfterLiveCases

\* RemoveUser, AddUser and their failures.
LEMMA LiveStepKnown ==
    ASSUME IInv, KnownIInv, LiveRemoveOK \/ LiveAddOK \/ LiveFails
    PROVE  KnownIInv'
  <1> USE DEF IInv
  <1>1. CASE LiveRemoveOK
    <2> DEFINE asks == edit.new = Off /\ DropRestart /\ core[edit.user] # Off
    <2>1. asks \in BOOLEAN /\ edit.pc \in {"remove", "add"} /\ edit.pc = "remove" /\ AfterLive(asks)
      BY <1>1 DEF LiveRemoveOK
    <2>2. edit.user \in Users BY <2>1 DEF KnownIInv, EditInv
    <2>3. core'[edit.user] = Off /\ \A v \in Users : v # edit.user => core'[v] = core[v]
      BY <1>1, <2>2 DEF LiveRemoveOK, TypeOK, UserMap
    <2>4. edit' = NoEdit => core'[edit.user] = edit.new
      <3> HIDE DEF asks
      <3> SUFFICES ASSUME edit' = NoEdit PROVE edit.new = Off BY <2>3
      <3>1. edit'.pc = "idle" BY DEF NoEdit
      <3> QED BY <2>1, <3>1, AfterLiveCases
    <2>5. UNCHANGED <<db, proc, flags, jobs, calls, unowned>> BY <1>1 DEF LiveRemoveOK
    <2> HIDE DEF asks
    <2> QED BY <2>1, <2>3, <2>4, <2>5, LiveCallKnown
  <1>2. CASE LiveAddOK
    <2>1. edit.pc \in {"remove", "add"} /\ AfterLive(FALSE) BY <1>2 DEF LiveAddOK
    <2>2. edit.user \in Users BY <2>1 DEF KnownIInv, EditInv
    <2>3. core'[edit.user] = edit.new /\ \A v \in Users : v # edit.user => core'[v] = core[v]
      BY <1>2, <2>2 DEF LiveAddOK, TypeOK, UserMap
    <2>4. UNCHANGED <<db, proc, flags, jobs, calls, unowned>> BY <1>2 DEF LiveAddOK
    <2> QED BY <2>1, <2>3, <2>4, LiveCallKnown
  <1>3. CASE LiveFails
    <2>1. edit.pc \in {"remove", "add"} /\ AfterLive(TRUE) BY <1>3 DEF LiveFails
    <2>2. edit' # NoEdit
      <3>1. NoEdit.pc = "idle" BY DEF NoEdit
      <3> QED BY <2>1, <3>1, AfterLiveCases
    <2>3. UNCHANGED <<db, proc, core, flags, jobs, calls, unowned>> BY <1>3 DEF LiveFails
    <2> QED BY <2>1, <2>2, <2>3, LiveCallKnown
  <1> QED BY <1>1, <1>2, <1>3

\* SetToNeedRestart reports everything.
LEMMA SetToNeedRestartKnown ==
    ASSUME IInv, KnownIInv, SetToNeedRestart PROVE KnownIInv'
  <1> USE DEF IInv, KnownIInv, SetToNeedRestart, proc, flags, jobs, calls
  <1>1. Carried' BY DEF Carried
  <1>2. BeingApplied' <=> BeingApplied BY DEF BeingApplied
  <1>3. FreshInv' /\ StoppedInv' /\ OwedInv' BY <1>2 DEF FreshInv, StoppedInv, OwedInv
  <1>4. EditInv' /\ DriftInv' BY <1>1 DEF EditInv, DriftInv, NoEdit
  <1> QED BY <1>3, <1>4

\* A caller of RestartXray sets out.  ApplyPendingRestart, which consumes the
\* flag, carries the report from then on.
LEMMA CallKnown ==
    ASSUME IInv, KnownIInv,
           WatchdogTick \/ PendingTick \/ AdminRestart \/ SaveApply
    PROVE  KnownIInv'
  <1> USE DEF IInv, KnownIInv, Idle, Call, GoTo, proc, flags, jobs, calls
  <1>1. CASE WatchdogTick
    <2>1. UNCHANGED <<db, core, up, leaving, snap, manual, need, held, owed, cfg, edit, unowned>>
      BY <1>1 DEF WatchdogTick
    <2>2. "watchdog" \in Callers /\ pc["watchdog"] = "idle" /\ pc' \in [Callers -> CallerPC]
          /\ pc'["watchdog"] \in {"idle", "want"}
          /\ \A d \in Callers : d # "watchdog" => pc'[d] = pc[d]
      BY <1>1 DEF WatchdogTick, TypeOK, CallerPC
    <2>3. BeingApplied' <=> BeingApplied BY <2>2 DEF BeingApplied, InRestart
    <2>4. Carried => Carried' BY <2>1, <2>2, <2>3 DEF Carried
    <2>5. FreshInv' /\ StoppedInv' BY <2>1, <2>3 DEF FreshInv, StoppedInv
    <2>6. OwedInv' BY <2>1, <2>2 DEF OwedInv
    <2> QED BY <2>1, <2>4, <2>5, <2>6, CallersMove
  <1>2. CASE PendingTick
    <2>1. UNCHANGED <<db, core, up, leaving, snap, manual, held, owed, cfg, edit, unowned>>
      BY <1>2 DEF PendingTick
    <2>2. "pending" \in Callers /\ pc["pending"] = "idle" /\ pc'["pending"] = "want"
          /\ \A d \in Callers : d # "pending" => pc'[d] = pc[d]
      BY <1>2 DEF PendingTick, TypeOK
    <2>3. BeingApplied' <=> BeingApplied BY <2>2 DEF BeingApplied, InRestart
    <2>4. Carried' BY <2>2 DEF Carried
    <2>5. FreshInv' /\ StoppedInv' BY <2>1, <2>3 DEF FreshInv, StoppedInv
    <2>6. OwedInv' BY <2>1, <2>2 DEF OwedInv
    <2> QED BY <2>1, <2>4, <2>5, <2>6, CallersMove
  <1>3. CASE AdminRestart
    <2>1. UNCHANGED <<db, core, up, leaving, snap, manual, need, held, owed, cfg, edit, unowned>>
      BY <1>3 DEF AdminRestart
    <2>2. "admin" \in Callers /\ pc["admin"] = "idle" /\ pc'["admin"] = "want"
          /\ \A d \in Callers : d # "admin" => pc'[d] = pc[d]
      BY <1>3 DEF AdminRestart, TypeOK
    <2>3. BeingApplied' <=> BeingApplied BY <2>2 DEF BeingApplied, InRestart
    <2>4. Carried => Carried' BY <2>1, <2>2, <2>3 DEF Carried
    <2>5. FreshInv' /\ StoppedInv' BY <2>1, <2>3 DEF FreshInv, StoppedInv
    <2>6. OwedInv' BY <2>1, <2>2 DEF OwedInv
    <2> QED BY <2>1, <2>4, <2>5, <2>6, CallersMove
  <1>4. CASE SaveApply
    <2>1. UNCHANGED <<db, core, up, leaving, snap, manual, need, held, owed, cfg, edit, unowned>>
      BY <1>4 DEF SaveApply
    <2>2. "saver" \in Callers /\ pc["saver"] = "saved" /\ pc'["saver"] \in {"idle", "want"}
          /\ \A d \in Callers : d # "saver" => pc'[d] = pc[d]
      BY <1>4 DEF SaveApply, TypeOK
    <2>3. BeingApplied' <=> BeingApplied BY <2>2 DEF BeingApplied, InRestart
    <2>4. Carried => Carried' BY <2>1, <2>2, <2>3 DEF Carried
    <2>5. FreshInv' /\ StoppedInv' BY <2>1, <2>3 DEF FreshInv, StoppedInv
    <2>6. OwedInv' BY <2>1, <2>2 DEF OwedInv
    <2> QED BY <2>1, <2>4, <2>5, <2>6, CallersMove
  <1> QED BY <1>1, <1>2, <1>3, <1>4

\* updateSetting saves sections the clients are no part of.
LEMMA SaveSettingKnown ==
    ASSUME IInv, KnownIInv, NEW s \in Statics, NEW b \in Clashes, SaveSetting(s, b)
    PROVE  KnownIInv'
  <1> USE DEF IInv, KnownIInv, Idle, GoTo, proc, flags, jobs, calls
  <1>1. UNCHANGED <<core, up, leaving, snap, manual, need, held, owed, cfg, edit, unowned>>
    BY DEF SaveSetting
  <1>2. "saver" \in Callers /\ pc["saver"] = "idle" /\ pc'["saver"] = "saved"
        /\ \A d \in Callers : d # "saver" => pc'[d] = pc[d]
    BY DEF SaveSetting, TypeOK
  <1>3. db'.users = db.users BY DEF SaveSetting, TypeOK, Config
  <1>4. BeingApplied' <=> BeingApplied BY <1>2 DEF BeingApplied, InRestart
  <1>5. Carried => Carried' BY <1>1, <1>2, <1>4 DEF Carried
  <1>6. \A v : (Settled(v)' <=> Settled(v)) /\ (EditInFlight(v)' <=> EditInFlight(v))
    BY <1>1, <1>3 DEF Settled, EditInFlight
  <1>7. FreshInv' /\ StoppedInv' BY <1>1, <1>3, <1>4 DEF FreshInv, StoppedInv
  <1>8. OwedInv' BY <1>1, <1>2 DEF OwedInv
  <1>9. EditInv' BY <1>1, <1>3, <1>5, <1>6 DEF EditInv
  <1>10. DriftInv' BY <1>1, <1>3, <1>5, <1>6 DEF DriftInv
  <1> QED BY <1>7, <1>8, <1>9, <1>10

\* AddTraffic changes one client and tells the core when it can.
LEMMA AddTrafficFacts ==
    ASSUME TypeOK, NEW u \in Users, NEW new \in Creds \cup {Off}, NEW ok \in BOOLEAN,
           AddTraffic(u, new, ok)
    PROVE  /\ \A v \in Users \ {u} : db'.users[v] = db.users[v] /\ core'[v] = core[v]
           /\ ok => core'[u] = db'.users[u]
  <1>1. /\ db'.users[u] = new
        /\ \A v \in Users \ {u} : db'.users[v] = db.users[v]
    BY DEF AddTraffic, TypeOK, Config, UserMap
  <1>2. \A v \in Users \ {u} : core'[v] = core[v] BY DEF AddTraffic, TypeOK, UserMap
  <1>3. ok => core'[u] = new BY DEF AddTraffic, TypeOK, UserMap
  <1> QED BY <1>1, <1>2, <1>3

\* A poll's change of a client is applied, reported, or counted as one that
\* overlapped with another.
LEMMA PollKnown ==
    ASSUME IInv, KnownIInv, NEW u \in Users, NEW new \in Creds \cup {Off}, NEW ok \in BOOLEAN,
           AddTraffic(u, new, ok), UNCHANGED <<proc, cfg, edit>>,
           unowned' = unowned \/ unowned' = unowned \cup {u},
           EditInFlight(u) => u \in unowned',
           Carried => Carried',
           BeingApplied' => BeingApplied /\ u \in unowned',
           ok \/ Carried' \/ u \in unowned'
    PROVE  FreshInv' /\ EditInv' /\ DriftInv'
  <1> USE DEF IInv, KnownIInv, proc
  <1>1. /\ \A v \in Users \ {u} : db'.users[v] = db.users[v] /\ core'[v] = core[v]
        /\ ok => core'[u] = db'.users[u]
    BY AddTrafficFacts
  <1>2. \A v \in Users \ {u} : Settled(v) => Settled(v)' BY <1>1 DEF Settled
  <1>3. \A v : EditInFlight(v)' <=> EditInFlight(v) BY DEF EditInFlight
  <1>4. FreshInv' BY <1>1 DEF FreshInv
  <1>5. EditInv'
    <2>1. CASE edit.pc # "idle" /\ edit.user = u
      <3>1. Settled(u)' BY <2>1 DEF EditInFlight, Settled
      <3> QED BY <2>1, <3>1 DEF EditInv
    <2>2. CASE edit.pc # "idle" /\ edit.user # u BY <1>1, <1>2, <2>2 DEF EditInv
    <2>3. CASE edit.pc = "idle" BY <2>3 DEF EditInv
    <2> QED BY <2>1, <2>2, <2>3
  <1>6. DriftInv'
    <2>1. u \in unowned' => Settled(u)' BY DEF Settled
    <2> QED BY <1>1, <1>2, <1>3, <2>1 DEF DriftInv
  <1> QED BY <1>4, <1>5, <1>6

\* XrayTrafficJob.Run owes or asks for the restart its call could not replace.
LEMMA TrafficPollKnown ==
    ASSUME IInv, KnownIInv, NEW u \in Users, NEW new \in Creds \cup {Off}, NEW ok \in BOOLEAN,
           TrafficPoll(u, new, ok)
    PROVE  KnownIInv'
  <1> USE DEF IInv, KnownIInv, Idle, Call, GoTo
  <1>1. /\ AddTraffic(u, new, ok)
        /\ UNCHANGED <<proc, cfg, edit, manual, need, held>>
        /\ "traffic" \in Callers /\ pc["traffic"] = "idle"
    BY DEF TrafficPoll, flags
  <1>2. \A d \in Callers : d # "traffic" => pc'[d] = pc[d] BY DEF TrafficPoll, TypeOK
  <1>3. ~owed BY <1>1 DEF OwedInv, InRestart
  <1>4. \/ pc'["traffic"] = "want" /\ (owed' <=> ~ok)
        \/ pc'["traffic"] = "idle" /\ ok /\ ~owed'
        \/ pc'["traffic"] = "rearm" /\ ~ok /\ ~owed'
    <2>1. CASE DropRestart /\ new = Off BY <2>1, <1>1 DEF TrafficPoll, TypeOK
    <2>2. CASE ~(DropRestart /\ new = Off) /\ ok BY <2>2, <1>1, <1>3 DEF TrafficPoll, TypeOK
    <2>3. CASE ~(DropRestart /\ new = Off) /\ ~ok BY <2>3, <1>1, <1>3 DEF TrafficPoll, TypeOK
    <2> QED BY <2>1, <2>2, <2>3
  <1>5. BeingApplied' <=> BeingApplied BY <1>1, <1>2, <1>4 DEF BeingApplied, InRestart
  <1>6. Carried => Carried' BY <1>1, <1>2, <1>3, <1>5 DEF Carried
  <1>7. ok \/ Carried' BY <1>1, <1>4 DEF Carried
  <1>8. /\ unowned' = unowned \/ unowned' = unowned \cup {u}
        /\ BeingApplied \/ EditInFlight(u) => u \in unowned'
    BY DEF TrafficPoll
  <1>9. FreshInv' /\ EditInv' /\ DriftInv' BY <1>1, <1>5, <1>6, <1>7, <1>8, PollKnown
  <1>10. StoppedInv' BY <1>1 DEF StoppedInv, proc
  <1>11. OwedInv' BY <1>1, <1>4 DEF OwedInv
  <1> QED BY <1>9, <1>10, <1>11

\* NodeTrafficSyncJob.Run drops the report of a failed call: the client counts
\* among those whose failure nobody was told of.
LEMMA NodeSyncPollKnown ==
    ASSUME IInv, KnownIInv, NEW u \in Users, NEW new \in Creds \cup {Off}, NEW ok \in BOOLEAN,
           NodeSyncPoll(u, new, ok)
    PROVE  KnownIInv'
  <1> USE DEF IInv, KnownIInv, Idle, Call, GoTo
  <1>1. /\ AddTraffic(u, new, ok)
        /\ UNCHANGED <<proc, cfg, edit, manual, need, held, owed>>
        /\ "nodesync" \in Callers /\ pc["nodesync"] = "idle"
        /\ pc'["nodesync"] \in {"idle", "want"}
        /\ \A d \in Callers : d # "nodesync" => pc'[d] = pc[d]
    BY DEF NodeSyncPoll, TypeOK, flags, jobs
  <1>2. BeingApplied' <=> BeingApplied BY <1>1 DEF BeingApplied, InRestart
  <1>3. Carried => Carried' BY <1>1, <1>2 DEF Carried
  <1>4. /\ unowned' = unowned \/ unowned' = unowned \cup {u}
        /\ BeingApplied \/ EditInFlight(u) \/ ~ok => u \in unowned'
    BY DEF NodeSyncPoll
  <1>5. FreshInv' /\ EditInv' /\ DriftInv' BY <1>1, <1>2, <1>3, <1>4, PollKnown
  <1>6. StoppedInv' BY <1>1 DEF StoppedInv, proc
  <1>7. OwedInv' BY <1>1 DEF OwedInv
  <1> QED BY <1>5, <1>6, <1>7

\* A caller of RestartXray that stays inside, or sets out and gets the lock,
\* forgets nothing.
LEMMA InsideCarries ==
    ASSUME TypeOK, NEW c \in Callers, pc[c] \in {"want"} \cup InRestart,
           pc'[c] \in InRestart, pc[c] \in InRestart \ {"config"} => pc'[c] # "config",
           \A d \in Callers : d # c => pc'[d] = pc[d], UNCHANGED <<need, held, owed>>
    PROVE  Carried => Carried'
  <1>1. BeingApplied => BeingApplied' BY DEF BeingApplied
  <1>2. ASSUME NEW d \in Callers, pc[d] = "rearm" PROVE pc'[d] = "rearm"
    BY <1>2 DEF InRestart
  <1>3. "pending" \in Callers /\ pc["pending"] # "idle" => pc'["pending"] # "idle"
    BY DEF InRestart
  <1> QED BY <1>1, <1>2, <1>3 DEF Carried

\* RestartXray takes the lock, or leaves a core that is stopped alone.
LEMMA RestartBeginKnown ==
    ASSUME IInv, KnownIInv, NEW c \in Callers, RestartBegin(c) PROVE KnownIInv'
  <1> USE DEF IInv, KnownIInv, proc, flags, jobs, calls
  <1>1. /\ UNCHANGED <<db, core, up, leaving, snap, need, held, cfg, edit, unowned>>
        /\ pc[c] = "want" /\ LockFree
    BY DEF RestartBegin
  <1>2. ~BeingApplied BY <1>1 DEF LockFree, BeingApplied
  <1>3. CASE ~force[c] /\ manual
    <2>1. Return(c, FALSE) /\ manual' = manual BY <1>3 DEF RestartBegin
    <2>2. ~BeingApplied' /\ OwedInv' BY <1>1, <2>1, ReturnEnds
    <2>3. up => leaving BY <1>3 DEF StoppedInv
    <2>4. EditInv' /\ DriftInv' BY <1>1, <2>3, CallersMove
    <2>5. FreshInv' /\ StoppedInv' BY <1>1, <2>1, <2>2 DEF FreshInv, StoppedInv
    <2> QED BY <2>2, <2>4, <2>5
  <1>4. CASE ~(~force[c] /\ manual)
    <2>1. /\ manual' = FALSE /\ owed' = owed /\ pc'[c] = "config"
          /\ \A d \in Callers : d # c => pc'[d] = pc[d]
      BY <1>4 DEF RestartBegin, GoTo, TypeOK
    <2>2. ~BeingApplied' BY <1>1, <2>1 DEF LockFree, BeingApplied
    <2>3. pc'[c] \in InRestart /\ pc[c] \notin InRestart BY <1>1, <2>1 DEF InRestart
    <2>4. Carried => Carried' BY <1>1, <2>1, <2>3, InsideCarries
    <2>5. EditInv' /\ DriftInv' BY <1>1, <2>4, CallersMove
    <2>6. FreshInv' /\ StoppedInv' BY <2>1, <2>2 DEF FreshInv, StoppedInv
    <2>7. OwedInv' BY <2>1, <2>3 DEF OwedInv
    <2> QED BY <2>5, <2>6, <2>7
  <1> QED BY <1>3, <1>4

\* Whoever has just read the database is going to apply all of it.
LEMMA ReadConfigKnown ==
    ASSUME IInv, KnownIInv, NEW c \in Callers, ReadConfig(c) PROVE KnownIInv'
  <1> USE DEF IInv, KnownIInv, proc, flags, jobs
  <1>1. /\ pc'[c] = "decide" /\ \A d \in Callers : d # c => pc'[d] = pc[d]
        /\ pc[c] = "config" /\ cfg' = db'
        /\ UNCHANGED <<up, leaving, snap, manual, owed, edit>>
    BY DEF ReadConfig, GoTo, TypeOK
  <1>2. BeingApplied' BY <1>1 DEF BeingApplied, InRestart
  <1>3. Carried' BY <1>2 DEF Carried
  <1>4. FreshInv' BY <1>1 DEF FreshInv
  <1>5. StoppedInv' BY <1>1 DEF StoppedInv
  <1>6. OwedInv' BY <1>1 DEF OwedInv, InRestart
  <1>7. EditInv' BY <1>1, <1>3 DEF EditInv
  <1>8. DriftInv' BY <1>3 DEF DriftInv
  <1> QED BY <1>4, <1>5, <1>6, <1>7, <1>8

\* GetXrayConfig fails: its callers ask again, and what its AddTraffic did
\* to a client counts as a failure nobody was told of.
LEMMA ReadConfigFailsKnown ==
    ASSUME IInv, KnownIInv, NEW c \in Callers, ReadConfigFails(c) PROVE KnownIInv'
  <1> USE DEF IInv, KnownIInv
  <1>1. /\ pc[c] = "config" /\ Return(c, TRUE)
        /\ UNCHANGED <<proc, manual, need, held, cfg, edit>>
    BY DEF ReadConfigFails, flags
  <1>2. pc[c] \in InRestart BY <1>1 DEF InRestart
  <1>3. ~BeingApplied' /\ OwedInv' BY <1>1, <1>2, ReturnEnds
  <1>4. Carried => Carried' BY <1>1, FailureCarries
  <1>5. EditInv' /\ DriftInv'
    <2>1. CASE UNCHANGED <<db, core, unowned>>
      BY <2>1, <1>1, <1>4, CallersMove DEF proc
    <2>2. ASSUME NEW u \in Users, NEW new \in Creds \cup {Off}, NEW ok \in BOOLEAN,
                 AddTraffic(u, new, ok), unowned' = unowned \cup {u}
          PROVE  EditInv' /\ DriftInv'
      <3>1. u \in unowned' BY <2>2
      <3> QED BY <1>1, <1>3, <1>4, <2>2, <3>1, PollKnown
    <2> QED BY <2>1, <2>2 DEF ReadConfigFails
  <1>6. FreshInv' BY <1>3 DEF FreshInv
  <1>7. StoppedInv' BY <1>1 DEF StoppedInv, proc
  <1> QED BY <1>3, <1>5, <1>6, <1>7

\* Inside RestartXray, on the way to apply the config.
LEMMA DecideKnown ==
    ASSUME IInv, KnownIInv, NEW c \in Callers,
           DecideStart(c) \/ DecideApply(c) \/ HotRemove(c) \/ HotFails(c) \/ StopProcess(c)
    PROVE  KnownIInv'
  <1> USE DEF IInv, KnownIInv
  <1>1. /\ pc[c] \in InRestart \ {"config"} /\ pc'[c] \in InRestart \ {"config"}
        /\ \A d \in Callers : d # c => pc'[d] = pc[d]
    BY DEF DecideStart, DecideApply, HotRemove, HotFails, StopProcess, GoTo, TypeOK, InRestart
  <1>2. /\ UNCHANGED <<db, snap, manual, owed, cfg, edit, unowned>>
        /\ up' => up /\ UNCHANGED leaving
    BY DEF DecideStart, DecideApply, HotRemove, HotFails, StopProcess, proc, flags, jobs
  <1>3. BeingApplied /\ BeingApplied' BY <1>1 DEF BeingApplied
  <1>4. Carried' BY <1>3 DEF Carried
  <1>5. FreshInv' BY <1>2, <1>3 DEF FreshInv
  <1>6. StoppedInv' BY <1>2 DEF StoppedInv
  <1>7. OwedInv' BY <1>1, <1>2 DEF OwedInv
  <1>8. EditInv' BY <1>2, <1>4 DEF EditInv
  <1>9. DriftInv' BY <1>4 DEF DriftInv
  <1> QED BY <1>5, <1>6, <1>7, <1>8, <1>9

\* RestartXray finds the snapshot equal, or leaves it equal, to its config.
LEMMA AppliedKnown ==
    ASSUME IInv, KnownIInv, NEW c \in Callers,
           DecideNothing(c) \/ HotAdd(c) \/ StartProcess(c) \/ StartFails(c)
    PROVE  KnownIInv'
  <1> USE DEF IInv, KnownIInv
  <1>1. /\ pc[c] \in InRestart \ {"config"}
        /\ \E failed \in BOOLEAN : Return(c, failed)
    BY DEF DecideNothing, HotAdd, StartProcess, StartFails, InRestart
  <1>2. UNCHANGED <<db, manual, cfg, edit, unowned>> /\ snap' = cfg
    BY DEF DecideNothing, NoRestartNeeded, HotAdd, StartProcess, StartFails, NewProcess, proc, flags
  <1>3. BeingApplied BY <1>1 DEF BeingApplied
  <1>4. ~BeingApplied' /\ OwedInv' BY <1>1, ReturnEnds
  <1>5. EditInv' /\ DriftInv' BY <1>2, <1>3, Applied
  <1>6. FreshInv' BY <1>4 DEF FreshInv
  <1>7. ~manual BY <1>1 DEF NotStopped
  <1>8. StoppedInv' BY <1>2, <1>7 DEF StoppedInv
  <1> QED BY <1>4, <1>5, <1>6, <1>8

\* A refusal is shown.
LEMMA DecideRefuseKnown ==
    ASSUME IInv, KnownIInv, NEW c \in Callers, DecideRefuse(c) PROVE KnownIInv'
  <1> USE DEF IInv, KnownIInv
  <1>1. /\ pc[c] \in InRestart /\ Return(c, TRUE) /\ held'
        /\ UNCHANGED <<db, core, up, leaving, snap, manual, edit, unowned>>
    BY DEF DecideRefuse, proc, InRestart
  <1>2. ~BeingApplied' /\ OwedInv' BY <1>1, ReturnEnds
  <1>3. Carried' BY <1>1 DEF Carried
  <1>4. EditInv' /\ DriftInv' BY <1>1, <1>3, CallersMove
  <1>5. FreshInv' BY <1>2 DEF FreshInv
  <1>6. StoppedInv' BY <1>1 DEF StoppedInv
  <1> QED BY <1>2, <1>4, <1>5, <1>6

\* The restart that failed, or that is owed, is asked for again.
LEMMA RearmKnown ==
    ASSUME IInv, KnownIInv, NEW c \in Callers, Rearm(c) PROVE KnownIInv'
  <1> USE DEF IInv, KnownIInv
  <1>1. /\ pc[c] = "rearm" /\ pc'[c] = "idle" /\ need'
        /\ \A d \in Callers : d # c => pc'[d] = pc[d]
        /\ UNCHANGED <<db, core, up, leaving, snap, manual, owed, cfg, edit, unowned>>
    BY DEF Rearm, GoTo, TypeOK, proc, jobs
  <1>2. BeingApplied' <=> BeingApplied BY <1>1 DEF BeingApplied, InRestart
  <1>3. Carried' BY <1>1 DEF Carried
  <1>4. EditInv' /\ DriftInv' BY <1>1, <1>3, CallersMove
  <1>5. FreshInv' /\ StoppedInv' BY <1>1, <1>2 DEF FreshInv, StoppedInv
  <1>6. OwedInv' BY <1>1 DEF OwedInv, InRestart
  <1> QED BY <1>4, <1>5, <1>6

\* StopXray and a crash take the core out of the claim; a core that survives
\* its stop is marked as one that should be gone.
LEMMA DownKnown ==
    ASSUME IInv, KnownIInv, StopXray \/ Crash PROVE KnownIInv'
  <1> USE DEF IInv, KnownIInv
  <1>1. UNCHANGED <<db, snap, core, need, held, owed, pc, cfg, edit, unowned>>
    BY DEF StopXray, Crash, flags, jobs, calls
  <1>2. (up' => up) /\ (up' /\ ~leaving' => up /\ ~leaving) /\ StoppedInv'
    <2>1. CASE StopXray
      <3>1. up' \in {FALSE, up} /\ (leaving' <=> leaving \/ up) BY <2>1 DEF StopXray
      <3>2. up' => up BY <3>1, Zenon
      <3> QED BY <3>1, <3>2 DEF StoppedInv
    <2>2. CASE Crash BY <2>2 DEF Crash, StoppedInv
    <2> QED BY <2>1, <2>2
  <1>3. (BeingApplied' <=> BeingApplied) /\ (Carried' <=> Carried)
    BY <1>1 DEF BeingApplied, Carried
  <1>4. \A v : (Settled(v)' <=> Settled(v)) /\ (EditInFlight(v)' <=> EditInFlight(v))
    BY <1>1 DEF Settled, EditInFlight
  <1>5. FreshInv' /\ OwedInv' BY <1>1, <1>3 DEF FreshInv, OwedInv
  <1>6. EditInv' BY <1>1, <1>2, <1>3, <1>4 DEF EditInv
  <1>7. DriftInv' BY <1>1, <1>2, <1>3, <1>4 DEF DriftInv
  <1> QED BY <1>2, <1>5, <1>6, <1>7

\* No step loses the report of a drift.
LEMMA NextKnown ==
    ASSUME IInv, KnownIInv, [Next]_vars PROVE KnownIInv'
  <1>1. ASSUME NEW u \in Users, NEW new \in Creds \cup {Off}, EditCommit(u, new) PROVE KnownIInv'
    BY <1>1, EditCommitKnown
  <1>2. CASE LiveStep BY <1>2, LiveStepKnown, SetToNeedRestartKnown DEF LiveStep
  <1>3. CASE WatchdogTick \/ PendingTick \/ AdminRestart \/ SaveApply BY <1>3, CallKnown
  <1>4. ASSUME NEW u \in Users, NEW new \in Creds \cup {Off}, NEW ok \in BOOLEAN,
               TrafficPoll(u, new, ok) \/ NodeSyncPoll(u, new, ok)
        PROVE  KnownIInv'
    BY <1>4, TrafficPollKnown, NodeSyncPollKnown
  <1>5. ASSUME NEW s \in Statics, NEW b \in Clashes, SaveSetting(s, b) PROVE KnownIInv'
    BY <1>5, SaveSettingKnown
  <1>6. ASSUME NEW c \in Callers, RestartStep(c) PROVE KnownIInv'
    BY <1>6, RestartBeginKnown, ReadConfigKnown, ReadConfigFailsKnown, DecideKnown,
       AppliedKnown, DecideRefuseKnown, RearmKnown DEF RestartStep
  <1>7. CASE StopXray \/ Crash BY <1>7, DownKnown
  <1>8. CASE UNCHANGED vars
    <2>1. UNCHANGED <<db, up, leaving, snap, core, manual, need, held, owed, pc, cfg, edit, unowned>>
      BY <1>8 DEF vars, proc, flags, jobs, calls
    <2>2. (BeingApplied' <=> BeingApplied) /\ (Carried' <=> Carried)
      BY <2>1 DEF BeingApplied, Carried
    <2>3. EditInv' /\ DriftInv' BY <2>1, <2>2, CallersMove DEF KnownIInv
    <2> QED BY <2>1, <2>2, <2>3 DEF KnownIInv, FreshInv, StoppedInv, OwedInv
  <1> QED BY <1>1, <1>2, <1>3, <1>4, <1>5, <1>6, <1>7, <1>8 DEF Next

\* Every drift of a running core has somebody to report it, in every reachable
\* state: KnownIInv is inductive on top of IInv.
THEOREM KnownInvariant == Spec => []KnownIInv
  <1>1. Init => KnownIInv
    BY DEF Init, NoEdit, KnownIInv, FreshInv, StoppedInv, OwedInv, EditInv, DriftInv, BeingApplied,
           InRestart
  <1>2. IInv /\ KnownIInv /\ [Next]_vars => KnownIInv' BY NextKnown
  <1> QED BY <1>1, <1>2, Inductive, PTL DEF Spec

\* Once every edit, poll and RestartXray has returned, a client the running core
\* serves otherwise than the database says is flagged for a restart or its
\* refusal shown, unless the snapshot hides it or two changes overlapped.
THEOREM DriftIsKnownHolds == Spec => []DriftIsKnown
  <1>1. IInv /\ KnownIInv => DriftIsKnown
    <2> SUFFICES ASSUME IInv, KnownIInv, Quiet PROVE DriftIsKnown BY DEF DriftIsKnown
    <2>1. ~BeingApplied BY DEF Quiet, BeingApplied, InRestart
    <2>2. ~owed BY DEF Quiet, KnownIInv, OwedInv, InRestart
    <2>3. Carried => need \/ held BY <2>1, <2>2 DEF Quiet, Carried
    <2>4. \A u \in Users : ~EditInFlight(u) BY DEF Quiet, EditInFlight
    <2> QED BY <2>3, <2>4 DEF KnownIInv, DriftInv, Settled, DriftIsKnown
  <1> QED BY <1>1, Inductive, KnownInvariant, PTL
=============================================================================
