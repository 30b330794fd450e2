--------------------------- MODULE TunnelManager ---------------------------
(* tunnel.Manager for one key: the map of managed records, opMu, fp and the     *)
(* process of each record, the config file of the key, and the callers that     *)
(* share them: the reconcile job, inbound edits, manual stops and the panel's   *)
(* shutdown. A record that was deleted from the map lives on with its holders.  *)
EXTENDS Naturals, FiniteSets

CONSTANTS
    Editors,         \* requests that edit the inbound
    Job, Stopper,    \* the reconcile job, StopAll or a manual StopKey
    Configs,         \* rendered configs, one fingerprint each
    Absent, Off,     \* no inbound, an inbound that is disabled
    Records,         \* managed records that may be in use at once
    Nothing,            \* no record, no process, no fingerprint, no file, no holder
    MaxEdits,        \* bound: edits in a behaviour
    MaxFaults        \* bound: crashes, failed stops and starts, panel exits

Callers == Editors \cup {Job, Stopper}
Wants == Configs \cup {Absent, Off}

ASSUME CallerAssumption == Job # Stopper /\ Job \notin Editors /\ Stopper \notin Editors
ASSUME WantAssumption == Absent # Off /\ Absent \notin Configs /\ Off \notin Configs
ASSUME NothingAssumption == Nothing \notin Configs \cup Records \cup Callers \cup {Absent, Off}

VARIABLES
    want,     \* database: the inbound
    cell,     \* m.cores[key]
    holder,   \* who holds a record's opMu
    run,      \* the config a record's process runs
    fp,       \* managed.fp, the config it was started for
    disk,     \* the config file of the key
    swept,    \* Manager.swept
    stray,    \* a process of an earlier panel run is alive
    pc,       \* where a caller is
    goal,     \* the inbound as the caller saw it
    mine,     \* the record the caller holds
    edits,    \* bound: edits so far
    faults,   \* bound: faults so far
    excuses   \* ghost: situations that lose track of a process, see TunnelTracked

fileVars == <<want, disk, swept, stray>>
recVars == <<cell, holder, run, fp>>
callVars == <<pc, goal, mine>>
tunnelVars == <<fileVars, recVars, callVars, edits, faults, excuses>>

TunnelInit ==
    /\ want = Absent /\ cell = Nothing /\ disk = Nothing /\ swept = FALSE /\ stray = FALSE
    /\ holder = [r \in Records |-> Nothing]
    /\ run = [r \in Records |-> Nothing] /\ fp = [r \in Records |-> Nothing]
    /\ pc = [c \in Callers |-> "idle"] /\ goal = [c \in Callers |-> Absent]
    /\ mine = [c \in Callers |-> Nothing]
    /\ edits = 0 /\ faults = 0 /\ excuses = {}

Fault == faults < MaxFaults /\ faults' = faults + 1
Goto(c, l) == pc' = [pc EXCEPT ![c] = l]
Lets(c) == mine' = [mine EXCEPT ![c] = Nothing]

(* Caller c goes on with label l, or is done and forgets the inbound it saw.    *)
Continues(c, l) ==
    /\ Goto(c, l)
    /\ goal' = [goal EXCEPT ![c] = IF l = "idle" THEN Absent ELSE @]

(* The Remove of record r is under way.                                         *)
Removing(r) == \E c \in Callers : mine[c] = r /\ pc[c] \in {"removeStop", "removeFiles"}

(* Proc.Stop on record r: it ends, or the signal or the wait for it fails and   *)
(* the process goes on.                                                         *)
StopEnds(r) == run' = [run EXCEPT ![r] = Nothing] /\ UNCHANGED faults
StopFails(r) == run[r] # Nothing /\ Fault /\ UNCHANGED run

-----------------------------------------------------------------------------
(* The callers. An edit commits first (AddInbound, UpdateInbound, DelInbound,   *)
(* SetInboundEnable); after the commit UpdateInbound and SetInboundEnable       *)
(* remove the key and then ensure it if the inbound is enabled. An inbound that *)
(* is created or deleted while it is off is left to the job.                    *)
LeftToJob(w) == {want, w} = {Absent, Off}

Edit(c, w) ==
    /\ pc[c] = "idle" /\ edits < MaxEdits
    /\ w # want
    /\ edits' = edits + 1
    /\ want' = w
    /\ goal' = [goal EXCEPT ![c] = IF LeftToJob(w) THEN @ ELSE w]
    /\ Goto(c, IF LeftToJob(w) THEN "idle" ELSE IF want = Absent THEN "ensure" ELSE "remove")
    /\ UNCHANGED <<recVars, disk, swept, stray, mine, faults, excuses>>

(* TunnelJob: a reconcile* function lists the inbounds, and ReconcileWanted     *)
(* ensures what was listed and removes the keys that were not.                  *)
JobList ==
    /\ pc[Job] = "idle"
    /\ goal' = [goal EXCEPT ![Job] = want]
    /\ Goto(Job, IF want = Absent THEN "remove" ELSE "ensure")
    /\ UNCHANGED <<recVars, fileVars, mine, edits, faults, excuses>>

AfterRemove(c) ==
    IF c = Job THEN "sweepFiles" ELSE IF goal[c] \in Configs THEN "ensure" ELSE "idle"

(* sweepOrphanConfigFiles, without any lock.                                    *)
SweepFiles ==
    /\ pc[Job] = "sweepFiles"
    /\ disk' = Nothing
    /\ Continues(Job, "idle")
    /\ UNCHANGED <<recVars, want, swept, stray, mine, edits, faults, excuses>>

-----------------------------------------------------------------------------
(* Ensure: sweepOrphans is done by the first caller only, the others do not     *)
(* wait for it. It kills by name, so also what was started in the meantime.     *)
EnsureBegin(c) ==
    /\ pc[c] = "ensure"
    /\ Goto(c, IF swept THEN "acquire" ELSE "sweep")
    /\ swept' = TRUE
    /\ UNCHANGED <<recVars, want, disk, stray, goal, mine, edits, faults, excuses>>

SweepOrphans(c) ==
    /\ pc[c] = "sweep"
    /\ stray' = FALSE
    /\ run' = [r \in Records |-> Nothing]
    /\ Goto(c, "acquire")
    /\ UNCHANGED <<cell, holder, fp, want, disk, swept, goal, mine, edits, faults, excuses>>

(* A record nobody can reach any more; its memory may be a new record.          *)
Unused(r) == r # cell /\ run[r] = Nothing /\ \A c \in Callers : mine[c] # r
Fresh == {r \in Records : Unused(r) /\ r = CHOOSE x \in Records : Unused(x)}

Acquire(c) ==
    /\ pc[c] = "acquire"
    /\ \/ /\ cell # Nothing
          /\ mine' = [mine EXCEPT ![c] = cell]
          /\ UNCHANGED <<cell, fp>>
       \/ /\ cell = Nothing
          /\ \E r \in Fresh :
               /\ cell' = r
               /\ fp' = [fp EXCEPT ![r] = Nothing]
               /\ mine' = [mine EXCEPT ![c] = r]
    /\ Goto(c, "opMu")
    /\ UNCHANGED <<holder, run, fileVars, goal, edits, faults, excuses>>

(* Another caller works on the file of the key through another record.          *)
Beside(c) == \E d \in Callers \ {c} : mine[d] # mine[c] /\ pc[d] \in {"written", "start"}

(* opMu is taken. The ghost notes that the record was removed meanwhile, or     *)
(* that two records of the key are worked on at once.                           *)
Locks(c) ==
    /\ pc[c] = "opMu" /\ holder[mine[c]] = Nothing
    /\ excuses' = excuses \cup (IF mine[c] # cell /\ ~Removing(mine[c]) THEN {"outrun"} ELSE {})
                          \cup (IF Beside(c) THEN {"shared"} ELSE {})

(* A disabled instance: the process is stopped, and fp cleared if that worked.  *)
EnsureOff(c) ==
    /\ Locks(c) /\ goal[c] = Off
    /\ \/ StopEnds(mine[c]) /\ fp' = [fp EXCEPT ![mine[c]] = Nothing]
       \/ StopFails(mine[c]) /\ UNCHANGED fp
    /\ Continues(c, "idle") /\ Lets(c)
    /\ UNCHANGED <<cell, holder, fileVars, edits>>

(* An enabled one: the file is written first.                                   *)
EnsureWrite(c) ==
    /\ Locks(c) /\ goal[c] \in Configs
    /\ holder' = [holder EXCEPT ![mine[c]] = c]
    /\ disk' = goal[c]
    /\ Goto(c, "written")
    /\ UNCHANGED <<cell, run, fp, want, swept, stray, goal, mine, edits, faults>>

EnsureDone(c) ==
    /\ holder' = [holder EXCEPT ![mine[c]] = Nothing]
    /\ Continues(c, "idle") /\ Lets(c)

(* Faulty variant: only a dead process is started again.                        *)
NothingToDoIfAlive(c) == run[mine[c]] # Nothing

(* It runs and was started for this config.                                     *)
NothingToDo(c) == run[mine[c]] # Nothing /\ fp[mine[c]] = goal[c]

EnsureSame(c) ==
    /\ pc[c] = "written" /\ NothingToDo(c)
    /\ EnsureDone(c)
    /\ UNCHANGED <<cell, run, fp, fileVars, edits, faults, excuses>>

EnsureStop(c) ==
    /\ pc[c] = "written" /\ ~NothingToDo(c)
    /\ StopEnds(mine[c]) \/ StopFails(mine[c])
    /\ Goto(c, "start")
    /\ UNCHANGED <<cell, holder, fp, fileVars, goal, mine, edits, excuses>>

(* start: Proc.Start refuses while the old process lives. The new one reads the *)
(* file of the key; without a file it exits at once.                            *)
EnsureStart(c) ==
    /\ pc[c] = "start" /\ run[mine[c]] = Nothing
    /\ run' = [run EXCEPT ![mine[c]] = disk]
    /\ fp' = [fp EXCEPT ![mine[c]] = goal[c]]
    /\ EnsureDone(c)
    /\ UNCHANGED <<cell, fileVars, edits, faults, excuses>>

(* Faulty variant: the refusal is not looked at and fp is set all the same.     *)
RefusalIgnored(c) ==
    /\ pc[c] = "start" /\ run[mine[c]] # Nothing
    /\ fp' = [fp EXCEPT ![mine[c]] = goal[c]]
    /\ EnsureDone(c)
    /\ UNCHANGED <<cell, run, fileVars, edits, faults, excuses>>

StartRefused(c) ==
    /\ pc[c] = "start" /\ run[mine[c]] # Nothing
    /\ EnsureDone(c)
    /\ UNCHANGED <<cell, run, fp, fileVars, edits, faults, excuses>>

StartFails(c) ==
    /\ pc[c] = "start" /\ run[mine[c]] = Nothing /\ Fault
    /\ EnsureDone(c)
    /\ UNCHANGED <<cell, run, fp, fileVars, edits, excuses>>

-----------------------------------------------------------------------------
(* Remove: the record leaves the map, then its opMu is taken.                   *)
RemoveDelete(c) ==
    /\ pc[c] = "remove"
    /\ cell' = Nothing
    /\ mine' = [mine EXCEPT ![c] = cell]
    /\ Continues(c, IF cell = Nothing THEN AfterRemove(c) ELSE "removeStop")
    /\ UNCHANGED <<holder, run, fp, fileVars, edits, faults, excuses>>

(* Faulty variant: the process is stopped in the middle of another operation.   *)
RemoveStopUnlocked(c) ==
    /\ pc[c] = "removeStop"
    /\ run' = [run EXCEPT ![mine[c]] = Nothing]
    /\ fp' = [fp EXCEPT ![mine[c]] = Nothing]
    /\ Continues(c, AfterRemove(c)) /\ Lets(c)
    /\ UNCHANGED <<cell, holder, fileVars, edits, faults, excuses>>

RemoveStop(c) ==
    /\ pc[c] = "removeStop" /\ holder[mine[c]] = Nothing
    /\ holder' = [holder EXCEPT ![mine[c]] = c]
    /\ \/ StopEnds(mine[c]) /\ UNCHANGED excuses
       \/ StopFails(mine[c]) /\ excuses' = excuses \cup {"survivor"}
    /\ fp' = [fp EXCEPT ![mine[c]] = Nothing]
    /\ Goto(c, "removeFiles")
    /\ UNCHANGED <<cell, fileVars, goal, mine, edits>>

(* removeManagedFiles.                                                          *)
RemoveFiles(c) ==
    /\ pc[c] = "removeFiles"
    /\ disk' = Nothing
    /\ holder' = [holder EXCEPT ![mine[c]] = Nothing]
    /\ Continues(c, AfterRemove(c)) /\ Lets(c)
    /\ UNCHANGED <<cell, run, fp, want, swept, stray, edits, faults, excuses>>

(* StopAll and StopKey: the record as it is in the map now, stopped under opMu. *)
StopBegin ==
    /\ pc[Stopper] = "idle" /\ cell # Nothing /\ Fault
    /\ mine' = [mine EXCEPT ![Stopper] = cell]
    /\ Goto(Stopper, "stop")
    /\ UNCHANGED <<recVars, fileVars, goal, edits, excuses>>

StopProcess ==
    /\ pc[Stopper] = "stop" /\ holder[mine[Stopper]] = Nothing
    /\ StopEnds(mine[Stopper]) \/ StopFails(mine[Stopper])
    /\ fp' = [fp EXCEPT ![mine[Stopper]] = Nothing]
    /\ Goto(Stopper, "idle") /\ Lets(Stopper)
    /\ UNCHANGED <<cell, holder, fileVars, goal, edits, excuses>>

-----------------------------------------------------------------------------
(* A process dies by itself.                                                    *)
ProcessCrash(r) ==
    /\ run[r] # Nothing /\ Fault
    /\ run' = [run EXCEPT ![r] = Nothing]
    /\ UNCHANGED <<cell, holder, fp, fileVars, callVars, edits, excuses>>

(* The panel ends, with or without a StopAll, and starts again: its memory is   *)
(* gone, its processes are not.                                                 *)
PanelRestart ==
    /\ Fault
    /\ stray' = (stray \/ \E r \in Records : run[r] # Nothing)
    /\ swept' = FALSE /\ cell' = Nothing
    /\ holder' = [r \in Records |-> Nothing]
    /\ run' = [r \in Records |-> Nothing] /\ fp' = [r \in Records |-> Nothing]
    /\ pc' = [c \in Callers |-> "idle"] /\ goal' = [c \in Callers |-> Absent]
    /\ mine' = [c \in Callers |-> Nothing]
    /\ excuses' = {}
    /\ UNCHANGED <<want, disk, edits>>

EnsureSteps(c) ==
    \/ EnsureBegin(c) \/ SweepOrphans(c) \/ Acquire(c) \/ EnsureOff(c) \/ EnsureWrite(c)
    \/ EnsureSame(c) \/ EnsureStop(c) \/ EnsureStart(c) \/ StartRefused(c) \/ StartFails(c)

RemoveSteps(c) == RemoveDelete(c) \/ RemoveStop(c) \/ RemoveFiles(c)

JobSteps == JobList \/ SweepFiles \/ EnsureSteps(Job) \/ RemoveSteps(Job)

TunnelNext ==
    \/ JobSteps \/ StopBegin \/ StopProcess \/ PanelRestart
    \/ \E c \in Editors, w \in Wants : Edit(c, w)
    \/ \E c \in Editors : EnsureSteps(c) \/ RemoveSteps(c)
    \/ \E r \in Records : ProcessCrash(r)

(* Cron starts the job again and again; what was begun goes on, and a waiter    *)
(* gets opMu at last (Go's mutex does not starve).                            *)
TunnelFairness ==
    /\ WF_tunnelVars(JobSteps) /\ SF_tunnelVars(StopProcess)
    /\ \A c \in Editors :
         /\ WF_tunnelVars(EnsureSteps(c) \/ RemoveSteps(c))
         /\ SF_tunnelVars(EnsureOff(c) \/ EnsureWrite(c) \/ RemoveStop(c))

TunnelSpec == TunnelInit /\ [][TunnelNext]_tunnelVars /\ TunnelFairness

-----------------------------------------------------------------------------
(* Types of the state of tunnel.Manager and its callers.                        *)
TunnelTypeOK ==
    /\ want \in Wants /\ disk \in Configs \cup {Nothing}
    /\ swept \in BOOLEAN /\ stray \in BOOLEAN
    /\ cell \in Records \cup {Nothing}
    /\ holder \in [Records -> Callers \cup {Nothing}]
    /\ run \in [Records -> Configs \cup {Nothing}] /\ fp \in [Records -> Configs \cup {Nothing}]
    /\ pc \in [Callers -> {"idle", "ensure", "sweep", "acquire", "opMu", "written", "start",
                           "remove", "removeStop", "removeFiles", "sweepFiles", "stop"}]
    /\ goal \in [Callers -> Wants] /\ mine \in [Callers -> Records \cup {Nothing}]
    /\ edits \in Nat /\ faults \in Nat
    /\ excuses \subseteq {"outrun", "survivor", "shared"}

(* The manager never loses track of a process it started: its record is in the  *)
(* map, where the next Ensure, Remove or StopAll finds it, or a Remove of it is *)
(* under way. Excused are a Remove whose stop failed, and an Ensure that got    *)
(* its record before a Remove and opMu after it (manager.go:313).               *)
TunnelTracked ==
    excuses \cap {"outrun", "survivor"} = {} =>
        \A r \in Records : run[r] # Nothing => r = cell \/ Removing(r)

(* Ensure leaves a running process alone when fp equals the wanted fingerprint: *)
(* then the process does run that config, although the file is shared by all    *)
(* records the key ever had. Excused are two Ensures that hold two records at   *)
(* once.                                                                        *)
FingerprintTells ==
    "shared" \notin excuses /\ cell # Nothing => run[cell] \in {Nothing} \cup {fp[cell]} \/ fp[cell] = Nothing

(* Everything is as the database says: no process without an enabled inbound,   *)
(* one that runs the stored config with it. A process of an earlier run is gone *)
(* except if no Ensure was ever called.                                         *)
TunnelSettled ==
    /\ IF want \in Configs THEN cell # Nothing /\ run[cell] = want
       ELSE \A r \in Records : run[r] = Nothing
    /\ stray => want = Absent /\ ~swept

(* Once edits and faults cease the sidecar follows the database, whatever       *)
(* crashed, failed, was stopped or raced before (TunnelJob.Run).                *)
TunnelConverges == <>[](TunnelSettled \/ excuses # {})
=============================================================================
