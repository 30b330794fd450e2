-------------------------- MODULE Services_proofs ---------------------------
(* Proofs about two services of the panel. TunnelManager: no process is lost and the    *)
(* fingerprint tells what runs, for any callers, records and configs. ClientQuota:      *)
(* renewals are charged as paid and the copies of a client agree, for any inbounds,      *)
(* period, allowance, quota and terms.                                                 *)
EXTENDS TunnelManager, ClientQuota, WellFoundedInduction, TLAPS

(* A caller that works on a record holds its opMu.                                 *)
HoldInv ==
    \A c \in Callers :
        /\ pc[c] \in {"opMu", "written", "start", "removeStop", "removeFiles", "stop"} => mine[c] \in Records
        /\ pc[c] \in {"written", "start", "removeFiles"} => holder[mine[c]] = c
        /\ pc[c] \in {"written", "start"} => goal[c] \in Configs

(* A process that runs is found in the map or by the Remove that is under way, and so  *)
(* is the record an Ensure is about to start one for; a Remove has stopped its process   *)
(* before it goes on, unless one of the two exceptions was met.                        *)
Excused == excuses \cap {"outrun", "survivor"} # {}

TrackInv ==
    ~Excused =>
        /\ \A r \in Records : run[r] # Nothing => r = cell \/ Removing(r)
        /\ \A c \in Callers :
             /\ pc[c] \in {"written", "start"} => mine[c] = cell \/ Removing(mine[c])
             /\ pc[c] = "removeFiles" => run[mine[c]] = Nothing

(* The process of a record runs the config fp names, and the file is the one that an    *)
(* Ensure wrote, or gone, until its process has read it.                               *)
FileInv ==
    "shared" \notin excuses =>
        /\ \A r \in Records : run[r] = Nothing \/ run[r] = fp[r] \/ fp[r] = Nothing
        /\ \A c \in Callers : pc[c] \in {"written", "start"} => disk = Nothing \/ disk = goal[c]

TunnelIInv == TunnelTypeOK /\ HoldInv /\ TrackInv /\ FileInv

LEMMA AbsentWanted == Absent \in Wants BY DEF Wants

LEMMA TunnelInitial == TunnelInit => TunnelIInv
  <1> SUFFICES ASSUME TunnelInit PROVE TunnelIInv OBVIOUS
  <1>1. TunnelTypeOK BY DEF TunnelInit, TunnelTypeOK, Wants
  <1>2. HoldInv BY DEF TunnelInit, HoldInv
  <1>3. TrackInv BY DEF TunnelInit, TrackInv
  <1>4. FileInv BY DEF TunnelInit, FileInv
  <1> QED BY <1>1, <1>2, <1>3, <1>4 DEF TunnelIInv

(* One step keeps each part of the invariant, action by action.                         *)
LEMMA TunnelTypeOKStep == ASSUME TunnelIInv, [TunnelNext]_tunnelVars PROVE TunnelTypeOK'
  <1> USE DEF TunnelIInv, fileVars, recVars, callVars, Goto, Lets, Fault, Continues
  <1>0. Job \in Callers /\ Stopper \in Callers BY DEF Callers
  <1>1. ASSUME NEW c \in Callers, NEW w \in Wants, Edit(c, w) PROVE TunnelTypeOK'
    BY <1>1 DEF Edit, LeftToJob, TunnelTypeOK, HoldInv
  <1>2. CASE JobList BY <1>2, <1>0 DEF JobList, TunnelTypeOK, HoldInv
  <1>3. CASE SweepFiles BY <1>3, <1>0, AbsentWanted DEF SweepFiles, TunnelTypeOK, HoldInv
  <1>4. ASSUME NEW c \in Callers, EnsureBegin(c) PROVE TunnelTypeOK'
    BY <1>4 DEF EnsureBegin, TunnelTypeOK, HoldInv
  <1>5. ASSUME NEW c \in Callers, SweepOrphans(c) PROVE TunnelTypeOK'
    BY <1>5 DEF SweepOrphans, TunnelTypeOK, HoldInv
  <1>6. ASSUME NEW c \in Callers, Acquire(c) PROVE TunnelTypeOK'
    BY <1>6 DEF Acquire, Fresh, Unused, TunnelTypeOK, HoldInv
  <1>7. ASSUME NEW c \in Callers, EnsureOff(c) PROVE TunnelTypeOK'
    <2>1. /\ run' \in [Records -> Configs \cup {Nothing}] /\ fp' \in [Records -> Configs \cup {Nothing}]
          /\ faults' \in Nat
      BY <1>7 DEF EnsureOff, StopEnds, StopFails, TunnelTypeOK
    <2>2. excuses' \subseteq {"outrun", "survivor", "shared"} BY <1>7 DEF EnsureOff, Locks, TunnelTypeOK
    <2> QED BY <1>7, <2>1, <2>2, AbsentWanted DEF EnsureOff, TunnelTypeOK
  <1>8. ASSUME NEW c \in Callers, EnsureWrite(c) PROVE TunnelTypeOK'
    BY <1>8 DEF EnsureWrite, Locks, TunnelTypeOK, HoldInv
  <1>9. ASSUME NEW c \in Callers, EnsureSame(c) PROVE TunnelTypeOK'
    BY <1>9, AbsentWanted DEF EnsureSame, EnsureDone, TunnelTypeOK, HoldInv
  <1>10. ASSUME NEW c \in Callers, EnsureStop(c) PROVE TunnelTypeOK'
    BY <1>10 DEF EnsureStop, StopEnds, StopFails, TunnelTypeOK, HoldInv
  <1>11. ASSUME NEW c \in Callers, EnsureStart(c) PROVE TunnelTypeOK'
    BY <1>11, AbsentWanted DEF EnsureStart, EnsureDone, TunnelTypeOK, HoldInv
  <1>12. ASSUME NEW c \in Callers, StartRefused(c) PROVE TunnelTypeOK'
    BY <1>12, AbsentWanted DEF StartRefused, EnsureDone, TunnelTypeOK, HoldInv
  <1>13. ASSUME NEW c \in Callers, StartFails(c) PROVE TunnelTypeOK'
    BY <1>13, AbsentWanted DEF StartFails, EnsureDone, TunnelTypeOK, HoldInv
  <1>14. ASSUME NEW c \in Callers, RemoveDelete(c) PROVE TunnelTypeOK'
    BY <1>14, AbsentWanted DEF RemoveDelete, AfterRemove, TunnelTypeOK, HoldInv
  <1>15. ASSUME NEW c \in Callers, RemoveStop(c) PROVE TunnelTypeOK'
    <2>1. run' \in [Records -> Configs \cup {Nothing}] /\ faults' \in Nat
      BY <1>15 DEF RemoveStop, StopEnds, StopFails, TunnelTypeOK
    <2>2. excuses' \subseteq {"outrun", "survivor", "shared"} BY <1>15 DEF RemoveStop, TunnelTypeOK
    <2> QED BY <1>15, <2>1, <2>2 DEF RemoveStop, TunnelTypeOK
  <1>16. ASSUME NEW c \in Callers, RemoveFiles(c) PROVE TunnelTypeOK'
    BY <1>16, AbsentWanted DEF RemoveFiles, AfterRemove, TunnelTypeOK, HoldInv
  <1>17. CASE StopBegin BY <1>17, <1>0 DEF StopBegin, TunnelTypeOK, HoldInv
  <1>18. CASE StopProcess
    BY <1>18, <1>0 DEF StopProcess, StopEnds, StopFails, TunnelTypeOK, HoldInv
  <1>19. ASSUME NEW r \in Records, ProcessCrash(r) PROVE TunnelTypeOK'
    BY <1>19 DEF ProcessCrash, TunnelTypeOK, HoldInv
  <1>20. CASE PanelRestart
    <2>1. stray' \in BOOLEAN /\ faults' \in Nat BY <1>20 DEF PanelRestart, TunnelTypeOK
    <2> QED BY <1>20, <2>1, AbsentWanted DEF PanelRestart, TunnelTypeOK
  <1>21. CASE UNCHANGED tunnelVars BY <1>21 DEF tunnelVars, TunnelTypeOK, HoldInv
  <1> QED
    BY <1>0, <1>1, <1>2, <1>3, <1>4, <1>5, <1>6, <1>7, <1>8, <1>9, <1>10, <1>11, <1>12, <1>13,
       <1>14, <1>15, <1>16, <1>17, <1>18, <1>19, <1>20, <1>21
    DEF TunnelNext, JobSteps, EnsureSteps, RemoveSteps, Callers

LEMMA HoldInvStep == ASSUME TunnelIInv, [TunnelNext]_tunnelVars PROVE HoldInv'
  <1> USE DEF TunnelIInv, fileVars, recVars, callVars, Goto, Lets, Fault, Continues
  <1>0. Job \in Callers /\ Stopper \in Callers BY DEF Callers
  <1>1. ASSUME NEW c \in Callers, NEW w \in Wants, Edit(c, w) PROVE HoldInv'
    BY <1>1, NothingAssumption DEF Edit, LeftToJob, HoldInv, TunnelTypeOK
  <1>2. CASE JobList BY <1>2, <1>0, NothingAssumption DEF JobList, HoldInv, TunnelTypeOK
  <1>3. CASE SweepFiles BY <1>3, <1>0, NothingAssumption DEF SweepFiles, HoldInv, TunnelTypeOK
  <1>4. ASSUME NEW c \in Callers, EnsureBegin(c) PROVE HoldInv'
    BY <1>4, NothingAssumption DEF EnsureBegin, HoldInv, TunnelTypeOK
  <1>5. ASSUME NEW c \in Callers, SweepOrphans(c) PROVE HoldInv'
    BY <1>5, NothingAssumption DEF SweepOrphans, HoldInv, TunnelTypeOK
  <1>6. ASSUME NEW c \in Callers, Acquire(c) PROVE HoldInv'
    BY <1>6, NothingAssumption DEF Acquire, Fresh, Unused, HoldInv, TunnelTypeOK
  <1>7. ASSUME NEW c \in Callers, EnsureOff(c) PROVE HoldInv'
    BY <1>7, NothingAssumption DEF EnsureOff, Locks, StopEnds, StopFails, HoldInv, TunnelTypeOK
  <1>8. ASSUME NEW c \in Callers, EnsureWrite(c) PROVE HoldInv'
    BY <1>8, NothingAssumption DEF EnsureWrite, Locks, HoldInv, TunnelTypeOK
  <1>9. ASSUME NEW c \in Callers, EnsureSame(c) PROVE HoldInv'
    BY <1>9, NothingAssumption DEF EnsureSame, EnsureDone, HoldInv, TunnelTypeOK
  <1>10. ASSUME NEW c \in Callers, EnsureStop(c) PROVE HoldInv'
    BY <1>10, NothingAssumption DEF EnsureStop, StopEnds, StopFails, HoldInv, TunnelTypeOK
  <1>11. ASSUME NEW c \in Callers, EnsureStart(c) PROVE HoldInv'
    BY <1>11, NothingAssumption DEF EnsureStart, EnsureDone, HoldInv, TunnelTypeOK
  <1>12. ASSUME NEW c \in Callers, StartRefused(c) PROVE HoldInv'
    BY <1>12, NothingAssumption DEF StartRefused, EnsureDone, HoldInv, TunnelTypeOK
  <1>13. ASSUME NEW c \in Callers, StartFails(c) PROVE HoldInv'
    BY <1>13, NothingAssumption DEF StartFails, EnsureDone, HoldInv, TunnelTypeOK
  <1>14. ASSUME NEW c \in Callers, RemoveDelete(c) PROVE HoldInv'
    BY <1>14, NothingAssumption DEF RemoveDelete, AfterRemove, HoldInv, TunnelTypeOK
  <1>15. ASSUME NEW c \in Callers, RemoveStop(c) PROVE HoldInv'
    BY <1>15, NothingAssumption DEF RemoveStop, StopEnds, StopFails, HoldInv, TunnelTypeOK
  <1>16. ASSUME NEW c \in Callers, RemoveFiles(c) PROVE HoldInv'
    BY <1>16, NothingAssumption DEF RemoveFiles, AfterRemove, HoldInv, TunnelTypeOK
  <1>17. CASE StopBegin BY <1>17, <1>0, NothingAssumption DEF StopBegin, HoldInv, TunnelTypeOK
  <1>18. CASE StopProcess
    BY <1>18, <1>0, NothingAssumption DEF StopProcess, StopEnds, StopFails, HoldInv, TunnelTypeOK
  <1>19. ASSUME NEW r \in Records, ProcessCrash(r) PROVE HoldInv'
    BY <1>19, NothingAssumption DEF ProcessCrash, HoldInv, TunnelTypeOK
  <1>20. CASE PanelRestart BY <1>20, NothingAssumption DEF PanelRestart, HoldInv, TunnelTypeOK
  <1>21. CASE UNCHANGED tunnelVars BY <1>21 DEF tunnelVars, HoldInv, TunnelTypeOK
  <1> QED
    BY <1>0, <1>1, <1>2, <1>3, <1>4, <1>5, <1>6, <1>7, <1>8, <1>9, <1>10, <1>11, <1>12, <1>13,
       <1>14, <1>15, <1>16, <1>17, <1>18, <1>19, <1>20, <1>21
    DEF TunnelNext, JobSteps, EnsureSteps, RemoveSteps, Callers

LEMMA TrackInvStep == ASSUME TunnelIInv, [TunnelNext]_tunnelVars PROVE TrackInv'
  <1> USE DEF TunnelIInv, fileVars, recVars, callVars, Goto, Lets, Fault, Continues
  <1>0. Job \in Callers /\ Stopper \in Callers BY DEF Callers
  <1>1. ASSUME NEW c \in Callers, NEW w \in Wants, Edit(c, w) PROVE TrackInv'
    BY <1>1, NothingAssumption DEF Edit, LeftToJob, TrackInv, Excused, HoldInv, TunnelTypeOK, Removing
  <1>2. CASE JobList
    BY <1>2, <1>0, NothingAssumption DEF JobList, TrackInv, Excused, HoldInv, TunnelTypeOK, Removing
  <1>3. CASE SweepFiles
    BY <1>3, <1>0, NothingAssumption DEF SweepFiles, TrackInv, Excused, HoldInv, TunnelTypeOK, Removing
  <1>4. ASSUME NEW c \in Callers, EnsureBegin(c) PROVE TrackInv'
    BY <1>4, NothingAssumption DEF EnsureBegin, TrackInv, Excused, HoldInv, TunnelTypeOK, Removing
  <1>5. ASSUME NEW c \in Callers, SweepOrphans(c) PROVE TrackInv'
    BY <1>5, NothingAssumption DEF SweepOrphans, TrackInv, Excused, HoldInv, TunnelTypeOK, Removing
  <1>6. ASSUME NEW c \in Callers, Acquire(c) PROVE TrackInv'
    BY <1>6, NothingAssumption DEF Acquire, Fresh, Unused, TrackInv, Excused, HoldInv, TunnelTypeOK, Removing
  <1>7. ASSUME NEW c \in Callers, EnsureOff(c) PROVE TrackInv'
    BY <1>7, NothingAssumption DEF EnsureOff, Locks, StopEnds, StopFails, TrackInv, Excused, HoldInv, TunnelTypeOK, Removing
  <1>8. ASSUME NEW c \in Callers, EnsureWrite(c) PROVE TrackInv'
    BY <1>8, NothingAssumption DEF EnsureWrite, Locks, TrackInv, Excused, HoldInv, TunnelTypeOK, Removing
  <1>9. ASSUME NEW c \in Callers, EnsureSame(c) PROVE TrackInv'
    BY <1>9, NothingAssumption DEF EnsureSame, EnsureDone, TrackInv, Excused, HoldInv, TunnelTypeOK, Removing
  <1>10. ASSUME NEW c \in Callers, EnsureStop(c) PROVE TrackInv'
    BY <1>10, NothingAssumption DEF EnsureStop, StopEnds, StopFails, TrackInv, Excused, HoldInv, TunnelTypeOK, Removing
  <1>11. ASSUME NEW c \in Callers, EnsureStart(c) PROVE TrackInv'
    BY <1>11, NothingAssumption DEF EnsureStart, EnsureDone, TrackInv, Excused, HoldInv, TunnelTypeOK, Removing
  <1>12. ASSUME NEW c \in Callers, StartRefused(c) PROVE TrackInv'
    BY <1>12, NothingAssumption DEF StartRefused, EnsureDone, TrackInv, Excused, HoldInv, TunnelTypeOK, Removing
  <1>13. ASSUME NEW c \in Callers, StartFails(c) PROVE TrackInv'
    BY <1>13, NothingAssumption DEF StartFails, EnsureDone, TrackInv, Excused, HoldInv, TunnelTypeOK, Removing
  <1>14. ASSUME NEW c \in Callers, RemoveDelete(c) PROVE TrackInv'
    BY <1>14, NothingAssumption DEF RemoveDelete, AfterRemove, TrackInv, Excused, HoldInv, TunnelTypeOK, Removing
  <1>15. ASSUME NEW c \in Callers, RemoveStop(c) PROVE TrackInv'
    BY <1>15, NothingAssumption DEF RemoveStop, StopEnds, StopFails, TrackInv, Excused, HoldInv, TunnelTypeOK, Removing
  <1>16. ASSUME NEW c \in Callers, RemoveFiles(c) PROVE TrackInv'
    BY <1>16, NothingAssumption DEF RemoveFiles, AfterRemove, TrackInv, Excused, HoldInv, TunnelTypeOK, Removing
  <1>17. CASE StopBegin
    BY <1>17, <1>0, NothingAssumption DEF StopBegin, TrackInv, Excused, HoldInv, TunnelTypeOK, Removing
  <1>18. CASE StopProcess
    BY <1>18, <1>0, NothingAssumption DEF StopProcess, StopEnds, StopFails, TrackInv, Excused, HoldInv, TunnelTypeOK, Removing
  <1>19. ASSUME NEW r \in Records, ProcessCrash(r) PROVE TrackInv'
    BY <1>19, NothingAssumption DEF ProcessCrash, TrackInv, Excused, HoldInv, TunnelTypeOK, Removing
  <1>20. CASE PanelRestart
    BY <1>20, NothingAssumption DEF PanelRestart, TrackInv, Excused, HoldInv, TunnelTypeOK, Removing
  <1>21. CASE UNCHANGED tunnelVars BY <1>21 DEF tunnelVars, TrackInv, Excused, HoldInv, TunnelTypeOK, Removing
  <1> QED
    BY <1>0, <1>1, <1>2, <1>3, <1>4, <1>5, <1>6, <1>7, <1>8, <1>9, <1>10, <1>11, <1>12, <1>13,
       <1>14, <1>15, <1>16, <1>17, <1>18, <1>19, <1>20, <1>21
    DEF TunnelNext, JobSteps, EnsureSteps, RemoveSteps, Callers

LEMMA FileInvStep == ASSUME TunnelIInv, [TunnelNext]_tunnelVars PROVE FileInv'
  <1> USE DEF TunnelIInv, fileVars, recVars, callVars, Goto, Lets, Fault, Continues
  <1>0. Job \in Callers /\ Stopper \in Callers BY DEF Callers
  <1>1. ASSUME NEW c \in Callers, NEW w \in Wants, Edit(c, w) PROVE FileInv'
    BY <1>1, NothingAssumption DEF Edit, LeftToJob, FileInv, HoldInv, TunnelTypeOK
  <1>2. CASE JobList BY <1>2, <1>0, NothingAssumption DEF JobList, FileInv, HoldInv, TunnelTypeOK
  <1>3. CASE SweepFiles
    BY <1>3, <1>0, NothingAssumption DEF SweepFiles, FileInv, HoldInv, TunnelTypeOK
  <1>4. ASSUME NEW c \in Callers, EnsureBegin(c) PROVE FileInv'
    BY <1>4, NothingAssumption DEF EnsureBegin, FileInv, HoldInv, TunnelTypeOK
  <1>5. ASSUME NEW c \in Callers, SweepOrphans(c) PROVE FileInv'
    BY <1>5, NothingAssumption DEF SweepOrphans, FileInv, HoldInv, TunnelTypeOK
  <1>6. ASSUME NEW c \in Callers, Acquire(c) PROVE FileInv'
    BY <1>6, NothingAssumption DEF Acquire, Fresh, Unused, FileInv, HoldInv, TunnelTypeOK
  <1>7. ASSUME NEW c \in Callers, EnsureOff(c) PROVE FileInv'
    BY <1>7, NothingAssumption DEF EnsureOff, Locks, StopEnds, StopFails, FileInv, HoldInv, TunnelTypeOK
  <1>8. ASSUME NEW c \in Callers, EnsureWrite(c) PROVE FileInv'
    <2>0. /\ pc[c] = "opMu" /\ holder[mine[c]] = Nothing /\ disk' = goal[c] /\ pc' = [pc EXCEPT ![c] = "written"]
          /\ excuses \subseteq excuses' /\ UNCHANGED <<run, fp, goal, mine>>
      BY <1>8 DEF EnsureWrite, Locks
    <2>1. "shared" \notin excuses' => ~Beside(c) BY <1>8 DEF EnsureWrite, Locks
    <2>2. ASSUME NEW d \in Callers, pc'[d] \in {"written", "start"}, "shared" \notin excuses'
          PROVE  disk' = goal[d]
      <3>1. CASE d = c BY <2>0, <3>1
      <3>2. CASE d # c
        <4>1. pc[d] \in {"written", "start"} BY <2>0, <2>2, <3>2 DEF TunnelTypeOK
        <4>2. mine[d] = mine[c] BY <2>1, <2>2, <3>2, <4>1 DEF Beside
        <4>3. holder[mine[d]] = d /\ d # Nothing BY <4>1, NothingAssumption DEF HoldInv
        <4> QED BY <2>0, <4>2, <4>3
      <3> QED BY <3>1, <3>2
    <2>3. "shared" \notin excuses' =>
            \A r \in Records : run'[r] = Nothing \/ run'[r] = fp'[r] \/ fp'[r] = Nothing
      BY <2>0 DEF FileInv
    <2> QED BY <2>0, <2>2, <2>3 DEF FileInv
  <1>9. ASSUME NEW c \in Callers, EnsureSame(c) PROVE FileInv'
    BY <1>9, NothingAssumption DEF EnsureSame, EnsureDone, FileInv, HoldInv, TunnelTypeOK
  <1>10. ASSUME NEW c \in Callers, EnsureStop(c) PROVE FileInv'
    BY <1>10, NothingAssumption DEF EnsureStop, StopEnds, StopFails, FileInv, HoldInv, TunnelTypeOK
  <1>11. ASSUME NEW c \in Callers, EnsureStart(c) PROVE FileInv'
    BY <1>11, NothingAssumption DEF EnsureStart, EnsureDone, FileInv, HoldInv, TunnelTypeOK
  <1>12. ASSUME NEW c \in Callers, StartRefused(c) PROVE FileInv'
    BY <1>12, NothingAssumption DEF StartRefused, EnsureDone, FileInv, HoldInv, TunnelTypeOK
  <1>13. ASSUME NEW c \in Callers, StartFails(c) PROVE FileInv'
    BY <1>13, NothingAssumption DEF StartFails, EnsureDone, FileInv, HoldInv, TunnelTypeOK
  <1>14. ASSUME NEW c \in Callers, RemoveDelete(c) PROVE FileInv'
    BY <1>14, NothingAssumption DEF RemoveDelete, AfterRemove, FileInv, HoldInv, TunnelTypeOK
  <1>15. ASSUME NEW c \in Callers, RemoveStop(c) PROVE FileInv'
    BY <1>15, NothingAssumption DEF RemoveStop, StopEnds, StopFails, FileInv, HoldInv, TunnelTypeOK
  <1>16. ASSUME NEW c \in Callers, RemoveFiles(c) PROVE FileInv'
    BY <1>16, NothingAssumption DEF RemoveFiles, AfterRemove, FileInv, HoldInv, TunnelTypeOK
  <1>17. CASE StopBegin
    BY <1>17, <1>0, NothingAssumption DEF StopBegin, FileInv, HoldInv, TunnelTypeOK
  <1>18. CASE StopProcess
    BY <1>18, <1>0, NothingAssumption DEF StopProcess, StopEnds, StopFails, FileInv, HoldInv, TunnelTypeOK
  <1>19. ASSUME NEW r \in Records, ProcessCrash(r) PROVE FileInv'
    BY <1>19, NothingAssumption DEF ProcessCrash, FileInv, HoldInv, TunnelTypeOK
  <1>20. CASE PanelRestart
    BY <1>20, NothingAssumption DEF PanelRestart, FileInv, HoldInv, TunnelTypeOK
  <1>21. CASE UNCHANGED tunnelVars BY <1>21 DEF tunnelVars, FileInv, HoldInv, TunnelTypeOK
  <1> QED
    BY <1>0, <1>1, <1>2, <1>3, <1>4, <1>5, <1>6, <1>7, <1>8, <1>9, <1>10, <1>11, <1>12, <1>13,
       <1>14, <1>15, <1>16, <1>17, <1>18, <1>19, <1>20, <1>21
    DEF TunnelNext, JobSteps, EnsureSteps, RemoveSteps, Callers

(* The invariant of tunnel.Manager: whoever works on a record holds its opMu, a       *)
(* process that runs is in the map or being removed, and fp names the config of the   *)
(* process.                                                                          *)
THEOREM TunnelInvariant == TunnelSpec => []TunnelIInv
  <1>1. TunnelIInv /\ [TunnelNext]_tunnelVars => TunnelIInv'
    BY TunnelTypeOKStep, HoldInvStep, TrackInvStep, FileInvStep DEF TunnelIInv
  <1> QED BY <1>1, TunnelInitial, PTL DEF TunnelSpec

(* Ensure, Remove and StopAll never lose track of a process, whatever the callers and  *)
(* however they interleave, but for the two named exceptions (manager.go:313).         *)
THEOREM TrackedTheorem == TunnelSpec => []TunnelTracked
  <1>1. TunnelIInv => TunnelTracked BY DEF TunnelIInv, TrackInv, Excused, TunnelTracked
  <1> QED BY <1>1, TunnelInvariant, PTL

(* A process that Ensure leaves alone because fp has not changed runs that config,     *)
(* although all records of the key share one file, but for two Ensures at once         *)
(* (Manager.Ensure, Manager.start).                                                    *)
THEOREM FingerprintTheorem == TunnelSpec => []FingerprintTells
  <1>1. TunnelIInv => FingerprintTells BY DEF TunnelIInv, FileInv, TunnelTypeOK, FingerprintTells
  <1> QED BY <1>1, TunnelInvariant, PTL

-----------------------------------------------------------------------------
(* A set of naturals has a smallest element.                                        *)
LEMMA NatMin == ASSUME NEW S, S \subseteq Nat, S # {} PROVE Min(S) \in S /\ \A y \in S : Min(S) <= y
  <1>1. \E x \in S : \A y \in S : ~(<<y, x>> \in OpToRel(<, Nat))
    BY NatLessThanWellFounded, WFMin
  <1>2. \A x, y \in Nat : y < x => <<y, x>> \in OpToRel(<, Nat)
    BY DEF OpToRel
  <1>3. \A x, y \in Nat : ~(y < x) => x <= y OBVIOUS
  <1>4. \E x \in S : \A y \in S : x <= y BY <1>1, <1>2, <1>3
  <1> QED BY <1>4 DEF Min

(* The rows of the renewal: what autoRenewClients adds is at most what was paid.      *)
Row == [on : BOOLEAN, until : Int, used : Nat, count : Nat]

LEMMA WholePeriods ==
  ASSUME NEW s \in Row, NEW sec \in Int, sec <= MaxTime, Selected(s, sec)
  PROVE  /\ Periods(s, sec) \in Nat
         /\ Allowance > 0 => s.count + Periods(s, sec) <= Allowance
  <1> DEFINE K == {k \in 0 .. MaxTime :
                     s.until + k * Period >= sec \/ (Allowance > 0 /\ s.count + k >= Allowance)}
  <1> USE QuotaAssumption, TermsAssumption
  <1>0. Period \in Nat \ {0} /\ (Allowance = 0 \/ s.count < Allowance) /\ s.until > 0
    BY DEF Selected, MayRenew
  <1>1. MaxTime \in K
    <2>1. MaxTime * Period >= MaxTime BY <1>0
    <2>2. MaxTime * Period \in Int BY <1>0
    <2>3. s.until \in Int BY DEF Row
    <2>4. s.until + MaxTime * Period >= sec BY <1>0, <2>1, <2>2, <2>3
    <2> QED BY <2>4
  <1>2. K \subseteq Nat OBVIOUS
  <1>3. Periods(s, sec) = Min(K) BY DEF Periods
  <1>4. Min(K) \in K /\ \A k \in K : Min(K) <= k BY <1>1, <1>2, NatMin
  <1>5. ASSUME Allowance > 0, s.count + Min(K) > Allowance PROVE FALSE
    <2>1. s.count \in Nat BY DEF Row
    <2>2. Min(K) \in 0 .. MaxTime BY <1>4
    <2>3. Allowance - s.count \in 0 .. MaxTime BY <1>0, <1>5, <2>1, <2>2
    <2>4. s.count + (Allowance - s.count) >= Allowance BY <2>1
    <2>5. Allowance - s.count \in K BY <1>5, <2>3, <2>4
    <2> QED BY <1>4, <1>5, <2>1, <2>2, <2>3, <2>5
  <1> HIDE DEF K
  <1>6. Min(K) \in Nat BY <1>2, <1>4
  <1>7. s.count \in Nat BY DEF Row
  <1> QED BY <1>3, <1>5, <1>6, <1>7

LEMMA Distribute ==
  ASSUME NEW a \in Int, NEW k \in Int, NEW p \in Int
  PROVE  p * (a + k) = p * a + k * p
  OBVIOUS

(* A row after the renewal: what was added is what was charged, within the allowance.   *)
LEMMA RenewedRow ==
  ASSUME NEW s \in Row, NEW sec \in Int, sec <= MaxTime, Allowance > 0 => s.count <= Allowance
  PROVE  LET n == AfterRenewal(s, sec)
         IN  /\ n \in Row /\ (Allowance > 0 => n.count <= Allowance)
             /\ n.until - s.until = Period * (n.count - s.count)
  <1> DEFINE n == AfterRenewal(s, sec)
             k == Periods(s, sec)
  <1> USE QuotaAssumption
  <1>1. CASE ~Selected(s, sec)
    <2>1. n = s BY <1>1 DEF AfterRenewal
    <2>2. s.until - s.until = 0 /\ s.count - s.count = 0 BY DEF Row
    <2> QED BY <2>1, <2>2
  <1>2. CASE Selected(s, sec)
    <2>1. k \in Nat /\ (Allowance > 0 => s.count + k <= Allowance) BY <1>2, WholePeriods
    <2> HIDE DEF k
    <2>2. n = [on |-> s.on \/ s.until + k * Period > sec, until |-> s.until + k * Period,
               used |-> IF s.until + k * Period > sec THEN 0 ELSE s.used, count |-> s.count + k]
      BY <1>2 DEF AfterRenewal, Renewed, Spent, k
    <2>3. k * Period \in Int BY <2>1
    <2>4. s.until \in Int /\ s.count \in Nat /\ s.used \in Nat /\ s.on \in BOOLEAN BY DEF Row
    <2>5. n.until = s.until + k * Period /\ n.count = s.count + k BY <2>2
    <2>6. n.until \in Int /\ n.count \in Nat BY <2>1, <2>3, <2>4, <2>5
    <2>7. (s.on \/ s.until + k * Period > sec) \in BOOLEAN OBVIOUS
    <2>8. n \in Row BY <2>2, <2>4, <2>5, <2>6, <2>7 DEF Row
    <2>9. n.until - s.until = k * Period /\ n.count - s.count = k BY <2>1, <2>3, <2>4, <2>5
    <2>10. k * Period = Period * k BY <2>1
    <2> HIDE DEF n
    <2> QED BY <2>1, <2>5, <2>8, <2>9, <2>10 DEF n
  <1> QED BY <1>1, <1>2

ClockInv == clock = 1 \/ clock <= MaxTime

LEMMA SecondInTime == ASSUME clock \in Nat, ClockInv PROVE WholeSecond \in Int /\ WholeSecond <= MaxTime
  <1>1. clock % 2 \in 0 .. 1 /\ 1 % 2 = 1 OBVIOUS
  <1> QED BY <1>1, TermsAssumption DEF ClockInv, WholeSecond

PaidIInv == QuotaTypeOK /\ ClockInv /\ RenewalsPaid

LEMMA CopyOf == \A on \in BOOLEAN, t \in Int : [on |-> on, until |-> t] \in Copies
  BY DEF Copies

LEMMA RestTypes ==
  /\ Free \in [kind : {"free", "ours", "other"}, base : Copies]
  /\ NoCall \in [kind : {"none", "update", "bulk", "reset", "zero"}, to : Copies,
                 todo : SUBSET Homes, ok : BOOLEAN]
  BY DEF Free, NoCall, Copies

LEMMA PaidInitial == QuotaInit => PaidIInv
  <1> SUFFICES ASSUME QuotaInit PROVE PaidIInv OBVIOUS
  <1> USE QuotaAssumption, TermsAssumption
  <1>1. PICK t \in Terms : rec = [on |-> TRUE, until |-> t] BY DEF QuotaInit
  <1>2. t \in Int OBVIOUS
  <1>3. rec \in Copies /\ rec.until = t BY <1>1, <1>2 DEF Copies
  <1>4. QuotaTypeOK BY <1>2, <1>3, RestTypes DEF QuotaInit, QuotaTypeOK
  <1>5. RenewalsPaid
    <2>1. stat.until = t /\ paid.until = t /\ stat.count = 0 /\ paid.count = 0 BY <1>3 DEF QuotaInit
    <2>2. Period * (0 - 0) = 0 OBVIOUS
    <2> QED BY <1>2, <2>1, <2>2 DEF RenewalsPaid
  <1> QED BY <1>4, <1>5 DEF QuotaInit, PaidIInv, ClockInv

(* The settings and the record after the second transaction have their types.          *)
LEMMA MaintainsTypes ==
  ASSUME PaidIInv, NEW last \in Homes, PollMaintains(last)
  PROVE  QuotaTypeOK' /\ RenewalsPaid'
  <1> USE DEF PaidIInv
  <1> DEFINE sec == WholeSecond
             s == AfterRenewal(stat, sec)
             c == [i \in Homes |-> SettingsRenewed(conf[i], stat, sec)]
             r == IF Selected(stat, sec) THEN c[last] ELSE rec
  <1>1. sec \in Int /\ sec <= MaxTime BY SecondInTime DEF QuotaTypeOK
  <1>2. stat \in Row BY DEF QuotaTypeOK, Row
  <1>3. Allowance > 0 => stat.count <= Allowance BY DEF RenewalsPaid
  <1> HIDE DEF sec
  <1>4. /\ s \in Row /\ (Allowance > 0 => s.count <= Allowance)
        /\ s.until - stat.until = Period * (s.count - stat.count)
    BY <1>1, <1>2, <1>3, RenewedRow
  <1>5. ASSUME NEW i \in Homes PROVE c[i] \in Copies
    <2>1. conf[i] \in Copies BY DEF QuotaTypeOK
    <2>2. CASE Selected(stat, sec)
      <3>1. Renewed(stat, sec).until \in Int BY <1>4, <2>2 DEF AfterRenewal, Row
      <3>2. c[i] = [on |-> IF Renewed(stat, sec).until > sec /\ ~stat.on THEN TRUE ELSE conf[i].on,
                    until |-> Renewed(stat, sec).until]
        BY <2>2 DEF SettingsRenewed
      <3>3. (IF Renewed(stat, sec).until > sec /\ ~stat.on THEN TRUE ELSE conf[i].on) \in BOOLEAN
        BY <2>1 DEF Copies
      <3> QED BY <3>1, <3>2, <3>3, CopyOf
    <2>3. CASE ~Selected(stat, sec) BY <2>1, <2>3 DEF SettingsRenewed
    <2> QED BY <2>2, <2>3
  <1>6. r \in Copies BY <1>5 DEF QuotaTypeOK
  <1> HIDE DEF s, r
  <1>7. stat' \in Row /\ stat'.until = s.until /\ stat'.count = s.count
    <2>1. stat' = s \/ stat' = [s EXCEPT !.on = FALSE] BY DEF PollMaintains, s, sec
    <2> QED BY <1>4, <2>1 DEF Row
  <1>8. rec' \in Copies
    <2>1. rec' = r \/ rec' = [r EXCEPT !.on = FALSE] BY DEF PollMaintains, r, sec
    <2> QED BY <1>6, <2>1 DEF Copies
  <1>9. conf' \in [Homes -> Copies]
    <2>1. conf' = c \/ conf' = [i \in Homes |-> [on |-> FALSE, until |-> c[i].until]]
      BY DEF PollMaintains, sec
    <2>2. \A i \in Homes : [on |-> FALSE, until |-> c[i].until] \in Copies BY <1>5 DEF Copies
    <2>3. c \in [Homes -> Copies] BY <1>5
    <2> HIDE DEF c
    <2> QED BY <2>1, <2>2, <2>3
  <1>10. spoiled' \subseteq {"overlap", "partial", "zeroed"} BY DEF PollMaintains, QuotaTypeOK
  <1>11. QuotaTypeOK' BY <1>7, <1>8, <1>9, <1>10 DEF PollMaintains, QuotaTypeOK, Row
  <1>12. RenewalsPaid'
    <2> DEFINE a == stat.count - paid.count
               k == s.count - stat.count
    <2>1. /\ stat.until = paid.until + Period * a /\ paid.until \in Int /\ a \in Int /\ k \in Int
          /\ s.until \in Int /\ stat.until \in Int /\ s.count - paid.count = a + k
      BY <1>4 DEF RenewalsPaid, QuotaTypeOK, Row
    <2>2. s.until = stat.until + Period * k BY <1>4, <2>1
    <2> HIDE DEF a, k
    <2>3. Period \in Int /\ Period * (a + k) = Period * a + k * Period BY <2>1, QuotaAssumption, Distribute
    <2>4. k * Period = Period * k /\ Period * a \in Int /\ Period * k \in Int BY <2>1, <2>3
    <2>5. s.until = paid.until + Period * (s.count - paid.count) BY <2>1, <2>2, <2>3, <2>4
    <2>6. paid' = paid BY DEF PollMaintains
    <2> QED BY <1>4, <1>7, <2>5, <2>6 DEF RenewalsPaid
  <1> QED BY <1>11, <1>12

(* The first transaction counts, and may turn a term that starts at the first use into *)
(* a deadline.                                                                        *)
LEMMA CountsTypes ==
  ASSUME PaidIInv, NEW last \in Homes, NEW k \in {0, 1}, PollCounts(k, last)
  PROVE  QuotaTypeOK' /\ RenewalsPaid'
  <1> USE DEF PaidIInv
  <1>0. stat.used + k \in Nat /\ stat.count \in Nat /\ Converted \in Int BY DEF QuotaTypeOK, Converted
  <1>1. CASE k > 0 /\ stat.until < 0
    <2>1. /\ conf' = [i \in Homes |-> [on |-> conf[i].on, until |-> Converted]] /\ rec' = conf'[last]
          /\ stat' = [stat EXCEPT !.used = @ + k, !.until = Converted]
          /\ paid' = [until |-> Converted, count |-> stat.count]
          /\ spoiled' \subseteq spoiled \cup {"overlap"}
          /\ polling' = TRUE /\ UNCHANGED <<clock, work, call, deeds>>
      BY <1>1 DEF PollCounts, TermSet
    <2>2. \A i \in Homes : [on |-> conf[i].on, until |-> Converted] \in Copies
      BY <1>0 DEF QuotaTypeOK, Copies
    <2>3. conf' \in [Homes -> Copies] /\ rec' \in Copies BY <2>1, <2>2
    <2>4. /\ stat' \in Row /\ stat'.until = Converted /\ stat'.count = stat.count
          /\ paid' \in [until : Int, count : Nat] /\ paid'.until = Converted /\ paid'.count = stat.count
      BY <1>0, <2>1 DEF QuotaTypeOK, Row
    <2>5. QuotaTypeOK' BY <2>1, <2>3, <2>4 DEF QuotaTypeOK, Row
    <2>6. Converted = Converted + Period * (stat.count - stat.count) BY <1>0, QuotaAssumption
    <2> QED BY <2>4, <2>5, <2>6 DEF RenewalsPaid
  <1>2. CASE ~(k > 0 /\ stat.until < 0)
    <2>1. /\ stat' = [stat EXCEPT !.used = @ + k]
          /\ polling' = TRUE /\ UNCHANGED <<conf, rec, paid, spoiled, clock, work, call, deeds>>
      BY <1>2 DEF PollCounts
    <2>2. stat' \in Row /\ stat'.until = stat.until /\ stat'.count = stat.count
      BY <1>0, <2>1 DEF QuotaTypeOK, Row
    <2> QED BY <2>1, <2>2 DEF QuotaTypeOK, Row, RenewalsPaid
  <1> QED BY <1>1, <1>2

(* An update sets the term; what was charged before does not count for it.              *)
LEMMA CommitTypes ==
  ASSUME PaidIInv, NEW i \in Homes, ApplyCommits(i)
  PROVE  QuotaTypeOK' /\ RenewalsPaid'
  <1> USE DEF PaidIInv
  <1> DEFINE c == IF call.kind = "bulk" THEN [on |-> call.to.on, until |-> work[i].base.until] ELSE call.to
  <1>0. /\ conf' = [conf EXCEPT ![i] = c] /\ rec' = c /\ work' = [work EXCEPT ![i] = Free]
        /\ UNCHANGED <<clock, call, polling, deeds, spoiled>>
    BY DEF ApplyCommits
  <1>1. call.to \in Copies /\ work[i].base \in Copies BY DEF QuotaTypeOK
  <1>2. c \in Copies BY <1>1 DEF Copies
  <1> HIDE DEF c
  <1>3. conf' \in [Homes -> Copies] /\ rec' \in Copies BY <1>0, <1>2 DEF QuotaTypeOK
  <1>4. work' \in [Homes -> [kind : {"free", "ours", "other"}, base : Copies]]
    BY <1>0, RestTypes DEF QuotaTypeOK
  <1>5. CASE call.kind = "bulk"
    <2>1. UNCHANGED <<stat, paid>> BY <1>5 DEF ApplyCommits
    <2> QED BY <1>0, <1>3, <1>4, <2>1 DEF QuotaTypeOK, RenewalsPaid
  <1>6. CASE call.kind # "bulk"
    <2>1. /\ stat' = [stat EXCEPT !.on = call.to.on, !.until = call.to.until]
          /\ paid' = [until |-> call.to.until, count |-> stat.count]
      BY <1>6 DEF ApplyCommits, TermSet
    <2>2. call.to.on \in BOOLEAN /\ call.to.until \in Int /\ stat.count \in Nat /\ stat \in Row
      BY <1>1 DEF Copies, QuotaTypeOK, Row
    <2>3. /\ stat' \in Row /\ stat'.until = call.to.until /\ stat'.count = stat.count
          /\ paid' \in [until : Int, count : Nat] /\ paid'.until = call.to.until
          /\ paid'.count = stat.count
      BY <2>1, <2>2 DEF Row
    <2>4. QuotaTypeOK' BY <1>0, <1>3, <1>4, <2>3 DEF QuotaTypeOK, Row
    <2>5. call.to.until = call.to.until + Period * (stat.count - stat.count)
      BY <2>2, QuotaAssumption
    <2> QED BY <2>3, <2>4, <2>5 DEF RenewalsPaid
  <1> QED BY <1>5, <1>6

(* The other steps neither renew nor set a term.                                       *)
LEMMA OtherTypes ==
  ASSUME PaidIInv,
         \/ TimePasses \/ MaintenanceFails \/ ResetBegins \/ UpdateEnds \/ BulkEnds \/ ResetClient \/ ResetAll
         \/ \E on \in BOOLEAN : BulkBegins(on) \/ \E t \in Terms : UpdateBegins([on |-> on, until |-> t])
         \/ \E i \in Homes : \/ ApplyReads(i) \/ ApplyFails(i) \/ OtherReads(i)
                             \/ \E sync \in BOOLEAN : OtherCommits(i, sync)
         \/ UNCHANGED quotaVars
  PROVE  QuotaTypeOK' /\ RenewalsPaid'
  <1> USE DEF PaidIInv, copyVars, Deed
  <1>0. rec \in Copies /\ stat \in Row BY DEF QuotaTypeOK, Row
  <1>1. CASE TimePasses
    <2>1. clock' \in Nat BY <1>1 DEF TimePasses, QuotaTypeOK
    <2> QED BY <1>1, <2>1 DEF TimePasses, QuotaTypeOK, RenewalsPaid
  <1>2. CASE MaintenanceFails \/ UNCHANGED quotaVars
    <2>1. UNCHANGED <<clock, copyVars, work, call, paid, spoiled>> BY <1>2 DEF MaintenanceFails, quotaVars
    <2>2. (polling' = FALSE \/ polling' = polling) /\ (deeds' = deeds + 1 \/ deeds' = deeds)
      BY <1>2 DEF MaintenanceFails, quotaVars
    <2>3. polling' \in BOOLEAN BY <2>2 DEF QuotaTypeOK
    <2>4. deeds' \in Nat BY <2>2 DEF QuotaTypeOK
    <2> QED BY <2>1, <2>3, <2>4 DEF QuotaTypeOK, RenewalsPaid
  <1>3. ASSUME NEW kind \in {"update", "bulk", "reset", "zero"}, NEW p \in Copies,
               NEW todo \in SUBSET Homes, Begins(kind, p, todo)
        PROVE  QuotaTypeOK' /\ RenewalsPaid'
    BY <1>3 DEF Begins, QuotaTypeOK, RenewalsPaid
  <1>4. CASE ResetBegins
    <2>1. [on |-> TRUE, until |-> rec.until] \in Copies BY <1>0 DEF Copies
    <2> QED BY <1>0, <1>3, <1>4, <2>1 DEF ResetBegins
  <1>5. ASSUME NEW on \in BOOLEAN,
               BulkBegins(on) \/ \E t \in Terms : UpdateBegins([on |-> on, until |-> t])
        PROVE  QuotaTypeOK' /\ RenewalsPaid'
    <2>1. 0 \in Int /\ Terms \subseteq Int BY TermsAssumption
    <2>2. CASE BulkBegins(on) BY <1>3, <2>1, <2>2, CopyOf DEF BulkBegins
    <2>3. ASSUME NEW t \in Terms, UpdateBegins([on |-> on, until |-> t])
          PROVE  QuotaTypeOK' /\ RenewalsPaid'
      <3>1. [on |-> on, until |-> t] \in Copies BY <2>1, CopyOf
      <3> QED BY <1>3, <2>3, <3>1 DEF UpdateBegins
    <2> QED BY <1>5, <2>2, <2>3
  <1>6. CASE UpdateEnds
    <2>1. rec' \in Copies BY <1>0, <1>6 DEF UpdateEnds, QuotaTypeOK, Copies
    <2>2. call' \in [kind : {"none", "update", "bulk", "reset", "zero"}, to : Copies,
                     todo : SUBSET Homes, ok : BOOLEAN]
      BY <1>6, RestTypes DEF UpdateEnds, QuotaTypeOK
    <2> QED BY <1>6, <2>1, <2>2 DEF UpdateEnds, QuotaTypeOK, RenewalsPaid
  <1>7. CASE BulkEnds
    <2>1. call.to.on \in BOOLEAN BY DEF QuotaTypeOK, Copies
    <2>2. rec' \in Copies /\ stat' \in Row /\ stat'.until = stat.until /\ stat'.count = stat.count
      BY <1>0, <1>7, <2>1 DEF BulkEnds, Copies, Row
    <2> QED BY <1>7, <2>2, RestTypes DEF BulkEnds, QuotaTypeOK, RenewalsPaid, Row
  <1>8. CASE ResetClient \/ ResetAll
    <2>1. ZeroRow /\ UNCHANGED <<clock, rec, conf, work, polling, paid>> BY <1>8 DEF ResetClient, ResetAll
    <2>2. stat' \in Row /\ stat'.until = stat.until /\ stat'.count = stat.count
      BY <1>0, <2>1 DEF ZeroRow, Row
    <2>3. spoiled' \subseteq {"overlap", "partial", "zeroed"} BY <2>1 DEF ZeroRow, QuotaTypeOK
    <2>4. deeds' \in Nat BY <1>8 DEF ResetClient, ResetAll, QuotaTypeOK
    <2>5. call' \in [kind : {"none", "update", "bulk", "reset", "zero"}, to : Copies,
                     todo : SUBSET Homes, ok : BOOLEAN]
      BY <1>8, RestTypes DEF ResetClient, ResetAll, QuotaTypeOK
    <2> QED BY <2>1, <2>2, <2>3, <2>4, <2>5 DEF QuotaTypeOK, RenewalsPaid, Row
  <1>9. ASSUME NEW i \in Homes,
               ApplyReads(i) \/ ApplyFails(i) \/ OtherReads(i) \/ \E sync \in BOOLEAN : OtherCommits(i, sync)
        PROVE  QuotaTypeOK' /\ RenewalsPaid'
    <2>0. UNCHANGED <<clock, stat, polling, paid>>
      BY <1>9 DEF ApplyReads, ApplyFails, OtherReads, OtherCommits
    <2>1. conf[i] \in Copies /\ work[i].base \in Copies BY DEF QuotaTypeOK
    <2>2. /\ [kind |-> "ours", base |-> conf[i]] \in [kind : {"free", "ours", "other"}, base : Copies]
          /\ [kind |-> "other", base |-> conf[i]] \in [kind : {"free", "ours", "other"}, base : Copies]
      BY <2>1
    <2>3. work' \in [Homes -> [kind : {"free", "ours", "other"}, base : Copies]]
      BY <1>9, <2>2, RestTypes DEF ApplyReads, ApplyFails, OtherReads, OtherCommits, QuotaTypeOK
    <2>4. conf' \in [Homes -> Copies] /\ rec' \in Copies
      BY <1>0, <1>9, <2>1 DEF ApplyReads, ApplyFails, OtherReads, OtherCommits, QuotaTypeOK
    <2>5. call' \in [kind : {"none", "update", "bulk", "reset", "zero"}, to : Copies,
                     todo : SUBSET Homes, ok : BOOLEAN]
      <3>1. \/ call' = call \/ call' = [call EXCEPT !.todo = @ \ {i}]
            \/ call' = [call EXCEPT !.ok = FALSE]
        BY <1>9 DEF ApplyReads, ApplyFails, OtherReads, OtherCommits
      <3> QED BY <3>1 DEF QuotaTypeOK
    <2>6. deeds' \in Nat /\ spoiled' \subseteq {"overlap", "partial", "zeroed"}
      BY <1>9 DEF ApplyReads, ApplyFails, OtherReads, OtherCommits, QuotaTypeOK
    <2> QED BY <2>0, <2>3, <2>4, <2>5, <2>6 DEF QuotaTypeOK, RenewalsPaid
  <1> QED BY <1>1, <1>2, <1>4, <1>5, <1>6, <1>7, <1>8, <1>9

LEMMA PaidStep == ASSUME PaidIInv, [QuotaNext]_quotaVars PROVE PaidIInv'
  <1>1. QuotaTypeOK' /\ RenewalsPaid'
    BY MaintainsTypes, CountsTypes, CommitTypes, OtherTypes DEF QuotaNext, PollSteps, CallSteps, HomeSteps
  <1>2. ClockInv'
    <2>1. clock' = clock \/ (clock < MaxTime /\ clock' = clock + 1)
      BY DEF QuotaNext, PollSteps, CallSteps, HomeSteps, TimePasses, PollMaintains, PollCounts,
             MaintenanceFails, BulkBegins, UpdateBegins, ResetBegins, Begins, UpdateEnds, BulkEnds,
             ResetClient, ResetAll, ApplyReads, ApplyCommits, ApplyFails, OtherReads, OtherCommits, quotaVars
    <2> QED BY <2>1, TermsAssumption DEF PaidIInv, ClockInv, QuotaTypeOK
  <1> QED BY <1>1, <1>2 DEF PaidIInv

(* The invariant of the renewals: the term is what was set last plus the periods that  *)
(* were charged since, within the allowance.                                          *)
THEOREM PaidInvariant == QuotaSpec => []PaidIInv
  <1>1. QuotaInit => PaidIInv BY PaidInitial
  <1>2. PaidIInv /\ [QuotaNext]_quotaVars => PaidIInv' BY PaidStep
  <1> QED BY <1>1, <1>2, PTL DEF QuotaSpec

(* Every renewal that autoRenewClients charged bought one period, and no more were      *)
(* charged than paid, for any period, allowance, inbounds and interleaving.            *)
THEOREM PaidTheorem == QuotaSpec => []RenewalsPaid
  <1>1. PaidIInv => RenewalsPaid BY DEF PaidIInv
  <1> QED BY <1>1, PaidInvariant, PTL

-----------------------------------------------------------------------------
(* The inbound's turn in the call has not come, or its edit has not committed.          *)
Pending(i) == i \in call.todo \/ work[i].kind = "ours"

RowCopy == [on |-> stat.on, until |-> stat.until]

(* What the call makes of a copy b.                                                   *)
Target(b) == IF call.kind = "bulk" THEN [on |-> call.to.on, until |-> b.until] ELSE call.to

AtRest == call.kind \in {"none", "zero"}

(* Between calls no inbound is pending, and in a call each has one turn.                 *)
RestInv ==
    /\ AtRest => \A i \in Homes : ~Pending(i)
    /\ \A i \in Homes : work[i].kind = "ours" => i \notin call.todo

(* Settings somebody read under lockInbound are the settings of the inbound.            *)
BaseInv == \A i \in Homes : work[i].kind # "free" => work[i].base = conf[i]

Agree == rec = RowCopy /\ \A i \in Homes : conf[i] = rec

(* In the middle of a call that found all copies equal to b: the settings of an        *)
(* inbound are still b or already the target, the record is one of the two, the row     *)
(* changes with the first commit, that of a bulk call only at the end.                *)
Between(b) ==
    /\ \A i \in Homes : conf[i] = IF Pending(i) THEN b ELSE Target(b)
    /\ rec \in {b, Target(b)} /\ ((\A i \in Homes : ~Pending(i)) => rec = Target(b))
    /\ call.kind = "bulk" => stat.until = b.until
    /\ call.kind # "bulk" => RowCopy = IF \E i \in Homes : ~Pending(i) THEN Target(b) ELSE b

CopyInv == BaseInv /\ IF AtRest THEN Agree ELSE call.ok /\ \E b \in Copies : Between(b)

CopyIInv == PaidIInv /\ RestInv /\ (spoiled = {} => CopyInv)

LEMMA CopyInitial == QuotaInit => CopyIInv
  <1> SUFFICES ASSUME QuotaInit PROVE CopyIInv OBVIOUS
  <1>1. rec = RowCopy
    <2>1. PICK t \in Terms : rec = [on |-> TRUE, until |-> t] BY DEF QuotaInit
    <2> QED BY <2>1 DEF QuotaInit, RowCopy
  <1>2. RestInv BY DEF QuotaInit, RestInv, Pending, NoCall, Free
  <1>3. BaseInv BY DEF QuotaInit, BaseInv, Free
  <1>4. AtRest /\ Agree BY <1>1 DEF QuotaInit, AtRest, NoCall, Agree
  <1> QED BY <1>2, <1>3, <1>4, PaidInitial DEF CopyIInv, CopyInv

(* While everything is at rest, the second transaction treats all copies alike.         *)
LEMMA MaintainsAgree ==
  ASSUME PaidIInv, Agree, NEW last \in Homes, PollMaintains(last)
  PROVE  Agree'
  <1> USE DEF PaidIInv
  <1> DEFINE sec == WholeSecond
             s == AfterRenewal(stat, sec)
             c == [i \in Homes |-> SettingsRenewed(conf[i], stat, sec)]
             r == IF Selected(stat, sec) THEN c[last] ELSE rec
  <1>0. /\ rec = [on |-> stat.on, until |-> stat.until] /\ rec \in Copies /\ stat \in Row
        /\ \A i \in Homes : conf[i] = rec
    BY DEF Agree, RowCopy, QuotaTypeOK, Row
  <1>1. ASSUME NEW i \in Homes PROVE c[i] = [on |-> s.on, until |-> s.until] /\ r = c[i]
    <2>1. CASE Selected(stat, sec)
      <3>1. s = Renewed(stat, sec) BY <2>1 DEF AfterRenewal
      <3>2. s.on = (stat.on \/ s.until > sec) BY <3>1 DEF Renewed
      <3>3. ASSUME NEW j \in Homes
            PROVE  c[j] = [on |-> IF s.until > sec /\ ~stat.on THEN TRUE ELSE stat.on, until |-> s.until]
        <4>1. conf[j].on = stat.on BY <1>0
        <4>2. c[j] = [on |-> IF s.until > sec /\ ~stat.on THEN TRUE ELSE conf[j].on, until |-> s.until]
          BY <2>1, <3>1 DEF SettingsRenewed
        <4> QED BY <4>1, <4>2
      <3>4. stat.on \in BOOLEAN BY <1>0 DEF Row
      <3>5. (IF s.until > sec /\ ~stat.on THEN TRUE ELSE stat.on) = (stat.on \/ s.until > sec)
        BY <3>4
      <3> QED BY <2>1, <3>2, <3>3, <3>5
    <2>2. CASE ~Selected(stat, sec) BY <1>0, <2>2 DEF AfterRenewal, SettingsRenewed
    <2> QED BY <2>1, <2>2
  <1>2. s \in Row
    <2>1. sec \in Int /\ sec <= MaxTime BY SecondInTime DEF QuotaTypeOK
    <2> QED BY <1>0, <2>1, RenewedRow DEF RenewalsPaid
  <1>3. CASE CutOff(s)
    <2>1. /\ stat' = [s EXCEPT !.on = FALSE] /\ rec' = [r EXCEPT !.on = FALSE]
          /\ conf' = [i \in Homes |-> [on |-> FALSE, until |-> c[i].until]]
      BY <1>3 DEF PollMaintains
    <2> HIDE DEF s, c, r
    <2>2. stat'.on = FALSE /\ stat'.until = s.until BY <1>2, <2>1 DEF Row
    <2>3. r = [on |-> s.on, until |-> s.until] BY <1>1
    <2>4. rec' = [on |-> FALSE, until |-> s.until] BY <2>1, <2>3
    <2>5. \A i \in Homes : c[i].until = s.until BY <1>1
    <2>6. \A i \in Homes : conf'[i] = [on |-> FALSE, until |-> s.until] BY <2>1, <2>5
    <2> QED BY <2>2, <2>4, <2>6 DEF Agree, RowCopy
  <1>4. CASE ~CutOff(s)
    <2>1. stat' = s /\ rec' = r /\ conf' = c BY <1>4 DEF PollMaintains
    <2> HIDE DEF s, c, r
    <2> QED BY <1>1, <2>1 DEF Agree, RowCopy
  <1> QED BY <1>3, <1>4

(* If it changes neither the row nor the settings, the record stays or is copied from   *)
(* the settings of an inbound.                                                        *)
LEMMA MaintainsNothing ==
  ASSUME PaidIInv, NEW last \in Homes, PollMaintains(last), conf' = conf, stat' = stat
  PROVE  rec' = rec \/ rec' = conf[last]
  <1> USE DEF PaidIInv
  <1> DEFINE sec == WholeSecond
             s == AfterRenewal(stat, sec)
             c == [i \in Homes |-> SettingsRenewed(conf[i], stat, sec)]
             r == IF Selected(stat, sec) THEN c[last] ELSE rec
  <1>0. stat \in Row /\ conf[last] \in Copies BY DEF QuotaTypeOK, Row
  <1>1. CASE CutOff(s)
    <2>1. /\ stat' = [s EXCEPT !.on = FALSE] /\ rec' = [r EXCEPT !.on = FALSE]
          /\ conf' = [i \in Homes |-> [on |-> FALSE, until |-> c[i].until]]
      BY <1>1 DEF PollMaintains
    <2>2. CASE Selected(stat, sec)
      <3>1. \E on : c[last] = [on |-> on, until |-> Renewed(stat, sec).until]
        BY <2>2 DEF SettingsRenewed
      <3>2. rec' = [c[last] EXCEPT !.on = FALSE] BY <2>1, <2>2
      <3> HIDE DEF c
      <3>3. rec' = [on |-> FALSE, until |-> c[last].until] BY <3>1, <3>2
      <3> QED BY <2>1, <3>3
    <2>3. CASE ~Selected(stat, sec)
      <3>1. s = stat BY <2>3 DEF AfterRenewal
      <3>2. stat.on = TRUE BY <1>0, <1>1, <3>1 DEF CutOff, Row
      <3>3. stat'.on = FALSE BY <1>0, <2>1, <3>1 DEF Row
      <3> QED BY <3>2, <3>3
    <2> QED BY <2>2, <2>3
  <1>2. CASE ~CutOff(s)
    <2>1. rec' = r /\ conf' = c BY <1>2 DEF PollMaintains
    <2> HIDE DEF c
    <2> QED BY <2>1
  <1> QED BY <1>1, <1>2

(* A step that leaves the copies, the locks and the call alone.                        *)
LEMMA CopiesUntouched ==
  ASSUME CopyIInv, UNCHANGED <<conf, rec, work, call>>, spoiled \subseteq spoiled',
         stat'.on = stat.on, stat'.until = stat.until
  PROVE  RestInv' /\ (spoiled' = {} => CopyInv')
  <1>1. RestInv' BY DEF CopyIInv, RestInv, AtRest, Pending
  <1>2. RowCopy' = RowCopy BY DEF RowCopy
  <1>3. ASSUME NEW b, Between(b) PROVE Between(b)' BY <1>2, <1>3 DEF Between, Pending, Target
  <1>4. ASSUME spoiled' = {} PROVE CopyInv'
    <2>1. CopyInv BY <1>4 DEF CopyIInv
    <2>2. BaseInv' BY <2>1 DEF CopyInv, BaseInv
    <2>3. Agree => Agree' BY <1>2 DEF Agree
    <2> QED BY <1>3, <2>1, <2>2, <2>3 DEF CopyInv, AtRest
  <1> QED BY <1>1, <1>4

(* The poll changes the copies when nobody edits them, or the overlap is noted.          *)
LEMMA CountsCopies ==
  ASSUME CopyIInv, NEW last \in Homes, NEW k \in {0, 1}, PollCounts(k, last)
  PROVE  RestInv' /\ (spoiled' = {} => CopyInv')
  <1> USE DEF CopyIInv, PaidIInv
  <1>1. CASE ~(k > 0 /\ stat.until < 0)
    <2>1. stat' = [stat EXCEPT !.used = @ + k] /\ UNCHANGED <<conf, rec, work, call, spoiled>>
      BY <1>1 DEF PollCounts
    <2>2. stat'.on = stat.on /\ stat'.until = stat.until BY <2>1 DEF QuotaTypeOK
    <2> QED BY <2>1, <2>2, CopiesUntouched
  <1>2. CASE k > 0 /\ stat.until < 0
    <2>1. /\ conf' = [i \in Homes |-> [on |-> conf[i].on, until |-> Converted]] /\ rec' = conf'[last]
          /\ stat' = [stat EXCEPT !.used = @ + k, !.until = Converted]
          /\ UNCHANGED <<work, call>> /\ spoiled \subseteq spoiled' /\ (spoiled' = {} => ~Editing)
      BY <1>2 DEF PollCounts
    <2>2. RestInv' BY <2>1 DEF RestInv, AtRest, Pending
    <2>3. ASSUME spoiled' = {} PROVE CopyInv'
      <3>1. AtRest /\ \A i \in Homes : work[i] = Free BY <2>1, <2>3 DEF Editing, AtRest, QuotaTypeOK
      <3>2. Agree BY <2>1, <2>3, <3>1 DEF CopyInv
      <3>3. BaseInv' BY <2>1, <3>1 DEF BaseInv, Free
      <3>4. stat'.on = stat.on /\ stat'.until = Converted BY <2>1 DEF QuotaTypeOK
      <3>5. \A i \in Homes : conf[i].on = stat.on BY <3>2 DEF Agree, RowCopy
      <3>6. \A i \in Homes : conf'[i] = [on |-> stat.on, until |-> Converted] BY <2>1, <3>5
      <3>7. Agree' BY <2>1, <3>4, <3>6 DEF Agree, RowCopy
      <3> QED BY <2>1, <3>1, <3>3, <3>7 DEF CopyInv, AtRest
    <2> QED BY <2>2, <2>3
  <1> QED BY <1>1, <1>2

LEMMA MaintainsCopies ==
  ASSUME CopyIInv, NEW last \in Homes, PollMaintains(last)
  PROVE  RestInv' /\ (spoiled' = {} => CopyInv')
  <1> USE DEF CopyIInv, PaidIInv
  <1>0. /\ UNCHANGED <<work, call>> /\ spoiled \subseteq spoiled'
        /\ spoiled' = {} /\ Editing => conf' = conf /\ stat' = stat
    BY DEF PollMaintains
  <1>1. RestInv' BY <1>0 DEF RestInv, AtRest, Pending
  <1>2. ASSUME spoiled' = {} PROVE CopyInv'
    <2>0. CopyInv BY <1>0, <1>2
    <2>1. BaseInv'
      <3> SUFFICES ASSUME NEW i \in Homes, work[i].kind # "free" PROVE work[i].base = conf'[i]
        BY <1>0 DEF BaseInv
      <3>1. Editing BY DEF Editing, Free
      <3> QED BY <1>0, <1>2, <2>0, <3>1 DEF CopyInv, BaseInv
    <2>2. CASE AtRest
      <3>1. Agree BY <2>0, <2>2 DEF CopyInv
      <3>2. Agree' BY <3>1, MaintainsAgree
      <3> QED BY <1>0, <2>1, <2>2, <3>2 DEF CopyInv, AtRest
    <2>3. CASE ~AtRest
      <3>1. Editing BY <2>3 DEF AtRest, Editing, QuotaTypeOK
      <3>2. conf' = conf /\ stat' = stat BY <1>0, <1>2, <3>1
      <3>3. rec' = rec \/ rec' = conf[last] BY <3>2, MaintainsNothing
      <3>4. PICK b \in Copies : Between(b) BY <2>0, <2>3 DEF CopyInv
      <3>5. Between(b)' BY <1>0, <3>2, <3>3, <3>4 DEF Between, Pending, Target, RowCopy
      <3> QED BY <1>0, <2>0, <2>1, <2>3, <3>5 DEF CopyInv, AtRest
    <2> QED BY <2>2, <2>3
  <1> QED BY <1>1, <1>2

(* A call begins with equal copies, those of a reset that only zeroes stay equal.       *)
LEMMA BeginsCopies ==
  ASSUME CopyIInv, NEW kind \in {"update", "bulk", "reset", "zero"}, NEW p,
         Begins(kind, p, IF kind = "zero" THEN {} ELSE Homes)
  PROVE  RestInv' /\ (spoiled' = {} => CopyInv')
  <1> USE DEF CopyIInv, PaidIInv
  <1>0. /\ call = NoCall /\ call' = [kind |-> kind, to |-> p, todo |-> IF kind = "zero" THEN {} ELSE Homes, ok |-> TRUE]
        /\ UNCHANGED <<stat, rec, conf, work, spoiled>>
    BY DEF Begins, copyVars
  <1>1. AtRest /\ \A i \in Homes : work[i].kind # "ours" BY <1>0 DEF AtRest, NoCall, RestInv, Pending
  <1>2. CASE kind = "zero"
    <2>1. RestInv' BY <1>0, <1>1, <1>2 DEF RestInv, Pending
    <2>2. spoiled = {} => BaseInv' /\ Agree' BY <1>0, <1>1 DEF CopyInv, BaseInv, Agree, RowCopy
    <2>3. AtRest' BY <1>0, <1>2 DEF AtRest
    <2> QED BY <1>0, <2>1, <2>2, <2>3 DEF CopyInv
  <1>3. CASE kind # "zero"
    <2>1. ~AtRest' /\ call'.ok BY <1>0, <1>3 DEF AtRest
    <2>2. ASSUME spoiled = {} PROVE BaseInv' /\ Between(rec)'
      <3>1. Agree /\ BaseInv BY <1>1, <2>2 DEF CopyInv
      <3>2. \A i \in Homes : Pending(i)' BY <1>0, <1>3 DEF Pending
      <3>3. rec' = rec /\ RowCopy' = rec /\ \A i \in Homes : conf'[i] = rec
        BY <1>0, <3>1 DEF Agree, RowCopy
      <3>4. stat'.until = rec'.until BY <1>0, <3>1 DEF Agree, RowCopy
      <3>5. Between(rec)' BY <3>2, <3>3, <3>4, HomesAssumption DEF Between
      <3> QED BY <1>0, <3>1, <3>5 DEF BaseInv
    <2>3. rec' \in Copies BY <1>0 DEF QuotaTypeOK
    <2> QED BY <1>0, <1>1, <2>1, <2>2, <2>3 DEF CopyInv, RestInv
  <1> QED BY <1>2, <1>3

(* An inbound's turn: its settings are read, or are as they should be.                  *)
LEMMA ReadsCopies ==
  ASSUME CopyIInv, NEW i \in Homes, ApplyReads(i)
  PROVE  RestInv' /\ (spoiled' = {} => CopyInv')
  <1> USE DEF CopyIInv, PaidIInv
  <1>0. /\ i \in call.todo /\ work[i] = Free /\ call' = [call EXCEPT !.todo = @ \ {i}]
        /\ work' = [work EXCEPT ![i] = IF NoChange(i) THEN Free ELSE [kind |-> "ours", base |-> conf[i]]]
        /\ UNCHANGED <<stat, rec, conf, spoiled>>
    BY DEF ApplyReads, copyVars
  <1>1. ~AtRest BY <1>0 DEF RestInv, Pending
  <1>2. call'.kind = call.kind /\ call'.to = call.to /\ call'.ok = call.ok /\ call'.todo = call.todo \ {i}
    BY <1>0 DEF QuotaTypeOK
  <1>3. ~AtRest' /\ RestInv' BY <1>0, <1>1, <1>2 DEF AtRest, RestInv, QuotaTypeOK, Free
  <1>4. \A j \in Homes : j # i => work'[j] = work[j] /\ (Pending(j)' <=> Pending(j))
    BY <1>0, <1>2 DEF Pending, QuotaTypeOK
  <1>5. Pending(i) /\ (Pending(i)' <=> ~NoChange(i))
    BY <1>0, <1>2 DEF Pending, QuotaTypeOK, Free
  <1>6. ASSUME spoiled' = {} PROVE CopyInv'
    <2>0. CopyInv BY <1>0, <1>6
    <2>1. BaseInv' BY <1>0, <1>4, <2>0 DEF CopyInv, BaseInv, QuotaTypeOK, Free
    <2>2. PICK b \in Copies : Between(b) BY <1>1, <2>0 DEF CopyInv
    <2>3. conf[i] = b BY <1>5, <2>2 DEF Between
    <2>4. Target(b)' = Target(b) /\ RowCopy' = RowCopy BY <1>0, <1>2 DEF Target, RowCopy
    <2>5. CASE ~NoChange(i)
      <3>1. \A j \in Homes : Pending(j)' <=> Pending(j) BY <1>4, <1>5, <2>5
      <3>2. Between(b)' BY <1>0, <1>2, <2>2, <2>4, <3>1 DEF Between
      <3> QED BY <1>1, <1>2, <1>3, <2>0, <2>1, <3>2 DEF CopyInv
    <2>6. CASE NoChange(i)
      <3>1. Target(b) = b
        <4>1. CASE call.kind = "bulk"
          <5>1. b.on = call.to.on BY <2>3, <2>6, <4>1 DEF NoChange
          <5>2. b = [on |-> b.on, until |-> b.until] BY DEF Copies
          <5> QED BY <4>1, <5>1, <5>2 DEF Target
        <4>2. CASE call.kind # "bulk" BY <2>3, <2>6, <4>2 DEF NoChange, Target
        <4> QED BY <4>1, <4>2
      <3>2. \A j \in Homes : conf[j] = b BY <2>2, <3>1 DEF Between
      <3>3. rec = b /\ (call.kind # "bulk" => RowCopy = b) BY <2>2, <3>1 DEF Between
      <3>4. Between(b)' BY <1>0, <1>2, <2>2, <2>4, <3>1, <3>2, <3>3 DEF Between
      <3> QED BY <1>1, <1>2, <1>3, <2>0, <2>1, <3>4 DEF CopyInv
    <2> QED BY <2>5, <2>6
  <1> QED BY <1>3, <1>6

(* An inbound's transaction makes its settings and the record the target, and with an   *)
(* update the row.                                                                    *)
LEMMA CommitCopies ==
  ASSUME CopyIInv, NEW i \in Homes, ApplyCommits(i)
  PROVE  RestInv' /\ (spoiled' = {} => CopyInv')
  <1> USE DEF CopyIInv, PaidIInv
  <1> DEFINE c == IF call.kind = "bulk" THEN [on |-> call.to.on, until |-> work[i].base.until] ELSE call.to
  <1>0. /\ work[i].kind = "ours" /\ conf' = [conf EXCEPT ![i] = c] /\ rec' = c
        /\ work' = [work EXCEPT ![i] = Free] /\ UNCHANGED <<call, spoiled>>
    BY DEF ApplyCommits
  <1>1. ~AtRest /\ ~AtRest' BY <1>0 DEF RestInv, Pending, AtRest
  <1>2. RestInv' BY <1>0, <1>1 DEF RestInv, QuotaTypeOK, Free
  <1>3. \A j \in Homes : j # i => work'[j] = work[j] /\ conf'[j] = conf[j] /\ (Pending(j)' <=> Pending(j))
    BY <1>0 DEF Pending, QuotaTypeOK
  <1>4. Pending(i) /\ work'[i].kind = "free" /\ ~Pending(i)'
    BY <1>0 DEF RestInv, Pending, QuotaTypeOK, Free
  <1>5. ASSUME spoiled' = {} PROVE CopyInv'
    <2>0. CopyInv BY <1>0, <1>5
    <2>1. BaseInv' BY <1>3, <1>4, <2>0 DEF CopyInv, BaseInv
    <2>2. PICK b \in Copies : Between(b) BY <1>1, <2>0 DEF CopyInv
    <2>3. work[i].base = conf[i] /\ conf[i] = b BY <1>0, <1>4, <2>0, <2>2 DEF CopyInv, BaseInv, Between
    <2>4. c = Target(b) /\ Target(b)' = Target(b) BY <1>0, <2>3 DEF Target
    <2> HIDE DEF c
    <2>5. conf'[i] = Target(b) /\ rec' = Target(b) BY <1>0, <2>4 DEF QuotaTypeOK
    <2>6. \A j \in Homes : conf'[j] = IF Pending(j)' THEN b ELSE Target(b)
      BY <1>3, <1>4, <2>2, <2>5 DEF Between
    <2>7. call.kind = "bulk" => stat'.until = b.until BY <2>2 DEF ApplyCommits, Between
    <2>8. call.kind # "bulk" => RowCopy' = Target(b)
      <3> SUFFICES ASSUME call.kind # "bulk" PROVE RowCopy' = call.to BY DEF Target
      <3>1. stat' = [stat EXCEPT !.on = call.to.on, !.until = call.to.until] BY DEF ApplyCommits
      <3>2. stat'.on = call.to.on /\ stat'.until = call.to.until BY <3>1 DEF QuotaTypeOK
      <3>3. call.to = [on |-> call.to.on, until |-> call.to.until] BY DEF QuotaTypeOK, Copies
      <3> QED BY <3>2, <3>3 DEF RowCopy
    <2>9. Between(b)' BY <1>0, <1>4, <2>4, <2>5, <2>6, <2>7, <2>8 DEF Between
    <2> QED BY <1>0, <1>1, <2>0, <2>1, <2>9 DEF CopyInv
  <1> QED BY <1>2, <1>5

(* A call ends with all copies equal to its target.                                    *)
LEMMA EndsCopies ==
  ASSUME CopyIInv, UpdateEnds \/ BulkEnds
  PROVE  RestInv' /\ (spoiled' = {} => CopyInv')
  <1> USE DEF CopyIInv, PaidIInv
  <1>0. /\ call.kind \in {"update", "bulk", "reset"} /\ Applied /\ UNCHANGED <<conf, work, spoiled>>
        /\ call' = NoCall \/ call' = [call EXCEPT !.kind = "zero"]
    BY DEF UpdateEnds, BulkEnds
  <1>1. ~AtRest /\ AtRest' /\ call'.todo = {} BY <1>0 DEF AtRest, Applied, NoCall, QuotaTypeOK
  <1>2. \A j \in Homes : ~Pending(j) /\ ~Pending(j)' BY <1>0, <1>1 DEF Applied, Pending
  <1>3. RestInv' BY <1>1, <1>2 DEF RestInv
  <1>4. ASSUME spoiled' = {} PROVE CopyInv'
    <2>0. CopyInv BY <1>0, <1>4
    <2>1. BaseInv' BY <1>0, <2>0 DEF CopyInv, BaseInv
    <2>2. PICK b \in Copies : Between(b) BY <1>1, <2>0 DEF CopyInv
    <2>3. call.ok BY <1>1, <2>0 DEF CopyInv
    <2>4. rec = Target(b) /\ \A j \in Homes : conf[j] = Target(b) BY <1>2, <2>2 DEF Between
    <2>5. Target(b).on = call.to.on BY DEF Target
    <2>6. Target(b) \in Copies BY <2>4 DEF QuotaTypeOK
    <2> DEFINE t == Target(b)
    <2>7. CASE UpdateEnds
      <3>1. stat' = stat /\ rec' = [t EXCEPT !.on = call.to.on] BY <2>3, <2>4, <2>7 DEF UpdateEnds
      <3>2. rec' = t BY <2>5, <2>6, <3>1 DEF Copies
      <3>3. RowCopy = t
        <4>1. \E j \in Homes : ~Pending(j) BY <1>2, HomesAssumption
        <4>2. call.kind # "bulk" BY <2>7 DEF UpdateEnds
        <4> QED BY <2>2, <4>1, <4>2 DEF Between
      <3>4. Agree' BY <1>0, <2>4, <3>1, <3>2, <3>3 DEF Agree, RowCopy
      <3> QED BY <1>1, <2>1, <3>4 DEF CopyInv
    <2>8. CASE BulkEnds
      <3>1. stat' = [stat EXCEPT !.on = call.to.on] /\ rec' = [t EXCEPT !.on = call.to.on] /\ call.kind = "bulk"
        BY <2>3, <2>4, <2>8 DEF BulkEnds
      <3>2. rec' = t BY <2>5, <2>6, <3>1 DEF Copies
      <3>3. stat'.on = t.on /\ stat'.until = t.until
        <4>1. stat.until = b.until /\ t.until = b.until BY <2>2, <3>1 DEF Between, Target
        <4> QED BY <2>5, <3>1, <4>1 DEF QuotaTypeOK
      <3>4. t = [on |-> t.on, until |-> t.until] BY <2>6 DEF Copies
      <3>5. Agree' BY <1>0, <2>4, <3>2, <3>3, <3>4 DEF Agree, RowCopy
      <3> QED BY <1>1, <2>1, <3>5 DEF CopyInv
    <2> QED BY <2>7, <2>8
  <1> QED BY <1>3, <1>4

(* A reset switches the row on. Unless it is noted, the other copies are on, and so was  *)
(* the row, but in a bulk call, which sets it at the end.                              *)
LEMMA ZeroCopies ==
  ASSUME CopyIInv, ResetClient \/ ResetAll
  PROVE  RestInv' /\ (spoiled' = {} => CopyInv')
  <1> USE DEF CopyIInv, PaidIInv
  <1>0. /\ ZeroRow /\ UNCHANGED <<rec, conf, work>>
        /\ call' = call \/ (call.kind = "zero" /\ call' = NoCall)
    BY DEF ResetClient, ResetAll
  <1>1. AtRest' <=> AtRest BY <1>0 DEF AtRest, NoCall
  <1>2. \A j \in Homes : Pending(j)' <=> Pending(j)
    <2>1. call.kind = "zero" => \A j \in Homes : j \notin call.todo BY DEF RestInv, AtRest, Pending
    <2> QED BY <1>0, <2>1 DEF Pending, NoCall
  <1>3. RestInv' BY <1>0, <1>1, <1>2 DEF RestInv, NoCall
  <1>4. /\ stat'.on = TRUE /\ stat'.until = stat.until /\ spoiled \subseteq spoiled'
        /\ spoiled' = {} => rec.on /\ \A j \in Homes : conf[j].on
    BY <1>0 DEF ZeroRow, QuotaTypeOK
  <1>5. ASSUME spoiled' = {} PROVE CopyInv'
    <2>0. CopyInv BY <1>4, <1>5
    <2>1. BaseInv' BY <1>0, <2>0 DEF CopyInv, BaseInv
    <2>2. CASE AtRest
      <3>1. Agree BY <2>0, <2>2 DEF CopyInv
      <3>2. rec = [on |-> stat.on, until |-> stat.until] /\ rec.on = TRUE
        BY <1>4, <1>5, <3>1 DEF Agree, RowCopy, QuotaTypeOK, Copies
      <3>3. RowCopy' = RowCopy BY <1>4, <3>2 DEF RowCopy
      <3>4. Agree' BY <1>0, <3>1, <3>3 DEF Agree
      <3> QED BY <1>1, <2>1, <2>2, <3>4 DEF CopyInv
    <2>3. CASE ~AtRest
      <3>0. call' = call BY <1>0, <2>3 DEF AtRest
      <3>1. PICK b \in Copies : Between(b) BY <2>0, <2>3 DEF CopyInv
      <3>2. Target(b)' = Target(b) BY <3>0 DEF Target
      <3>3. call.kind # "bulk" => RowCopy' = RowCopy
        <4> SUFFICES ASSUME call.kind # "bulk" PROVE RowCopy' = RowCopy OBVIOUS
        <4>1. PICK j \in Homes : conf[j] = RowCopy BY <3>1, HomesAssumption DEF Between
        <4>2. stat.on = TRUE BY <1>4, <1>5, <4>1 DEF RowCopy, QuotaTypeOK
        <4> QED BY <1>4, <4>2 DEF RowCopy
      <3>4. Between(b)' BY <1>0, <1>2, <1>4, <3>0, <3>1, <3>2, <3>3 DEF Between
      <3> QED BY <1>1, <2>0, <2>1, <2>3, <3>0, <3>4 DEF CopyInv
    <2> QED BY <2>2, <2>3
  <1> QED BY <1>3, <1>5

(* The settings of another client's edit are those the inbound has.                     *)
LEMMA OtherCopies ==
  ASSUME CopyIInv, NEW i \in Homes, OtherReads(i) \/ (\E sync \in BOOLEAN : OtherCommits(i, sync)) \/ ApplyFails(i)
  PROVE  RestInv' /\ (spoiled' = {} => CopyInv')
  <1> USE DEF CopyIInv, PaidIInv
  <1>1. CASE ApplyFails(i)
    <2>1. /\ call' = [call EXCEPT !.ok = FALSE] /\ work' = [work EXCEPT ![i] = Free] /\ spoiled' # {}
      BY <1>1 DEF ApplyFails
    <2>2. call'.kind = call.kind /\ call'.todo = call.todo BY <2>1 DEF QuotaTypeOK
    <2>3. \A j \in Homes : work'[j].kind = "ours" => work[j].kind = "ours" BY <2>1 DEF QuotaTypeOK, Free
    <2> QED BY <2>1, <2>2, <2>3 DEF RestInv, AtRest, Pending
  <1>2. CASE OtherReads(i)
    <2>1. /\ work[i] = Free /\ work' = [work EXCEPT ![i] = [kind |-> "other", base |-> conf[i]]]
          /\ UNCHANGED <<stat, rec, conf, call, spoiled>>
      BY <1>2 DEF OtherReads, copyVars
    <2>2. \A j \in Homes : work'[j].kind = "ours" <=> work[j].kind = "ours" BY <2>1 DEF QuotaTypeOK, Free
    <2>3. \A j \in Homes : Pending(j)' <=> Pending(j) BY <2>1, <2>2 DEF Pending
    <2>4. RestInv' BY <2>1, <2>2, <2>3 DEF RestInv, AtRest
    <2>5. ASSUME spoiled = {} PROVE CopyInv'
      <3>1. BaseInv' BY <2>1, <2>5 DEF CopyInv, BaseInv, QuotaTypeOK
      <3>2. ASSUME NEW b, Between(b) PROVE Between(b)' BY <2>1, <2>3, <3>2 DEF Between, Target, RowCopy
      <3>3. Agree => Agree' BY <2>1 DEF Agree, RowCopy
      <3> QED BY <2>1, <2>5, <3>1, <3>2, <3>3 DEF CopyInv, AtRest
    <2> QED BY <2>1, <2>4, <2>5
  <1>3. ASSUME NEW sync \in BOOLEAN, OtherCommits(i, sync) PROVE RestInv' /\ (spoiled' = {} => CopyInv')
    <2>1. /\ work[i].kind = "other" /\ conf' = [conf EXCEPT ![i] = work[i].base]
          /\ rec' = rec \/ rec' = work[i].base
          /\ work' = [work EXCEPT ![i] = Free] /\ UNCHANGED <<stat, call, spoiled>>
      BY <1>3 DEF OtherCommits
    <2>2. \A j \in Homes : work'[j].kind = "ours" <=> work[j].kind = "ours" BY <2>1 DEF QuotaTypeOK, Free
    <2>3. \A j \in Homes : Pending(j)' <=> Pending(j) BY <2>1, <2>2 DEF Pending
    <2>4. RestInv' BY <2>1, <2>2, <2>3 DEF RestInv, AtRest
    <2>5. ASSUME spoiled = {} PROVE CopyInv'
      <3>0. work[i].base = conf[i] BY <2>1, <2>5 DEF CopyInv, BaseInv
      <3>1. conf' = conf /\ (rec' = rec \/ rec' = conf[i]) BY <2>1, <3>0 DEF QuotaTypeOK
      <3>2. BaseInv' BY <2>1, <2>5, <3>1 DEF CopyInv, BaseInv, QuotaTypeOK, Free
      <3>3. ASSUME NEW b, Between(b) PROVE Between(b)'
        BY <2>1, <2>3, <3>1, <3>3 DEF Between, Target, RowCopy
      <3>4. Agree => Agree' BY <2>1, <3>1 DEF Agree, RowCopy
      <3> QED BY <2>1, <2>5, <3>2, <3>3, <3>4 DEF CopyInv, AtRest
    <2> QED BY <2>1, <2>4, <2>5
  <1> QED BY <1>1, <1>2, <1>3

LEMMA CopyStep == ASSUME CopyIInv, [QuotaNext]_quotaVars PROVE CopyIInv'
  <1>1. PaidIInv' BY PaidStep DEF CopyIInv
  <1>2. CASE TimePasses \/ MaintenanceFails \/ UNCHANGED quotaVars
    <2>1. UNCHANGED <<stat, conf, rec, work, call, spoiled>>
      BY <1>2 DEF TimePasses, MaintenanceFails, quotaVars, copyVars
    <2> QED BY <1>1, <2>1, CopiesUntouched DEF CopyIInv
  <1>3. CASE ResetBegins \/ \E on \in BOOLEAN : BulkBegins(on) \/ \E t \in Terms : UpdateBegins([on |-> on, until |-> t])
    <2>1. PICK kind \in {"update", "bulk", "reset", "zero"} :
            \E p : Begins(kind, p, IF kind = "zero" THEN {} ELSE Homes)
      BY <1>3 DEF ResetBegins, BulkBegins, UpdateBegins
    <2> QED BY <1>1, <2>1, BeginsCopies DEF CopyIInv
  <1>4. CASE PollSteps
    BY <1>1, <1>2, <1>4, CountsCopies, MaintainsCopies DEF PollSteps, CopyIInv
  <1>5. CASE UpdateEnds \/ BulkEnds \/ ResetClient \/ ResetAll
    BY <1>1, <1>5, EndsCopies, ZeroCopies DEF CopyIInv
  <1>6. ASSUME NEW i \in Homes, HomeSteps(i) PROVE CopyIInv'
    BY <1>1, <1>6, ReadsCopies, CommitCopies, OtherCopies DEF HomeSteps, CopyIInv
  <1> QED BY <1>2, <1>3, <1>4, <1>5, <1>6 DEF QuotaNext, CallSteps

(* The invariant of the three copies: equal between calls, and in a call each is what it  *)
(* was or what the call makes of it.                                                    *)
THEOREM CopyInvariant == QuotaSpec => []CopyIInv
  <1>1. QuotaInit => CopyIInv BY CopyInitial
  <1>2. CopyIInv /\ [QuotaNext]_quotaVars => CopyIInv' BY CopyStep
  <1> QED BY <1>1, <1>2, PTL DEF QuotaSpec

(* The row, the record and the settings of every inbound agree between calls, however    *)
(* polls, edits, resets and edits of other clients interleave, but for the three named    *)
(* situations (AddTraffic, UpdateInboundClient, BulkSetEnable, ResetTrafficByEmail).      *)
THEOREM AgreeTheorem == QuotaSpec => []CopiesAgree
  <1>1. CopyIInv => CopiesAgree BY DEF CopyIInv, CopyInv, AtRest, Agree, RowCopy, CopiesAgree
  <1> QED BY <1>1, CopyInvariant, PTL
=============================================================================
