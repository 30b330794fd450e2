------------------------------ MODULE NodeSync ------------------------------
(***************************************************************************)
(* How the master panel keeps the clients of one inbound equal on a remote *)
(* node: client edits on the master (client_crud.go,                       *)
(* client_inbound_apply.go), the node's config_dirty flag (node.go), the   *)
(* fingerprint of the last push (runtime/remote.go) and the sync tick that *)
(* reconciles a dirty node and adopts a clean one                          *)
(* (job/node_traffic_sync_job.go, inbound_node.go).                        *)
(*                                                                         *)
(* An inbound's wire payload is the set of its clients, so two payloads    *)
(* have equal fingerprints iff the sets are equal.  A call to the node is  *)
(* one step at the node plus the step in which the master learns of it.    *)
(***************************************************************************)
EXTENDS Naturals

CONSTANTS
    Clients,     \* client emails
    MaxEdits,    \* bound: client edits on the master
    MaxCrashes,  \* bound: restarts of the master
    MaxLost      \* bound: calls the node executes whose answer never arrives

ASSUME BoundsAssumption == MaxEdits \in Nat /\ MaxCrashes \in Nat /\ MaxLost \in Nat

VARIABLES
    m,           \* the inbound's clients in the master's database
    dirty,       \* nodes.config_dirty
    stamp,       \* nodes.config_dirty_at, fresh for every mark
    n,           \* the inbound's clients on the node
    fp,          \* Remote.pushedFP: {the payload believed on the node}, or {}
    tomb,        \* recentlyDeleted: emails deleted within deleteTombstoneTTL
    edit,        \* the edit that holds lockInbound
    job,         \* the NodeTrafficSyncJob tick that holds running
    want,        \* ghost: the clients the operator asked for
    excuses,     \* ghost: the situations met so far that the code gets wrong
    crashes,     \* ghost: restarts so far
    lost         \* ghost: answers lost so far

master == <<m, dirty, stamp>>
ghosts == <<want, excuses, crashes, lost>>
vars == <<master, n, fp, tomb, edit, job, ghosts>>

Sets == SUBSET Clients
NoEdit == [pc |-> "idle", op |-> "none", client |-> {}, base |-> {}, new |-> {}]
NoJob == [pc |-> "idle", dirtyAt |-> 0, want |-> {}, snap |-> {}, seen |-> FALSE]

\* A node whose clients were adopted by an earlier tick of this master.
Init ==
    /\ m \in Sets
    /\ n = m
    /\ fp \in {{}, {m}}
    /\ dirty = FALSE
    /\ stamp = 0
    /\ tomb = {}
    /\ edit = NoEdit
    /\ job = NoJob
    /\ want = m
    /\ excuses = {}
    /\ crashes = 0
    /\ lost = 0

(***************************************************************************)
(* A client edit: ClientService.Create and Delete around AddInboundClient  *)
(* and DelInboundClientByEmail, which hold lockInbound to their end.       *)
(***************************************************************************)

Apply(op, cs, s) == IF op = "add" THEN s \cup cs ELSE s \ cs

\* The row is read before the serialized transaction; Delete leaves its
\* tombstone first of all.
EditRead(op, c) ==
    /\ edit.pc = "idle"
    /\ stamp < MaxEdits
    /\ (op = "add") = (c \notin m)
    /\ edit' = [pc |-> "commit", op |-> op, client |-> {c}, base |-> m, new |-> Apply(op, {c}, m)]
    /\ tomb' = IF op = "delete" THEN tomb \cup {c} ELSE tomb
    /\ UNCHANGED <<master, n, fp, job, ghosts>>

\* What an edit meets when it commits.  overlap: a reconcile has read the
\* inbound and not yet recorded its push.  revert: the payload goes back to the
\* one the fingerprint records.
Met == {x \in {"overlap"} : job.pc \in {"check", "send", "record"}}
           \cup {x \in {"revert"} : fp = {edit.new}}

\* runSerializedTx: the row is saved whole and MarkNodeDirtyTx runs with it.
EditCommit ==
    /\ edit.pc = "commit"
    /\ m' = edit.new
    /\ dirty' = TRUE
    /\ stamp' = stamp + 1
    /\ want' = Apply(edit.op, edit.client, want)
    /\ edit' = [edit EXCEPT !.pc = "push"]
    /\ excuses' = excuses \cup Met
    /\ UNCHANGED <<n, fp, tomb, job, crashes, lost>>

\* The transaction is rolled back: Delete lifts its tombstone again.
EditRollback ==
    /\ edit.pc = "commit"
    /\ edit' = NoEdit
    /\ tomb' = IF edit.op = "delete" THEN tomb \ edit.client ELSE tomb
    /\ UNCHANGED <<master, n, fp, job, ghosts>>

\* Create lifts a tombstone left by a delete, once all its pushes returned.
EndEdit ==
    /\ edit' = NoEdit
    /\ tomb' = IF edit.op = "add" THEN tomb \ edit.client ELSE tomb

\* AddClient or DeleteClient on the node; adding an email it has is refused.
EditPush ==
    /\ edit.pc = "push"
    /\ edit.op = "add" => edit.client \cap n = {}
    /\ n' = Apply(edit.op, edit.client, n)
    /\ edit' = [edit EXCEPT !.pc = "advance"]
    /\ UNCHANGED <<master, fp, tomb, job, ghosts>>

\* The node is offline, unreachable or refuses: the dirty flag is left to it.
EditPushFails ==
    /\ edit.pc = "push"
    /\ EndEdit
    /\ UNCHANGED <<master, n, fp, job, ghosts>>

\* The node executes the call but nodeClientPushTimeout expires first.
EditPushLost ==
    /\ edit.pc = "push"
    /\ lost < MaxLost
    /\ edit.op = "add" => edit.client \cap n = {}
    /\ n' = Apply(edit.op, edit.client, n)
    /\ EndEdit
    /\ lost' = lost + 1
    /\ UNCHANGED <<master, fp, job, want, excuses, crashes>>

\* AdvancePushedInbound: only from the fingerprint of the state edited.
EditAdvance ==
    /\ edit.pc = "advance"
    /\ fp' = IF fp = {edit.base} THEN {edit.new} ELSE fp
    /\ EndEdit
    /\ UNCHANGED <<master, n, job, ghosts>>

\* deleteTombstoneTTL passes.
TombstoneExpires(c) ==
    /\ c \in tomb
    /\ tomb' = tomb \ {c}
    /\ UNCHANGED <<master, n, fp, edit, job, ghosts>>

(***************************************************************************)
(* NodeTrafficSyncJob.Run and syncOne: reconcile if dirty, then pull.      *)
(***************************************************************************)

JobAt(place) == job.pc = place
JobGo(place) == job' = [job EXCEPT !.pc = place]

\* Faulty variant: config_dirty_at is not among the columns read.
JobStartNoStamp ==
    /\ JobAt("idle")
    /\ job' = [NoJob EXCEPT !.pc = IF dirty THEN "read" ELSE "fetch"]
    /\ UNCHANGED <<master, n, fp, tomb, edit, ghosts>>

\* GetAll: the flag and its stamp are read together, before anything else.
JobStart ==
    /\ JobAt("idle")
    /\ job' = [NoJob EXCEPT !.pc = IF dirty THEN "read" ELSE "fetch", !.dirtyAt = stamp]
    /\ UNCHANGED <<master, n, fp, tomb, edit, ghosts>>

\* ReconcileNode reads the inbounds once, without lockInbound.
ReconcileRead ==
    /\ JobAt("read")
    /\ job' = [job EXCEPT !.pc = "check", !.want = m]
    /\ UNCHANGED <<master, n, fp, tomb, edit, ghosts>>

\* ReconcileInbound: an unchanged payload is not sent again.
ReconcileCheck ==
    /\ JobAt("check")
    /\ JobGo(IF fp = {job.want} THEN "clear" ELSE "send")
    /\ UNCHANGED <<master, n, fp, tomb, edit, ghosts>>

\* UpdateInbound at the node: the whole payload replaces what it has.
ReconcileSend ==
    /\ JobAt("send")
    /\ n' = job.want
    /\ JobGo("record")
    /\ UNCHANGED <<master, fp, tomb, edit, ghosts>>

\* The read, ListInboundOptions, UpdateInbound or the clearing fails: the node
\* stays dirty and the tick goes on to its pull.
ReconcileFails ==
    /\ job.pc \in {"read", "check", "send", "clear"}
    /\ JobGo("fetch")
    /\ UNCHANGED <<master, n, fp, tomb, edit, ghosts>>

ReconcileSendLost ==
    /\ JobAt("send")
    /\ lost < MaxLost
    /\ n' = job.want
    /\ JobGo("fetch")
    /\ lost' = lost + 1
    /\ UNCHANGED <<master, fp, tomb, edit, want, excuses, crashes>>

\* recordPushedInbound.
ReconcileRecord ==
    /\ JobAt("record")
    /\ fp' = {job.want}
    /\ JobGo("clear")
    /\ UNCHANGED <<master, n, tomb, edit, ghosts>>

\* Faulty variant: the stamp is not compared.
ClearNodeDirtyAlways ==
    /\ JobAt("clear")
    /\ dirty' = FALSE
    /\ JobGo("fetch")
    /\ UNCHANGED <<m, stamp, n, fp, tomb, edit, ghosts>>

\* Faulty variant: lowering the flag stamps it again.
ClearNodeDirtyStamps ==
    /\ JobAt("clear")
    /\ dirty' = IF stamp = job.dirtyAt THEN FALSE ELSE dirty
    /\ stamp' = stamp + 1
    /\ JobGo("fetch")
    /\ UNCHANGED <<m, n, fp, tomb, edit, ghosts>>

\* ClearNodeDirty: only if no later edit has marked the node meanwhile.
ClearNodeDirty ==
    /\ JobAt("clear")
    /\ dirty' = IF stamp = job.dirtyAt THEN FALSE ELSE dirty
    /\ JobGo("fetch")
    /\ UNCHANGED <<m, stamp, n, fp, tomb, edit, ghosts>>

\* FetchTrafficSnapshot at the node.
FetchSnapshot ==
    /\ JobAt("fetch")
    /\ job' = [job EXCEPT !.pc = "sample", !.snap = n]
    /\ UNCHANGED <<master, n, fp, tomb, edit, ghosts>>

\* The fetch, or later the merge transaction, fails: the tick ends.
PullFails ==
    /\ job.pc \in {"fetch", "merge"}
    /\ job' = NoJob
    /\ UNCHANGED <<master, n, fp, tomb, edit, ghosts>>

\* NodeSyncState after the fetch, before the serial writer is entered; its error
\* is ignored and reads as clean.
SampleDirty ==
    /\ JobAt("sample")
    /\ \E seen \in {dirty, FALSE} : job' = [job EXCEPT !.pc = "merge", !.seen = seen]
    /\ UNCHANGED <<master, n, fp, tomb, edit, ghosts>>

\* The node's settings without the clients deleted on the master just now.
Adopted == job.snap \ tomb

AdoptedWireChanged == Adopted # m

\* The fingerprint follows what is adopted.
Adopt ==
    /\ m' = Adopted
    /\ fp' = IF AdoptedWireChanged THEN {Adopted} ELSE fp
    /\ excuses' = excuses \cup {x \in {"tombstone"} : job.snap \cap tomb \cap want # {}}

\* The flag is read again inside the serial writer.
StillDirty == job.seen \/ dirty

\* Faulty variant: the flag sampled before the writer was entered is trusted.
MergeTrustsSample ==
    /\ JobAt("merge")
    /\ IF job.seen THEN UNCHANGED <<m, fp, excuses>> ELSE Adopt
    /\ job' = NoJob
    /\ UNCHANGED <<dirty, stamp, n, tomb, edit, want, crashes, lost>>

\* setRemoteTrafficLocked: only a clean node's settings are adopted.
Merge ==
    /\ JobAt("merge")
    /\ IF StillDirty THEN UNCHANGED <<m, fp, excuses>> ELSE Adopt
    /\ job' = NoJob
    /\ UNCHANGED <<dirty, stamp, n, tomb, edit, want, crashes, lost>>

(***************************************************************************)
(* The master panel restarts, at any point: the database survives, the     *)
(* fingerprints, the tombstones and everything in progress do not.         *)
(***************************************************************************)
Restart ==
    /\ crashes < MaxCrashes
    /\ fp' = {}
    /\ tomb' = {}
    /\ edit' = NoEdit
    /\ job' = NoJob
    /\ crashes' = crashes + 1
    /\ UNCHANGED <<master, n, want, excuses, lost>>

-----------------------------------------------------------------------------

EditStep == EditCommit \/ EditRollback \/ EditPush \/ EditPushFails \/ EditPushLost \/ EditAdvance

JobStep ==
    \/ JobStart \/ ReconcileRead \/ ReconcileCheck \/ ReconcileSend \/ ReconcileFails
    \/ ReconcileSendLost \/ ReconcileRecord \/ ClearNodeDirty
    \/ FetchSnapshot \/ PullFails \/ SampleDirty \/ Merge

Next ==
    \/ \E op \in {"add", "delete"}, c \in Clients : EditRead(op, c)
    \/ EditStep
    \/ \E c \in Clients : TombstoneExpires(c)
    \/ JobStep
    \/ Restart

Spec == Init /\ [][Next]_vars

\* The tick comes every 5 seconds, a begun edit ends, a tombstone runs out, and
\* a node or a database that is asked again and again answers at last.
Fairness ==
    /\ WF_vars(EditStep)
    /\ WF_vars(JobStep)
    /\ SF_vars(ReconcileRead) /\ SF_vars(ReconcileCheck) /\ SF_vars(ReconcileSend)
    /\ SF_vars(ClearNodeDirty) /\ SF_vars(FetchSnapshot) /\ SF_vars(Merge)
    /\ \A c \in Clients : WF_vars(TombstoneExpires(c))

FairSpec == Spec /\ Fairness

-----------------------------------------------------------------------------

TypeOK ==
    /\ m \in Sets /\ n \in Sets /\ want \in Sets
    /\ tomb \subseteq Clients
    /\ fp \in {{}} \cup {{s} : s \in Sets}
    /\ dirty \in BOOLEAN
    /\ stamp \in 0..MaxEdits
    /\ edit \in [pc : {"idle", "commit", "push", "advance"}, op : {"none", "add", "delete"},
                 client : Sets, base : Sets, new : Sets]
    /\ job \in [pc : {"idle", "read", "check", "send", "record", "clear", "fetch", "sample", "merge"},
                dirtyAt : 0..MaxEdits, want : Sets, snap : Sets, seen : BOOLEAN]
    /\ excuses \subseteq {"overlap", "revert", "tombstone"}
    /\ crashes \in 0..MaxCrashes
    /\ lost \in 0..MaxLost

\* No committed edit is undone on the master by the node's older state, however
\* edits, ticks, failed and unanswered calls and restarts interleave:
\* config_dirty is raised with the edit and lowered only when the edit has
\* reached the node.  The three situations in excuses are the exceptions.
MasterIntact == excuses = {} => m = want

\* A clean node holds what the master holds, even at the moment after the flag
\* is lowered: a reconcile that pushed an older payload cannot lower it.
CleanMeansEqual == excuses = {} /\ ~dirty => n = m

\* Once the operator leaves it alone, the node ends up clean and equal to the
\* master, whatever went wrong before.
Converges == <>[](edit.pc = "idle") => <>[](~dirty /\ n = m)

\* What AdvancePushedInbound's comment says of an edit made while a reconcile is
\* under way: either the fingerprint proves the node's state or the next
\* reconcile re-sends, so the edit is not lost.  False.
OverlapIsSafe == edit.pc = "idle" /\ excuses \subseteq {"overlap"} => m = want

\* The same for an edit that takes the payload back to the one recorded, after
\* the node executed an edit the fingerprint did not follow: the stale
\* fingerprint equals the payload wanted and nothing is re-sent.  False.
RevertIsSafe == edit.pc = "idle" /\ excuses \subseteq {"revert"} => m = want

\* What Delete and Create say of their tombstones: a delete that failed, or a
\* client created again, is not carried out by the next merge.  False: a merge
\* that runs before the tombstone is lifted does it.
TombstoneIsSafe == edit.pc = "idle" /\ excuses \subseteq {"tombstone"} => want \subseteq m
=============================================================================
