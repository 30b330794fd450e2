---------------------------- MODULE SyncOrphans ----------------------------
(* The removal of one client that its nodes no longer report: a merge that leaves  *)
(* it without an inbound marks it (sync_orphaned_at), any merge that finds it       *)
(* attached again clears the mark, and ReapSyncOrphans deletes it once the mark is  *)
(* old enough. Merges run on the serial writer, the operator's edits too, the       *)
(* reaper reads before it gets there. The grace period is counted in its quarters.  *)
EXTENDS Naturals

CONSTANTS
    Inbounds,   \* inbounds of the nodes
    Grace,      \* syncOrphanReapGrace
    MaxManual   \* bound: operations of the operator

ASSUME GraceAssumption == Grace \in Nat \ {0} /\ MaxManual\in Nat

VARIABLES
    record,    \* the clients row exists
    links,     \* client_inbounds: the inbounds it is attached to
    marked,    \* sync_orphaned_at > 0
    age,       \* how old the mark is, at most Grace
    reaper,    \* the reaper has read the client as one to delete
    handled,   \* bound: operations so far
    missing,   \* ghost: how long the client has been without an inbound, at most Grace
    unseen,    \* ghost: it was attached while it carried the mark, and no merge came
    late       \* ghost: it was attached after the reaper had read it

orphanVars == <<record, links, marked, age, reaper, handled, missing, unseen, late>>

OrphansInit ==
    /\ record = TRUE /\ links \in SUBSET Inbounds /\ marked = FALSE /\ age = 0 /\ reaper = FALSE
    /\ handled = 0 /\ missing = 0 /\ unseen = FALSE /\ late = FALSE

Manual == handled < MaxManual /\ handled' = handled + 1

(* The client is attached to the inbounds l, by hand or by a merge, and carries the   *)
(* mark or not.                                                                     *)
Becomes(l, mark, hand) ==
    /\ links' = l /\ marked' = mark
    /\ age' = IF marked /\ mark THEN age ELSE 0
    /\ missing' = IF l = {} THEN missing ELSE 0
    /\ unseen' = (mark /\ (unseen \/ (hand /\ l # {})))
    /\ late' = (late \/ (reaper /\ l # {}))
-----------------------------------------------------------------------------
TimePassesBy ==
    /\ age' = IF marked /\ age < Grace THEN age + 1 ELSE age
    /\ missing' = IF record /\ links = {} /\ missing < Grace THEN missing + 1 ELSE missing
    /\ UNCHANGED <<record, links, marked, reaper, handled, unseen, late>>

(* Faulty variant: an old mark survives a merge that finds the client attached.       *)
MarkStays(lost, l) == marked \/ (lost /\ l = {})

(* The mark at the end of a merge (markSyncOrphan, clearSyncOrphanMarks).             *)
MarkAfter(lost, l) == l = {} /\ (marked \/ lost)

(* setRemoteTrafficLocked for a snapshot of some inbounds, of which those in          *)
(* reports list the client; for those in failed SyncInbound fails, and their links      *)
(* stay. A client the master does not know is created.                               *)
MergeSnapshot(snapshot, reports, failed) ==
    LET synced == snapshot \ failed
        l == (links \ synced) \cup (reports \cap synced)
    IN  /\ record' = (record \/ l # {})
        /\ Becomes(l, MarkAfter(record /\ links \cap synced # {}, l), FALSE)
        /\ UNCHANGED <<reaper, handled>>

(* On a dirty node no link changes, but marks of attached clients are cleared.         *)
MergeDirty ==
    /\ Becomes(links, MarkAfter(FALSE, links), FALSE)
    /\ UNCHANGED <<record, reaper, handled>>

(* The operator: Attach and Detach leave the mark alone, Delete takes it along, and a   *)
(* client that is created has none.                                                  *)
Attach(i) ==
    /\ Manual /\ record /\ i \notin links
    /\ Becomes(links \cup {i}, marked, TRUE)
    /\ UNCHANGED <<record, reaper>>

Detach(i) ==
    /\ Manual /\ record /\ i \in links
    /\ Becomes(links \ {i}, marked, TRUE)
    /\ UNCHANGED <<record, reaper>>

DeleteClient ==
    /\ Manual /\ record /\ record' = FALSE
    /\ Becomes({}, FALSE, TRUE)
    /\ UNCHANGED reaper

CreateClient(i) ==
    /\ Manual /\ ~record /\ record' = TRUE
    /\ Becomes({i}, FALSE, TRUE)
    /\ UNCHANGED reaper
-----------------------------------------------------------------------------
(* ReapSyncOrphans reads the emails whose mark is old and who have no inbound, and      *)
(* later deletes what has these emails, on the writer. A link is by id, so one that     *)
(* was made in between points nowhere.                                               *)
ReapReads ==
    /\ ~reaper /\ record /\ marked /\ age = Grace /\ links = {}
    /\ reaper' = TRUE
    /\ UNCHANGED <<record, links, marked, age, handled, missing, unseen, late>>

ReapDeletes ==
    /\ reaper /\ reaper' = FALSE
    /\ record' = FALSE /\ links' = {} /\ marked' = FALSE /\ age' = 0
    /\ missing' = 0 /\ unseen' = FALSE /\ late' = FALSE
    /\ UNCHANGED handled

ReapFails ==
    /\ reaper /\ reaper' = FALSE /\ late' = FALSE
    /\ UNCHANGED <<record, links, marked, age, handled, missing, unseen>>
-----------------------------------------------------------------------------
OrphansNext ==
    \/ TimePassesBy \/ MergeDirty \/ DeleteClient \/ ReapReads \/ ReapDeletes \/ ReapFails
    \/ \E snapshot, reports, failed \in SUBSET Inbounds : MergeSnapshot(snapshot, reports, failed)
    \/ \E i \in Inbounds : Attach(i) \/ Detach(i) \/ CreateClient(i)

OrphansSpec == OrphansInit /\ [][OrphansNext]_orphanVars
-----------------------------------------------------------------------------
(* Types of the orphan mark and of the client it is for.                               *)
OrphansTypeOK ==
    /\ record \in BOOLEAN /\ links \subseteq Inbounds /\ marked \in BOOLEAN /\ reaper \in BOOLEAN
    /\ age \in 0..Grace /\ missing \in 0..Grace /\ (~record => links = {} /\ ~marked)

(* A bad merge can be taken back (client_sync_orphan.go:14): the reaper deletes only a  *)
(* client that has been without an inbound for the whole grace period. Two exceptions:  *)
(* the client was attached after the reaper had read it, by a merge or by hand, or it    *)
(* was attached by hand and detached again with no merge in between to clear the mark.   *)
ReapedWasLost ==
    [][reaper /\ ~reaper' /\ record /\ ~record' =>
         unseen \/ late \/ (links = {} /\ missing = Grace)]_orphanVars
=============================================================================
