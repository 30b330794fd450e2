---------------------------- MODULE NodeAdoption ----------------------------
(* Which inbounds a node and its master have: the import of what the node had    *)
(* before, inbounds_adopted_at that keeps the reconcile from sweeping until      *)
(* then, the sweep on either side, and the selection of tags the master manages. *)
(* An inbound is its tag; aliases and disabled inbounds are left out.            *)
EXTENDS Naturals, FiniteSets

CONSTANTS
    Tags,         \* inbound tags
    All,          \* inbound_sync_mode "all"
    MaxMarks,     \* bound: edits on the master, each marks the node dirty
    MaxTroubles   \* bound: node-side changes, failed or empty answers

ASSUME AllAssumption == \A s \in SUBSET Tags : All # s

VARIABLES
    served,     \* node: its inbounds
    rows,       \* master: central rows of the node
    selection,  \* master: All, or inbound_tags
    adopted,    \* master: inbounds_adopted_at # 0
    flag,       \* master: config_dirty
    markedAt,   \* master: config_dirty_at
    dels,       \* master: committed deletions not yet pushed
    tpc,        \* tick: where syncOne is
    tn,         \* tick: the node row it started with
    tlist,      \* tick: the central rows ReconcileNode read
    tremote,    \* tick: the tags the node listed to it
    tok,        \* tick: no step of the reconcile failed
    tsnap,      \* tick: the filtered snapshot
    tsample,    \* tick: config_dirty before the merge
    tdirty,     \* merge: dirty, after it read the node row
    tsel,       \* merge: the selection in that row
    tcentral,   \* merge: the central rows it read after that
    overtaken,  \* ghost: tags deleted between these two reads of a clean merge
    troubles,   \* bound: troubles so far
    ever,       \* ghost: tags the master had a row for
    waiting,    \* ghost: tags the node had when they came under management
    gone,       \* ghost: tags deleted on the adopted master that the node still has
    promised,   \* ghost: inbounds created on the master and not yet on the node
    hurried     \* ghost: ways in which adoption was recorded without an import

rowVars == <<rows, selection, adopted, flag, markedAt>>
mergeVars == <<tdirty, tsel, tcentral, overtaken>>
tickVars == <<tn, tlist, tremote, tok, tsnap, tsample, mergeVars>>
storyVars == <<ever, waiting, gone, promised>>
adoptionVars == <<served, rowVars, dels, tpc, tickVars, troubles, storyVars, hurried>>

Manages(s) == IF s = All THEN Tags ELSE s

(* nodeSelectionGrew; a node in mode All has no inbound_tags (normalize).        *)
SelectionGrew(s, t) ==
    IF t = All THEN s # All ELSE ~(t \subseteq IF s = All THEN {} ELSE s)

(* syncCanAdoptInbounds without aliases.                                         *)
CanAdopt(s) == s = All \/ s # {}

Trouble == troubles < MaxTroubles /\ troubles' = troubles + 1
Calm == UNCHANGED troubles

NoRow == [sel |-> {}, adopted |-> FALSE, markedAt |-> 0]

AdoptionInit ==
    /\ served \in SUBSET Tags /\ rows = {} /\ selection \in {All, {}} \cup {{t} : t \in Tags}
    /\ adopted = FALSE /\ flag = FALSE /\ markedAt = 0 /\ dels = {}
    /\ tpc = "idle" /\ tn = NoRow
    /\ tlist = {} /\ tremote = {} /\ tok = TRUE /\ tsnap = {} /\ tsample = FALSE
    /\ tdirty = FALSE /\ tsel = {} /\ tcentral = {} /\ overtaken = {}
    /\ troubles = 0
    /\ ever = {} /\ waiting = served \cap Manages(selection)
    /\ gone = {} /\ promised = {} /\ hurried = {}

(* Ghosts after the node has the tags of the set s.                              *)
NodeHas(s) ==
    /\ served' = s
    /\ gone' = gone \cap s
    /\ promised' = promised \ s

-----------------------------------------------------------------------------
(* Edits on the master: each commits with MarkNodeDirtyTx.                       *)
MarkDirty ==
    /\ markedAt < MaxMarks
    /\ flag' = TRUE /\ markedAt' = markedAt + 1

(* AddInbound for the node: not pushed, the reconcile delivers it; the tag joins *)
(* the selection (EnsureInboundTagAllowedTx). It commits on the writer, so never *)
(* in the middle of a merge.                                                     *)
CreateInbound(t) ==
    /\ MarkDirty
    /\ tpc \notin {"central", "commit"}
    /\ t \notin rows
    /\ rows' = rows \cup {t}
    /\ selection' = IF selection = All THEN All ELSE selection \cup {t}
    /\ ever' = ever \cup {t} /\ waiting' = waiting \ {t} /\ gone' = gone \ {t}
    /\ promised' = IF t \in served THEN promised ELSE promised \cup {t}
    /\ UNCHANGED <<served, adopted, dels, tpc, tickVars, troubles, hurried>>

(* DelInbound: the commit, and after it the push, which may get lost. This       *)
(* transaction is not on the writer: it may fall between two steps of a merge.   *)
DeleteInbound(t) ==
    /\ MarkDirty
    /\ t \in rows
    /\ rows' = rows \ {t}
    /\ dels' = dels \cup {t}
    /\ gone' = gone \cup (IF adopted THEN {t} \cap served ELSE {})
    /\ promised' = promised \ {t}
    /\ overtaken' = IF tpc = "central" /\ ~tdirty THEN overtaken \cup {t} ELSE overtaken
    /\ UNCHANGED <<served, selection, adopted, tpc, tn, tlist, tremote, tok, tsnap, tsample,
                   tdirty, tsel, tcentral, troubles, ever, waiting, hurried>>

PushDelete(t) ==
    /\ t \in dels
    /\ dels' = dels \ {t}
    /\ NodeHas(served \ {t})
    /\ UNCHANGED <<rowVars, tpc, tickVars, troubles, ever, waiting, hurried>>

PushDeleteLost(t) ==
    /\ t \in dels
    /\ dels' = dels \ {t}
    /\ UNCHANGED <<served, rowVars, tpc, tickVars, troubles, storyVars, hurried>>

(* Any other edit of an inbound or client of the node.                           *)
EditInbound ==
    /\ MarkDirty
    /\ rows # {}
    /\ UNCHANGED <<served, rows, selection, adopted, dels, tpc, tickVars, troubles, storyVars, hurried>>

(* Faulty variant: a selection that grows does not put off the sweep.            *)
StaysAdopted(s) == adopted

(* inbounds_adopted_at after NodeService.Update with selection s.                *)
AdoptedAfterUpdate(s) == adopted /\ ~SelectionGrew(selection, s)

(* NodeService.Update, not on the writer. A tick at work goes on with the row it  *)
(* read; if that row allows a sweep, or the tick is about to record an adoption,  *)
(* the ghost says so.                                                            *)
UpdateNode(s) ==
    /\ MarkDirty
    /\ s # selection
    /\ selection' = s
    /\ adopted' = AdoptedAfterUpdate(s)
    /\ waiting' = waiting \cup ((Manages(s) \cap served) \ (Manages(selection) \cup ever))
    /\ hurried' = hurried \cup
         (IF /\ SelectionGrew(selection, s) /\ tpc # "idle"
             /\ tn.adopted \/ tpc \in {"merge", "central", "commit", "mark"}
            THEN {"grown"} ELSE {})
    /\ gone' = IF SelectionGrew(selection, s) THEN {} ELSE gone
    /\ UNCHANGED <<served, rows, dels, tpc, tickVars, troubles, ever, promised>>

-----------------------------------------------------------------------------
(* The node's own operator.                                                      *)
NodeCreates(t) ==
    /\ Trouble
    /\ t \notin served
    /\ NodeHas(served \cup {t})
    /\ UNCHANGED <<rowVars, dels, tpc, tickVars, ever, waiting, hurried>>

NodeDeletes(t) ==
    /\ Trouble
    /\ t \in served
    /\ NodeHas(served \ {t})
    /\ waiting' = waiting \ {t}
    /\ UNCHANGED <<rowVars, dels, tpc, tickVars, ever, hurried>>

-----------------------------------------------------------------------------
(* syncOne. On a dirty node ReconcileNode reads the rows, lists the node's tags,  *)
(* pushes every row and, if the node row it was given is adopted, sweeps.        *)
TickBegin ==
    /\ tpc = "idle"
    /\ tn' = [sel |-> selection, adopted |-> adopted, markedAt |-> markedAt]
    /\ tpc' = IF flag THEN "read" ELSE "fetch"
    /\ UNCHANGED <<served, rowVars, dels, tok, tlist, tremote, tsnap, tsample, mergeVars, troubles,
                   storyVars, hurried>>

ReconcileRows ==
    /\ tpc = "read"
    /\ tlist' = rows
    /\ tpc' = "list"
    /\ UNCHANGED <<served, rowVars, dels, tn, tremote, tok, tsnap, tsample, mergeVars, troubles,
                   storyVars, hurried>>

ListInboundOptions ==
    /\ tpc = "list"
    /\ \/ Calm /\ tremote' = served /\ tpc' = "push" /\ UNCHANGED tok
       \/ Trouble /\ tok' = FALSE /\ tpc' = "clear" /\ UNCHANGED tremote
    /\ UNCHANGED <<served, rowVars, dels, tn, tlist, tsnap, tsample, mergeVars, storyVars, hurried>>

(* Faulty variant: the sweep does not wait for the adoption.                     *)
SweepsAlways == TRUE

MaySweepNode == tn.adopted

ReconcilePush ==
    /\ tpc = "push"
    /\ \/ Calm /\ NodeHas(served \cup tlist) /\ UNCHANGED tok
       \/ Trouble /\ tok' = FALSE /\ \E s \in SUBSET tlist : s # tlist /\ NodeHas(served \cup s)
    /\ tpc' = IF MaySweepNode THEN "sweep" ELSE "clear"
    /\ UNCHANGED <<rowVars, dels, tn, tlist, tremote, tsnap, tsample, mergeVars, ever, waiting, hurried>>

(* What the sweep deletes: tags the node listed, without a row, and managed.     *)
Undesired == (tremote \ tlist) \cap Manages(tn.sel)

ReconcileSweep ==
    /\ tpc = "sweep"
    /\ \/ Calm /\ NodeHas(served \ Undesired) /\ UNCHANGED tok
       \/ Trouble /\ tok' = FALSE /\ \E s \in SUBSET Undesired : s # Undesired /\ NodeHas(served \ s)
    /\ tpc' = "clear"
    /\ UNCHANGED <<rowVars, dels, tn, tlist, tremote, tsnap, tsample, mergeVars, ever, waiting, hurried>>

(* Faulty variant: the flag is lowered whatever was marked in the meantime.      *)
Clears == tok

(* ClearNodeDirty is for a reconcile without an error, and for the mark it saw.  *)
ClearsMark == tok /\ markedAt = tn.markedAt

ReconcileEnds ==
    /\ tpc = "clear"
    /\ flag' = (flag /\ ~ClearsMark)
    /\ tlist' = {} /\ tremote' = {} /\ tok' = TRUE
    /\ tpc' = "fetch"
    /\ UNCHANGED <<served, rows, selection, adopted, markedAt, dels, tn, tsnap, tsample,
                   mergeVars, troubles, storyVars, hurried>>

MergeForgets == tdirty' = FALSE /\ tsel' = {} /\ tcentral' = {} /\ overtaken' = {}

TickEnds == tpc' = "idle" /\ tn' = NoRow /\ tsnap' = {} /\ tsample' = FALSE /\ MergeForgets

(* FetchTrafficSnapshot and FilterNodeSnapshot. A node in the middle of a        *)
(* restart may answer with an empty list.                                        *)
FetchTags ==
    /\ tpc = "fetch"
    /\ LET here == served \cap Manages(tn.sel)
       IN  \/ /\ Calm
              /\ tsnap' = here /\ tpc' = "sample"
              /\ UNCHANGED hurried
           \/ /\ Trouble /\ here # {}
              /\ tsnap' = {} /\ tpc' = "sample"
              /\ hurried' = hurried \cup {"empty"}
    /\ UNCHANGED <<served, rowVars, dels, tn, tlist, tremote, tok, tsample, mergeVars, storyVars>>

FetchTagsFails ==
    /\ Trouble
    /\ tpc = "fetch"
    /\ TickEnds
    /\ UNCHANGED <<served, rowVars, dels, tlist, tremote, tok, storyVars, hurried>>

SampleFlag ==
    /\ tpc = "sample"
    /\ tsample' = flag
    /\ tpc' = "merge"
    /\ UNCHANGED <<served, rowVars, dels, tn, tlist, tremote, tok, tsnap, mergeVars, troubles,
                   storyVars, hurried>>

(* Faulty variant: the merge trusts the flag that was sampled.                   *)
DirtyAsSampled == tsample

(* setRemoteTrafficLocked, on the writer: it reads the node row, then the         *)
(* central rows, and then merges in one transaction, with what it read.          *)
DirtyAtMerge == tsample \/ flag

MergeReadsFlag ==
    /\ tpc = "merge"
    /\ tdirty' = DirtyAtMerge /\ tsel' = selection
    /\ tpc' = "central"
    /\ UNCHANGED <<served, rowVars, dels, tn, tlist, tremote, tok, tsnap, tsample, tcentral,
                   overtaken, troubles, storyVars, hurried>>

MergeReadsRows ==
    /\ tpc = "central"
    /\ tcentral' = rows
    /\ tpc' = "commit"
    /\ UNCHANGED <<served, rowVars, dels, tn, tlist, tremote, tok, tsnap, tsample, tdirty, tsel,
                   overtaken, troubles, storyVars, hurried>>

(* Central rows the merge drops because the node no longer reports them: none    *)
(* for an empty report, and none that is not managed.                            *)
NoLongerReported == IF tsnap = {} THEN {} ELSE (tcentral \ tsnap) \cap Manages(tsel)

(* A tag without a row gets one, a row is updated by its id: one deleted since   *)
(* it was read stays away. A new row that cannot be created (its tag is taken,   *)
(* an error) is logged and left out, the merge goes on.                          *)
MergeTags ==
    /\ tpc = "commit"
    /\ \E skipped \in SUBSET (tsnap \ tcentral) :
         /\ IF skipped = {} THEN Calm ELSE Trouble
         /\ skipped # {} => ~tdirty
         /\ rows' = IF tdirty THEN rows
                    ELSE (rows \ NoLongerReported) \cup ((tsnap \ tcentral) \ skipped)
         /\ hurried' = hurried \cup (IF skipped # {} THEN {"unmade"} ELSE {})
                               \cup (IF tdirty /\ ~tsample /\ ~tn.adopted THEN {"edited"} ELSE {})
    /\ ever' = ever \cup rows' /\ waiting' = waiting \ rows' /\ gone' = gone \ rows'
    /\ promised' = promised \cap rows'
    /\ MergeForgets
    /\ tpc' = "mark"
    /\ UNCHANGED <<served, selection, adopted, flag, markedAt, dels, tn, tlist, tremote, tok, tsnap, tsample>>

MergeTagsFails ==
    /\ Trouble
    /\ tpc \in {"merge", "central", "commit"}
    /\ TickEnds
    /\ UNCHANGED <<served, rowVars, dels, tlist, tremote, tok, storyVars, hurried>>

(* The tick ends: MarkNodeInboundsAdopted after a merge the sampled flag calls   *)
(* clean.                                                                        *)
MarkAdopted ==
    /\ tpc = "mark"
    /\ adopted' = (adopted \/ (~tsample /\ ~tn.adopted /\ CanAdopt(tn.sel)))
    /\ TickEnds
    /\ UNCHANGED <<served, rows, selection, flag, markedAt, dels, tlist, tremote, tok,
                   troubles, storyVars, hurried>>

TickSteps ==
    \/ TickBegin \/ ReconcileRows \/ ListInboundOptions \/ ReconcilePush \/ ReconcileSweep
    \/ ReconcileEnds \/ FetchTags \/ FetchTagsFails \/ SampleFlag
    \/ MergeReadsFlag \/ MergeReadsRows \/ MergeTags \/ MergeTagsFails \/ MarkAdopted

MasterSteps ==
    \/ EditInbound
    \/ \E t \in Tags : CreateInbound(t) \/ DeleteInbound(t) \/ PushDelete(t) \/ PushDeleteLost(t)
    \/ \E s \in {All} \cup SUBSET Tags : UpdateNode(s)

AdoptionNext == TickSteps \/ MasterSteps \/ \E t \in Tags : NodeCreates(t) \/ NodeDeletes(t)

AdoptionSpec == AdoptionInit /\ [][AdoptionNext]_adoptionVars

-----------------------------------------------------------------------------
(* Types of the adoption state of a node and of the tick that syncs it.          *)
AdoptionTypeOK ==
    /\ served \subseteq Tags /\ rows \subseteq Tags /\ dels \subseteq Tags
    /\ selection \in {All} \cup SUBSET Tags
    /\ adopted \in BOOLEAN /\ flag \in BOOLEAN /\ markedAt \in Nat
    /\ tpc \in {"idle", "read", "list", "push", "sweep", "clear", "fetch", "sample",
                "merge", "central", "commit", "mark"}
    /\ tn \in [sel : {All} \cup SUBSET Tags, adopted : BOOLEAN, markedAt : Nat]
    /\ tlist \subseteq Tags /\ tremote \subseteq Tags /\ tsnap \subseteq Tags
    /\ tok \in BOOLEAN /\ tsample \in BOOLEAN /\ troubles \in Nat
    /\ tdirty \in BOOLEAN /\ tsel \in {All} \cup SUBSET Tags
    /\ tcentral \subseteq Tags /\ overtaken \subseteq Tags
    /\ ever \subseteq Tags /\ waiting \subseteq Tags /\ gone \subseteq Tags /\ promised \subseteq Tags
    /\ hurried \subseteq {"grown", "edited", "empty", "unmade"}

(* A node is not wiped at onboarding: what it had when it, or the tag, came      *)
(* under management is never swept before it was imported (ReconcileNode,        *)
(* inbound_node.go:180). Excused are the ways in which syncOne records an        *)
(* adoption that imported less than the node has.                                *)
NotSweptBeforeImport ==
    [][tpc = "sweep" /\ tpc' = "clear" /\ hurried = {} => waiting \cap (served \ served') = {}]_adoptionVars

(* An inbound the operator deleted on the master does not come back with a       *)
(* later snapshot while the node still serves it: the node stays dirty until the *)
(* sweep has reached it (ClearNodeDirty, setRemoteTrafficLocked). Two things do  *)
(* bring it back: without an adoption there is no sweep, and a deletion that      *)
(* commits (delInbound, inbound.go:1489, not on the writer) after the merge read  *)
(* config_dirty (inbound_node.go:485) and before it read the rows (503) finds a    *)
(* merge that takes the node for clean. Only the tags of that window are excused. *)
DeletedNotRevived ==
    [][tpc = "commit" /\ tpc' = "mark" => gone \cap (rows' \ rows) \subseteq overtaken]_adoptionVars

(* An inbound created on the master is not dropped by a merge before the node    *)
(* ever had it: its absence from a snapshot proves nothing.                      *)
CreatedNotDropped ==
    [][tpc = "commit" /\ tpc' = "mark" => promised \cap (rows \ rows') = {}]_adoptionVars
=============================================================================
