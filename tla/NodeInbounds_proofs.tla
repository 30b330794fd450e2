------------------------ MODULE NodeInbounds_proofs -------------------------
(* Proofs about the inbounds of a node and the clients they leave behind, for any    *)
(* tags, edits and troubles, any inbounds and any grace period: what NodeAdoption     *)
(* promises of the sweep and of the merge, and what SyncOrphans promises of the       *)
(* reaper.                                                                           *)
EXTENDS NodeAdoption, SyncOrphans, TLAPS

(* Nobody has edited the node on the master since the tick read its row.          *)
Same == tn.markedAt = markedAt

(* A later edit keeps the node dirty, and without one the row the tick read is the  *)
(* row there is. Only an adopted row lets it sweep, and a snapshot holds only tags    *)
(* it manages.                                                                       *)
TickInv ==
    /\ tpc # "idle" =>
         /\ tn.markedAt <= markedAt /\ (~Same => flag)
         /\ Same => tn.sel = selection /\ tn.adopted = adopted
    /\ tpc = "sweep" => tn.adopted
    /\ tpc \in {"sample", "merge"} => tsnap \subseteq Manages(tn.sel)

(* What waits for its import had no row yet; unless a shortcut was taken the node     *)
(* still has it, it is not managed by an adopted row, neither the one of the master    *)
(* nor the one a tick goes by, and it is in a snapshot that will count as an import.   *)
WaitInv ==
    /\ waiting \cap ever = {} /\ rows \subseteq ever /\ dels \subseteq ever /\ tcentral \subseteq ever
    /\ hurried = {} =>
         /\ waiting \subseteq served
         /\ adopted => waiting \cap Manages(selection) = {}
         /\ tpc # "idle" /\ tn.adopted => waiting \cap Manages(tn.sel) = {}
         /\ tpc = "sample" /\ Same => waiting \cap Manages(selection) \subseteq tsnap
         /\ tpc \in {"merge", "central", "commit"} /\ ~tsample /\ ~tn.adopted
              => waiting \cap Manages(selection) \subseteq tsnap
         /\ tpc = "mark" /\ ~tsample /\ ~tn.adopted => waiting \cap Manages(selection) = {}

(* A deleted inbound the node still has: only on an adopted master, and managed only  *)
(* while the node is dirty. A reconcile that may lower the flag has seen it on the     *)
(* node and not among the rows, so its sweep takes it. A merge that found the node     *)
(* clean reports one only if it was deleted after that: before the merge read the     *)
(* rows (overtaken), or after, and then it is among the rows it read.                 *)
GoneInv ==
    /\ gone \subseteq served /\ gone \cap rows = {}
    /\ gone # {} => adopted
    /\ ~flag => gone \cap Manages(selection) = {}
    /\ tpc \in {"list", "push", "sweep"} /\ Same => gone \cap tlist = {}
    /\ tpc \in {"push", "sweep"} /\ Same => gone \subseteq tremote
    /\ tpc = "clear" /\ tok /\ Same => gone \cap Manages(selection) = {}
    /\ tpc = "central" /\ ~tdirty => gone \cap tsnap \subseteq overtaken
    /\ tpc = "commit" => rows \subseteq tcentral
    /\ tpc = "commit" /\ ~tdirty => gone \cap (tsnap \ tcentral) \subseteq overtaken

(* An inbound the node has not got yet: only while the node is dirty. A reconcile      *)
(* that may lower the flag has it among the rows it pushes. None comes up while a      *)
(* merge that found the node clean has the writer.                                   *)
PromiseInv ==
    /\ promised \subseteq rows
    /\ ~flag => promised = {}
    /\ tpc \in {"list", "push"} /\ Same => promised \subseteq tlist
    /\ tpc \in {"sweep", "clear"} /\ tok /\ Same => promised = {}
    /\ tpc \in {"central", "commit"} /\ ~tdirty => promised = {}

AdoptionIInv == AdoptionTypeOK /\ TickInv /\ WaitInv /\ GoneInv /\ PromiseInv

LEMMA CalmOrTrouble == ASSUME AdoptionTypeOK, Calm \/ Trouble PROVE troubles' \in Nat
  BY DEF AdoptionTypeOK, Calm, Trouble

LEMMA ManagesTags == \A s \in {All} \cup SUBSET Tags : Manages(s) \subseteq Tags
  BY DEF Manages

(* Creating an inbound adds its tag to what is managed, a selection that did not grow *)
(* adds nothing.                                                                     *)
LEMMA ManagesMore ==
  ASSUME NEW s \in {All} \cup SUBSET Tags, NEW t \in Tags
  PROVE  LET r == IF s = All THEN All ELSE s \cup {t}
         IN  Manages(r) \subseteq Manages(s) \cup {t} /\ r \in {All} \cup SUBSET Tags
  BY AllAssumption DEF Manages

LEMMA ManagesLess ==
  ASSUME NEW s \in {All} \cup SUBSET Tags, NEW r \in {All} \cup SUBSET Tags, ~SelectionGrew(s, r)
  PROVE  Manages(r) \subseteq Manages(s)
  BY AllAssumption DEF Manages, SelectionGrew

LEMMA AdoptionInitial == AdoptionInit => AdoptionIInv
  <1> SUFFICES ASSUME AdoptionInit PROVE AdoptionIInv OBVIOUS
  <1>1. AdoptionTypeOK BY ManagesTags DEF AdoptionInit, AdoptionTypeOK, NoRow
  <1>2. TickInv BY DEF AdoptionInit, TickInv
  <1>3. WaitInv BY DEF AdoptionInit, WaitInv
  <1>4. GoneInv BY DEF AdoptionInit, GoneInv
  <1>5. PromiseInv BY DEF AdoptionInit, PromiseInv
  <1> QED BY <1>1, <1>2, <1>3, <1>4, <1>5 DEF AdoptionIInv

(* One step keeps the types, and each part of the invariant, action by action.        *)
LEMMA AdoptionTypeOKStep == ASSUME AdoptionIInv, [AdoptionNext]_adoptionVars PROVE AdoptionTypeOK'
  <1> USE DEF AdoptionIInv, rowVars, tickVars, mergeVars, storyVars, MergeForgets
  <1>1. CASE TickBegin BY <1>1 DEF TickBegin, AdoptionTypeOK
  <1>2. CASE ReconcileRows BY <1>2 DEF ReconcileRows, AdoptionTypeOK
  <1>3. CASE ListInboundOptions
    <2>1. tremote' \subseteq Tags /\ tok' \in BOOLEAN /\ tpc' \in {"push", "clear"}
      BY <1>3 DEF ListInboundOptions, AdoptionTypeOK
    <2>2. troubles' \in Nat BY <1>3, CalmOrTrouble DEF ListInboundOptions, AdoptionTypeOK
    <2> QED BY <1>3, <2>1, <2>2 DEF ListInboundOptions, AdoptionTypeOK
  <1>4. CASE ReconcilePush
    <2>1. PICK r \in SUBSET tlist : NodeHas(served \cup r) BY <1>4 DEF ReconcilePush
    <2>2. served' \subseteq Tags /\ gone' \subseteq Tags /\ promised' \subseteq Tags
      BY <2>1 DEF NodeHas, AdoptionTypeOK
    <2>3. tok' \in BOOLEAN /\ tpc' \in {"sweep", "clear"} BY <1>4 DEF ReconcilePush, AdoptionTypeOK
    <2>4. troubles' \in Nat BY <1>4, CalmOrTrouble DEF ReconcilePush, AdoptionTypeOK
    <2> QED BY <1>4, <2>2, <2>3, <2>4 DEF ReconcilePush, AdoptionTypeOK
  <1>5. CASE ReconcileSweep
    <2>1. PICK r \in SUBSET Undesired : NodeHas(served \ r) BY <1>5 DEF ReconcileSweep
    <2>2. served' \subseteq Tags /\ gone' \subseteq Tags /\ promised' \subseteq Tags
      BY <2>1 DEF NodeHas, AdoptionTypeOK
    <2>3. tok' \in BOOLEAN BY <1>5 DEF ReconcileSweep, AdoptionTypeOK
    <2>4. troubles' \in Nat BY <1>5, CalmOrTrouble DEF ReconcileSweep, AdoptionTypeOK
    <2> QED BY <1>5, <2>2, <2>3, <2>4 DEF ReconcileSweep, AdoptionTypeOK
  <1>6. CASE ReconcileEnds BY <1>6 DEF ReconcileEnds, ClearsMark, AdoptionTypeOK
  <1>7. CASE FetchTags
    <2>1. tsnap' \subseteq Tags /\ hurried' \subseteq {"grown", "edited", "empty", "unmade"}
      BY <1>7 DEF FetchTags, AdoptionTypeOK
    <2>2. troubles' \in Nat BY <1>7, CalmOrTrouble DEF FetchTags, AdoptionTypeOK
    <2> QED BY <1>7, <2>1, <2>2 DEF FetchTags, AdoptionTypeOK
  <1>8. CASE FetchTagsFails
    <2>1. troubles' \in Nat BY <1>8, CalmOrTrouble DEF FetchTagsFails
    <2>2. tn' \in [sel : {All} \cup SUBSET Tags, adopted : BOOLEAN, markedAt : Nat]
      BY <1>8 DEF FetchTagsFails, TickEnds, NoRow
    <2> QED BY <1>8, <2>1, <2>2 DEF FetchTagsFails, TickEnds, AdoptionTypeOK
  <1>9. CASE SampleFlag BY <1>9 DEF SampleFlag, AdoptionTypeOK
  <1>10. CASE MergeTags
    <2>1. rows' \subseteq Tags /\ hurried' \subseteq {"grown", "edited", "empty", "unmade"}
      BY <1>10 DEF MergeTags, AdoptionTypeOK
    <2>2. ever' \subseteq Tags /\ waiting' \subseteq Tags /\ gone' \subseteq Tags /\ promised' \subseteq Tags
      BY <1>10, <2>1 DEF MergeTags, AdoptionTypeOK
    <2>3. troubles' \in Nat BY <1>10, CalmOrTrouble DEF MergeTags
    <2> QED BY <1>10, <2>1, <2>2, <2>3 DEF MergeTags, AdoptionTypeOK
  <1>11. CASE MergeTagsFails
    <2>1. troubles' \in Nat BY <1>11, CalmOrTrouble DEF MergeTagsFails
    <2>2. tn' \in [sel : {All} \cup SUBSET Tags, adopted : BOOLEAN, markedAt : Nat]
      BY <1>11 DEF MergeTagsFails, TickEnds, NoRow
    <2> QED BY <1>11, <2>1, <2>2 DEF MergeTagsFails, TickEnds, AdoptionTypeOK
  <1>12. CASE MarkAdopted BY <1>12 DEF MarkAdopted, TickEnds, NoRow, AdoptionTypeOK
  <1>13. CASE EditInbound BY <1>13 DEF EditInbound, MarkDirty, AdoptionTypeOK
  <1>14. ASSUME NEW t \in Tags, CreateInbound(t) PROVE AdoptionTypeOK'
    BY <1>14, ManagesMore DEF CreateInbound, MarkDirty, AdoptionTypeOK
  <1>15. ASSUME NEW t \in Tags, DeleteInbound(t) PROVE AdoptionTypeOK'
    BY <1>15 DEF DeleteInbound, MarkDirty, AdoptionTypeOK
  <1>16. ASSUME NEW t \in Tags, PushDelete(t) PROVE AdoptionTypeOK'
    BY <1>16 DEF PushDelete, NodeHas, AdoptionTypeOK
  <1>17. ASSUME NEW t \in Tags, PushDeleteLost(t) PROVE AdoptionTypeOK'
    BY <1>17 DEF PushDeleteLost, AdoptionTypeOK
  <1>18. ASSUME NEW t \in Tags, NodeCreates(t) PROVE AdoptionTypeOK'
    BY <1>18 DEF NodeCreates, NodeHas, AdoptionTypeOK, Trouble, Calm
  <1>19. ASSUME NEW t \in Tags, NodeDeletes(t) PROVE AdoptionTypeOK'
    BY <1>19 DEF NodeDeletes, NodeHas, AdoptionTypeOK, Trouble, Calm
  <1>20. ASSUME NEW s \in {All} \cup SUBSET Tags, UpdateNode(s) PROVE AdoptionTypeOK'
    BY <1>20, ManagesLess, ManagesTags DEF UpdateNode, MarkDirty, AdoptedAfterUpdate, AdoptionTypeOK
  <1>21. CASE MergeReadsFlag BY <1>21 DEF MergeReadsFlag, DirtyAtMerge, AdoptionTypeOK
  <1>22. CASE MergeReadsRows BY <1>22 DEF MergeReadsRows, AdoptionTypeOK
  <1>23. CASE UNCHANGED adoptionVars BY <1>23 DEF adoptionVars, AdoptionTypeOK
  <1> QED
    BY <1>1, <1>2, <1>3, <1>4, <1>5, <1>6, <1>7, <1>8, <1>9, <1>10, <1>11, <1>12, <1>13, <1>14,
       <1>15, <1>16, <1>17, <1>18, <1>19, <1>20, <1>21, <1>22, <1>23
    DEF AdoptionNext, TickSteps, MasterSteps

LEMMA TickInvStep == ASSUME AdoptionIInv, [AdoptionNext]_adoptionVars PROVE TickInv'
  <1> USE DEF AdoptionIInv, rowVars, tickVars, mergeVars, storyVars, MergeForgets
  <1>1. CASE TickBegin BY <1>1 DEF TickBegin, TickInv, Same, AdoptionTypeOK
  <1>2. CASE ReconcileRows BY <1>2 DEF ReconcileRows, TickInv, Same, AdoptionTypeOK
  <1>3. CASE ListInboundOptions BY <1>3 DEF ListInboundOptions, TickInv, Same, AdoptionTypeOK
  <1>4. CASE ReconcilePush
    BY <1>4 DEF ReconcilePush, NodeHas, MaySweepNode, TickInv, Same, AdoptionTypeOK
  <1>5. CASE ReconcileSweep
    BY <1>5 DEF ReconcileSweep, NodeHas, Undesired, TickInv, Same, AdoptionTypeOK
  <1>6. CASE ReconcileEnds BY <1>6 DEF ReconcileEnds, ClearsMark, TickInv, Same, AdoptionTypeOK
  <1>7. CASE FetchTags BY <1>7 DEF FetchTags, TickInv, Same, AdoptionTypeOK
  <1>8. CASE FetchTagsFails
    BY <1>8 DEF FetchTagsFails, TickEnds, NoRow, TickInv, Same, AdoptionTypeOK
  <1>9. CASE SampleFlag BY <1>9 DEF SampleFlag, TickInv, Same, AdoptionTypeOK
  <1>10. CASE MergeTags
    BY <1>10 DEF MergeTags, NoLongerReported, TickInv, Same, AdoptionTypeOK
  <1>11. CASE MergeTagsFails
    BY <1>11 DEF MergeTagsFails, TickEnds, NoRow, TickInv, Same, AdoptionTypeOK
  <1>12. CASE MarkAdopted BY <1>12 DEF MarkAdopted, TickEnds, NoRow, TickInv, Same, AdoptionTypeOK
  <1>13. CASE EditInbound BY <1>13 DEF EditInbound, MarkDirty, TickInv, Same, AdoptionTypeOK
  <1>14. ASSUME NEW t \in Tags, CreateInbound(t) PROVE TickInv'
    BY <1>14, ManagesMore DEF CreateInbound, MarkDirty, TickInv, Same, AdoptionTypeOK
  <1>15. ASSUME NEW t \in Tags, DeleteInbound(t) PROVE TickInv'
    BY <1>15 DEF DeleteInbound, MarkDirty, TickInv, Same, AdoptionTypeOK
  <1>16. ASSUME NEW t \in Tags, PushDelete(t) PROVE TickInv'
    BY <1>16 DEF PushDelete, NodeHas, TickInv, Same, AdoptionTypeOK
  <1>17. ASSUME NEW t \in Tags, PushDeleteLost(t) PROVE TickInv'
    BY <1>17 DEF PushDeleteLost, TickInv, Same, AdoptionTypeOK
  <1>18. ASSUME NEW t \in Tags, NodeCreates(t) PROVE TickInv'
    BY <1>18 DEF NodeCreates, NodeHas, TickInv, Same, AdoptionTypeOK
  <1>19. ASSUME NEW t \in Tags, NodeDeletes(t) PROVE TickInv'
    BY <1>19 DEF NodeDeletes, NodeHas, TickInv, Same, AdoptionTypeOK
  <1>20. ASSUME NEW s \in {All} \cup SUBSET Tags, UpdateNode(s) PROVE TickInv'
    BY <1>20, ManagesLess DEF UpdateNode, MarkDirty, AdoptedAfterUpdate, TickInv, Same, AdoptionTypeOK
  <1>21. CASE MergeReadsFlag
    BY <1>21 DEF MergeReadsFlag, DirtyAtMerge, TickInv, Same, AdoptionTypeOK
  <1>22. CASE MergeReadsRows BY <1>22 DEF MergeReadsRows, TickInv, Same, AdoptionTypeOK
  <1>23. CASE UNCHANGED adoptionVars BY <1>23 DEF adoptionVars, TickInv, Same, AdoptionTypeOK
  <1> QED
    BY <1>1, <1>2, <1>3, <1>4, <1>5, <1>6, <1>7, <1>8, <1>9, <1>10, <1>11, <1>12, <1>13, <1>14,
       <1>15, <1>16, <1>17, <1>18, <1>19, <1>20, <1>21, <1>22, <1>23
    DEF AdoptionNext, TickSteps, MasterSteps

LEMMA WaitInvStep == ASSUME AdoptionIInv, [AdoptionNext]_adoptionVars PROVE WaitInv'
  <1> USE DEF AdoptionIInv, rowVars, tickVars, mergeVars, storyVars, MergeForgets
  <1>1. CASE TickBegin BY <1>1 DEF TickBegin, WaitInv, TickInv, Same, AdoptionTypeOK
  <1>2. CASE ReconcileRows BY <1>2 DEF ReconcileRows, WaitInv, TickInv, Same, AdoptionTypeOK
  <1>3. CASE ListInboundOptions
    BY <1>3 DEF ListInboundOptions, WaitInv, TickInv, Same, AdoptionTypeOK
  <1>4. CASE ReconcilePush
    BY <1>4 DEF ReconcilePush, NodeHas, MaySweepNode, WaitInv, TickInv, Same, AdoptionTypeOK
  <1>5. CASE ReconcileSweep
    BY <1>5 DEF ReconcileSweep, NodeHas, Undesired, WaitInv, TickInv, Same, AdoptionTypeOK
  <1>6. CASE ReconcileEnds
    BY <1>6 DEF ReconcileEnds, ClearsMark, WaitInv, TickInv, Same, AdoptionTypeOK
  <1>7. CASE FetchTags BY <1>7 DEF FetchTags, WaitInv, TickInv, Same, AdoptionTypeOK
  <1>8. CASE FetchTagsFails
    BY <1>8 DEF FetchTagsFails, TickEnds, NoRow, WaitInv, TickInv, Same, AdoptionTypeOK
  <1>9. CASE SampleFlag BY <1>9 DEF SampleFlag, WaitInv, TickInv, Same, AdoptionTypeOK
  <1>10. CASE MergeTags
    BY <1>10 DEF MergeTags, NoLongerReported, WaitInv, TickInv, Same, AdoptionTypeOK
  <1>11. CASE MergeTagsFails
    BY <1>11 DEF MergeTagsFails, TickEnds, NoRow, WaitInv, TickInv, Same, AdoptionTypeOK
  <1>12. CASE MarkAdopted
    BY <1>12 DEF MarkAdopted, TickEnds, NoRow, WaitInv, TickInv, Same, AdoptionTypeOK
  <1>13. CASE EditInbound
    BY <1>13 DEF EditInbound, MarkDirty, WaitInv, TickInv, Same, AdoptionTypeOK
  <1>14. ASSUME NEW t \in Tags, CreateInbound(t) PROVE WaitInv'
    <2>1. Manages(selection') \subseteq Manages(selection) \cup {t}
      BY <1>14, ManagesMore DEF CreateInbound, AdoptionTypeOK
    <2>2. waiting' = waiting \ {t} /\ ever' = ever \cup {t} /\ rows' = rows \cup {t}
      BY <1>14 DEF CreateInbound
    <2>3. UNCHANGED <<dels, served, adopted, tpc, tn, tsnap, tsample, tcentral, hurried>>
      BY <1>14 DEF CreateInbound
    <2>4. tpc = "sample" => ~Same'
      BY <1>14 DEF CreateInbound, MarkDirty, Same, TickInv, AdoptionTypeOK
    <2> QED BY <2>1, <2>2, <2>3, <2>4 DEF WaitInv
  <1>15. ASSUME NEW t \in Tags, DeleteInbound(t) PROVE WaitInv'
    BY <1>15 DEF DeleteInbound, MarkDirty, WaitInv, TickInv, Same, AdoptionTypeOK
  <1>16. ASSUME NEW t \in Tags, PushDelete(t) PROVE WaitInv'
    BY <1>16 DEF PushDelete, NodeHas, WaitInv, TickInv, Same, AdoptionTypeOK
  <1>17. ASSUME NEW t \in Tags, PushDeleteLost(t) PROVE WaitInv'
    BY <1>17 DEF PushDeleteLost, WaitInv, TickInv, Same, AdoptionTypeOK
  <1>18. ASSUME NEW t \in Tags, NodeCreates(t) PROVE WaitInv'
    BY <1>18 DEF NodeCreates, NodeHas, WaitInv, TickInv, Same, AdoptionTypeOK
  <1>19. ASSUME NEW t \in Tags, NodeDeletes(t) PROVE WaitInv'
    BY <1>19 DEF NodeDeletes, NodeHas, WaitInv, TickInv, Same, AdoptionTypeOK
  <1>20. ASSUME NEW s \in {All} \cup SUBSET Tags, UpdateNode(s) PROVE WaitInv'
    <2>0. /\ adopted' = (adopted /\ ~SelectionGrew(selection, s)) /\ selection' = s
          /\ waiting' = waiting \cup ((Manages(s) \cap served) \ (Manages(selection) \cup ever))
          /\ UNCHANGED <<rows, ever, dels, served, tpc, tn, tsnap, tsample, tcentral>>
          /\ hurried \subseteq hurried'
      BY <1>20 DEF UpdateNode, AdoptedAfterUpdate
    <2>1. tpc = "sample" => ~Same'
      BY <1>20 DEF UpdateNode, MarkDirty, Same, TickInv, AdoptionTypeOK
    <2>2. waiting' \cap ever' = {} /\ rows' \subseteq ever' /\ dels' \subseteq ever'
          /\ tcentral' \subseteq ever'
      BY <2>0 DEF WaitInv
    <2>3. CASE SelectionGrew(selection, s)
      <3>1. adopted' = FALSE BY <2>0, <2>3
      <3>2. hurried' = {} => tpc = "idle" \/ (~tn.adopted /\ tpc \notin {"merge", "central", "commit", "mark"})
        BY <1>20, <2>3 DEF UpdateNode
      <3>3. hurried' = {} => waiting' \subseteq served' BY <2>0 DEF WaitInv
      <3> QED BY <2>0, <2>1, <2>2, <3>1, <3>2, <3>3 DEF WaitInv
    <2>4. CASE ~SelectionGrew(selection, s)
      <3>1. Manages(s) \subseteq Manages(selection) BY <2>4, ManagesLess DEF AdoptionTypeOK
      <3>2. waiting' = waiting BY <2>0, <3>1
      <3> QED BY <2>0, <2>1, <3>1, <3>2 DEF WaitInv
    <2> QED BY <2>3, <2>4
  <1>21. CASE MergeReadsFlag
    BY <1>21 DEF MergeReadsFlag, DirtyAtMerge, WaitInv, TickInv, Same, AdoptionTypeOK
  <1>22. CASE MergeReadsRows BY <1>22 DEF MergeReadsRows, WaitInv, TickInv, Same, AdoptionTypeOK
  <1>23. CASE UNCHANGED adoptionVars BY <1>23 DEF adoptionVars, WaitInv, TickInv, Same, AdoptionTypeOK
  <1> QED
    BY <1>1, <1>2, <1>3, <1>4, <1>5, <1>6, <1>7, <1>8, <1>9, <1>10, <1>11, <1>12, <1>13, <1>14,
       <1>15, <1>16, <1>17, <1>18, <1>19, <1>20, <1>21, <1>22, <1>23
    DEF AdoptionNext, TickSteps, MasterSteps

LEMMA GoneInvStep == ASSUME AdoptionIInv, [AdoptionNext]_adoptionVars PROVE GoneInv'
  <1> USE DEF AdoptionIInv, rowVars, tickVars, mergeVars, storyVars, MergeForgets
  <1>1. CASE TickBegin BY <1>1 DEF TickBegin, GoneInv, TickInv, Same, AdoptionTypeOK
  <1>2. CASE ReconcileRows BY <1>2 DEF ReconcileRows, GoneInv, TickInv, Same, AdoptionTypeOK
  <1>3. CASE ListInboundOptions
    BY <1>3 DEF ListInboundOptions, GoneInv, TickInv, Same, AdoptionTypeOK
  <1>4. CASE ReconcilePush
    BY <1>4 DEF ReconcilePush, NodeHas, MaySweepNode, GoneInv, TickInv, Same, AdoptionTypeOK
  <1>5. CASE ReconcileSweep
    BY <1>5 DEF ReconcileSweep, NodeHas, Undesired, GoneInv, TickInv, Same, AdoptionTypeOK
  <1>6. CASE ReconcileEnds
    BY <1>6 DEF ReconcileEnds, ClearsMark, GoneInv, TickInv, Same, AdoptionTypeOK
  <1>7. CASE FetchTags BY <1>7 DEF FetchTags, GoneInv, TickInv, Same, AdoptionTypeOK
  <1>8. CASE FetchTagsFails
    BY <1>8 DEF FetchTagsFails, TickEnds, NoRow, GoneInv, TickInv, Same, AdoptionTypeOK
  <1>9. CASE SampleFlag BY <1>9 DEF SampleFlag, GoneInv, TickInv, Same, AdoptionTypeOK
  <1>10. CASE MergeTags
    BY <1>10 DEF MergeTags, NoLongerReported, GoneInv, TickInv, Same, AdoptionTypeOK
  <1>11. CASE MergeTagsFails
    BY <1>11 DEF MergeTagsFails, TickEnds, NoRow, GoneInv, TickInv, Same, AdoptionTypeOK
  <1>12. CASE MarkAdopted
    BY <1>12 DEF MarkAdopted, TickEnds, NoRow, GoneInv, TickInv, Same, AdoptionTypeOK
  <1>13. CASE EditInbound
    BY <1>13 DEF EditInbound, MarkDirty, GoneInv, TickInv, Same, AdoptionTypeOK
  <1>14. ASSUME NEW t \in Tags, CreateInbound(t) PROVE GoneInv'
    BY <1>14, ManagesMore DEF CreateInbound, MarkDirty, GoneInv, TickInv, Same, AdoptionTypeOK
  <1>15. ASSUME NEW t \in Tags, DeleteInbound(t) PROVE GoneInv'
    BY <1>15 DEF DeleteInbound, MarkDirty, GoneInv, TickInv, Same, AdoptionTypeOK
  <1>16. ASSUME NEW t \in Tags, PushDelete(t) PROVE GoneInv'
    BY <1>16 DEF PushDelete, NodeHas, GoneInv, TickInv, Same, AdoptionTypeOK
  <1>17. ASSUME NEW t \in Tags, PushDeleteLost(t) PROVE GoneInv'
    BY <1>17 DEF PushDeleteLost, GoneInv, TickInv, Same, AdoptionTypeOK
  <1>18. ASSUME NEW t \in Tags, NodeCreates(t) PROVE GoneInv'
    BY <1>18 DEF NodeCreates, NodeHas, GoneInv, TickInv, Same, AdoptionTypeOK
  <1>19. ASSUME NEW t \in Tags, NodeDeletes(t) PROVE GoneInv'
    BY <1>19 DEF NodeDeletes, NodeHas, GoneInv, TickInv, Same, AdoptionTypeOK
  <1>20. ASSUME NEW s \in {All} \cup SUBSET Tags, UpdateNode(s) PROVE GoneInv'
    BY <1>20, ManagesLess DEF UpdateNode, MarkDirty, AdoptedAfterUpdate, GoneInv, TickInv, Same, AdoptionTypeOK
  <1>21. CASE MergeReadsFlag
    BY <1>21 DEF MergeReadsFlag, DirtyAtMerge, GoneInv, TickInv, Same, AdoptionTypeOK
  <1>22. CASE MergeReadsRows BY <1>22 DEF MergeReadsRows, GoneInv, TickInv, Same, AdoptionTypeOK
  <1>23. CASE UNCHANGED adoptionVars BY <1>23 DEF adoptionVars, GoneInv, TickInv, Same, AdoptionTypeOK
  <1> QED
    BY <1>1, <1>2, <1>3, <1>4, <1>5, <1>6, <1>7, <1>8, <1>9, <1>10, <1>11, <1>12, <1>13, <1>14,
       <1>15, <1>16, <1>17, <1>18, <1>19, <1>20, <1>21, <1>22, <1>23
    DEF AdoptionNext, TickSteps, MasterSteps

LEMMA PromiseInvStep == ASSUME AdoptionIInv, [AdoptionNext]_adoptionVars PROVE PromiseInv'
  <1> USE DEF AdoptionIInv, rowVars, tickVars, mergeVars, storyVars, MergeForgets
  <1>1. CASE TickBegin BY <1>1 DEF TickBegin, PromiseInv, TickInv, Same, AdoptionTypeOK
  <1>2. CASE ReconcileRows BY <1>2 DEF ReconcileRows, PromiseInv, TickInv, Same, AdoptionTypeOK
  <1>3. CASE ListInboundOptions
    BY <1>3 DEF ListInboundOptions, PromiseInv, TickInv, Same, AdoptionTypeOK
  <1>4. CASE ReconcilePush
    BY <1>4 DEF ReconcilePush, NodeHas, MaySweepNode, PromiseInv, TickInv, Same, AdoptionTypeOK
  <1>5. CASE ReconcileSweep
    BY <1>5 DEF ReconcileSweep, NodeHas, Undesired, PromiseInv, TickInv, Same, AdoptionTypeOK
  <1>6. CASE ReconcileEnds
    BY <1>6 DEF ReconcileEnds, ClearsMark, PromiseInv, TickInv, Same, AdoptionTypeOK
  <1>7. CASE FetchTags BY <1>7 DEF FetchTags, PromiseInv, TickInv, Same, AdoptionTypeOK
  <1>8. CASE FetchTagsFails
    BY <1>8 DEF FetchTagsFails, TickEnds, NoRow, PromiseInv, TickInv, Same, AdoptionTypeOK
  <1>9. CASE SampleFlag BY <1>9 DEF SampleFlag, PromiseInv, TickInv, Same, AdoptionTypeOK
  <1>10. CASE MergeTags
    BY <1>10 DEF MergeTags, NoLongerReported, PromiseInv, TickInv, Same, AdoptionTypeOK
  <1>11. CASE MergeTagsFails
    BY <1>11 DEF MergeTagsFails, TickEnds, NoRow, PromiseInv, TickInv, Same, AdoptionTypeOK
  <1>12. CASE MarkAdopted
    BY <1>12 DEF MarkAdopted, TickEnds, NoRow, PromiseInv, TickInv, Same, AdoptionTypeOK
  <1>13. CASE EditInbound
    BY <1>13 DEF EditInbound, MarkDirty, PromiseInv, TickInv, Same, AdoptionTypeOK
  <1>14. ASSUME NEW t \in Tags, CreateInbound(t) PROVE PromiseInv'
    BY <1>14 DEF CreateInbound, MarkDirty, PromiseInv, TickInv, Same, AdoptionTypeOK
  <1>15. ASSUME NEW t \in Tags, DeleteInbound(t) PROVE PromiseInv'
    BY <1>15 DEF DeleteInbound, MarkDirty, PromiseInv, TickInv, Same, AdoptionTypeOK
  <1>16. ASSUME NEW t \in Tags, PushDelete(t) PROVE PromiseInv'
    BY <1>16 DEF PushDelete, NodeHas, PromiseInv, TickInv, Same, AdoptionTypeOK
  <1>17. ASSUME NEW t \in Tags, PushDeleteLost(t) PROVE PromiseInv'
    BY <1>17 DEF PushDeleteLost, PromiseInv, TickInv, Same, AdoptionTypeOK
  <1>18. ASSUME NEW t \in Tags, NodeCreates(t) PROVE PromiseInv'
    BY <1>18 DEF NodeCreates, NodeHas, PromiseInv, TickInv, Same, AdoptionTypeOK
  <1>19. ASSUME NEW t \in Tags, NodeDeletes(t) PROVE PromiseInv'
    BY <1>19 DEF NodeDeletes, NodeHas, PromiseInv, TickInv, Same, AdoptionTypeOK
  <1>20. ASSUME NEW s \in {All} \cup SUBSET Tags, UpdateNode(s) PROVE PromiseInv'
    BY <1>20, ManagesLess DEF UpdateNode, MarkDirty, AdoptedAfterUpdate, PromiseInv, TickInv, Same, AdoptionTypeOK
  <1>21. CASE MergeReadsFlag
    BY <1>21 DEF MergeReadsFlag, DirtyAtMerge, PromiseInv, TickInv, Same, AdoptionTypeOK
  <1>22. CASE MergeReadsRows BY <1>22 DEF MergeReadsRows, PromiseInv, TickInv, Same, AdoptionTypeOK
  <1>23. CASE UNCHANGED adoptionVars BY <1>23 DEF adoptionVars, PromiseInv, TickInv, Same, AdoptionTypeOK
  <1> QED
    BY <1>1, <1>2, <1>3, <1>4, <1>5, <1>6, <1>7, <1>8, <1>9, <1>10, <1>11, <1>12, <1>13, <1>14,
       <1>15, <1>16, <1>17, <1>18, <1>19, <1>20, <1>21, <1>22, <1>23
    DEF AdoptionNext, TickSteps, MasterSteps

(* The invariant of the adoption of a node's inbounds.                             *)
THEOREM AdoptionInvariant == AdoptionSpec => []AdoptionIInv
  <1>1. AdoptionIInv /\ [AdoptionNext]_adoptionVars => AdoptionIInv'
    BY AdoptionTypeOKStep, TickInvStep, WaitInvStep, GoneInvStep, PromiseInvStep DEF AdoptionIInv
  <1> QED BY <1>1, AdoptionInitial, PTL DEF AdoptionSpec

(* Only ReconcileSweep leaves the sweep, only MergeTags commits a merge.             *)
LEMMA StepOfTheTick ==
  ASSUME [AdoptionNext]_adoptionVars
  PROVE  /\ tpc = "sweep" /\ tpc' = "clear" => ReconcileSweep
         /\ tpc = "commit" /\ tpc' = "mark" => MergeTags
  <1> USE DEF tickVars
  <1>1. CASE TickSteps
    <2>1. (MergeTags => tpc = "commit") /\ (ReconcileSweep => tpc = "sweep")
      BY DEF MergeTags, ReconcileSweep
    <2>2. CASE TickBegin \/ ReconcileRows \/ ListInboundOptions \/ ReconcilePush \/ ReconcileEnds
               \/ FetchTags \/ FetchTagsFails \/ SampleFlag \/ MergeReadsFlag \/ MergeReadsRows
               \/ MergeTagsFails \/ MarkAdopted
      <3>1. tpc = "sweep" \/ tpc = "commit" => tpc' \notin {"clear", "mark"}
        BY <2>2 DEF TickBegin, ReconcileRows, ListInboundOptions, ReconcilePush, ReconcileEnds,
                    FetchTags, FetchTagsFails, SampleFlag, MergeReadsFlag, MergeReadsRows,
                    MergeTagsFails, MarkAdopted, TickEnds
      <3> QED BY <3>1
    <2> QED BY <1>1, <2>1, <2>2 DEF TickSteps
  <1>2. CASE MasterSteps \/ (\E t \in Tags : NodeCreates(t) \/ NodeDeletes(t)) \/ UNCHANGED adoptionVars
    <2>1. tpc' = tpc
      BY <1>2 DEF MasterSteps, EditInbound, CreateInbound, DeleteInbound, PushDelete, PushDeleteLost,
                  UpdateNode, NodeCreates, NodeDeletes, adoptionVars
    <2> QED BY <2>1
  <1> QED BY <1>1, <1>2 DEF AdoptionNext

(* Onboarding does not wipe a node: until the first import, or after one of the named *)
(* shortcuts, nothing the node had when it came under management is swept             *)
(* (ReconcileNode, inbound_node.go:180).                                              *)
THEOREM NotSweptTheorem == AdoptionSpec => NotSweptBeforeImport
  <1>1. AdoptionIInv /\ [AdoptionNext]_adoptionVars =>
          [tpc = "sweep" /\ tpc' = "clear" /\ hurried = {} => waiting \cap (served \ served') = {}]_adoptionVars
    <2> SUFFICES ASSUME AdoptionIInv, [AdoptionNext]_adoptionVars,
                        tpc = "sweep", tpc' = "clear", hurried = {}
                 PROVE  waiting \cap (served \ served') = {}
      OBVIOUS
    <2>1. served \ served' \subseteq Undesired
      BY StepOfTheTick DEF ReconcileSweep, NodeHas
    <2>2. waiting \cap Manages(tn.sel) = {} BY DEF AdoptionIInv, TickInv, WaitInv
    <2> QED BY <2>1, <2>2 DEF Undesired
  <1> QED BY <1>1, AdoptionInvariant, PTL DEF AdoptionSpec, NotSweptBeforeImport

(* What the operator deleted on an adopted master does not come back with a snapshot   *)
(* while the node still serves it, whatever the deletion meets of a tick, but for one   *)
(* window: committed between a merge's read of config_dirty and its read of the rows   *)
(* it does (setRemoteTrafficLocked, delInbound, ClearNodeDirty).                       *)
THEOREM NotRevivedTheorem == AdoptionSpec => DeletedNotRevived
  <1>1. AdoptionIInv /\ [AdoptionNext]_adoptionVars =>
          [tpc = "commit" /\ tpc' = "mark" => gone \cap (rows' \ rows) \subseteq overtaken]_adoptionVars
    <2> SUFFICES ASSUME AdoptionIInv, [AdoptionNext]_adoptionVars, tpc = "commit", tpc' = "mark"
                 PROVE  gone \cap (rows' \ rows) \subseteq overtaken
      OBVIOUS
    <2>1. rows' \ rows \subseteq IF tdirty THEN {} ELSE tsnap \ tcentral
      BY StepOfTheTick DEF MergeTags
    <2>2. ~tdirty => gone \cap (tsnap \ tcentral) \subseteq overtaken BY DEF AdoptionIInv, GoneInv
    <2> QED BY <2>1, <2>2
  <1> QED BY <1>1, AdoptionInvariant, PTL DEF AdoptionSpec, DeletedNotRevived

(* What was created on the master is not dropped by a merge before the node ever had it *)
(* (setRemoteTrafficLocked, ClearNodeDirty).                                           *)
THEOREM NotDroppedTheorem == AdoptionSpec => CreatedNotDropped
  <1>1. AdoptionIInv /\ [AdoptionNext]_adoptionVars =>
          [tpc = "commit" /\ tpc' = "mark" => promised \cap (rows \ rows') = {}]_adoptionVars
    <2> SUFFICES ASSUME AdoptionIInv, [AdoptionNext]_adoptionVars, tpc = "commit", tpc' = "mark"
                 PROVE  promised \cap (rows \ rows') = {}
      OBVIOUS
    <2>1. tdirty => rows' = rows BY StepOfTheTick DEF MergeTags
    <2>2. ~tdirty => promised = {} BY DEF AdoptionIInv, PromiseInv
    <2> QED BY <2>1, <2>2
  <1> QED BY <1>1, AdoptionInvariant, PTL DEF AdoptionSpec, CreatedNotDropped

-----------------------------------------------------------------------------
(* While a client carries the mark and was not attached by hand since, it has had  *)
(* no inbound for at least the age of the mark.                                   *)
MarkInv ==
    /\ unseen => marked
    /\ marked /\ ~unseen => links = {} /\ age <= missing

(* What the reaper read stays true of the client, or it was attached since.        *)
ReaperInv ==
    reaper /\ record => late \/ (links = {} /\ (unseen \/ missing = Grace))

GhostTypes == unseen \in BOOLEAN /\ late \in BOOLEAN

OrphanIInv == OrphansTypeOK /\ GhostTypes /\ MarkInv /\ ReaperInv

(* The initial states satisfy the invariant.                                       *)
LEMMA OrphanInitial == OrphansInit => OrphanIInv
<1> SUFFICES ASSUME OrphansInit PROVE OrphanIInv
    OBVIOUS
<1>1. 0 \in 0..Grace
    BY GraceAssumption
<1>2. OrphansTypeOK
    BY <1>1, Zenon DEF OrphansInit, OrphansTypeOK
<1>3. GhostTypes /\ MarkInv /\ ReaperInv
    BY Zenon DEF OrphansInit, GhostTypes, MarkInv, ReaperInv
<1>4. QED
    BY <1>2, <1>3 DEF OrphanIInv

(* What Becomes does to a client that exists afterwards: a mark that survives has   *)
(* its age, and a mark is new only on a client that has no inbound.                *)
LEMMA BecomesKeeps ==
    ASSUME NEW l \in SUBSET Inbounds, NEW mark \in BOOLEAN, NEW hand \in BOOLEAN,
           OrphanIInv, Becomes(l, mark, hand), UNCHANGED reaper, record' \in BOOLEAN,
           ~record' => l = {} /\ ~mark,
           record' /\ ~record => l # {},
           mark /\ l # {} => marked /\ hand,
           marked /\ links = {} /\ l = {} /\ record' => mark
    PROVE  OrphanIInv'
<1>1. OrphansTypeOK'
    BY GraceAssumption DEF OrphanIInv, OrphansTypeOK, Becomes
<1>2. GhostTypes'
    BY DEF OrphanIInv, GhostTypes, OrphansTypeOK, Becomes
<1>3. MarkInv'
    BY GraceAssumption DEF OrphanIInv, OrphansTypeOK, GhostTypes, MarkInv, Becomes
<1>4. ReaperInv'
    BY GraceAssumption DEF OrphanIInv, OrphansTypeOK, GhostTypes, MarkInv, ReaperInv, Becomes
<1>5. QED
    BY <1>1, <1>2, <1>3, <1>4 DEF OrphanIInv

(* Every step keeps the invariant.                                                 *)
LEMMA OrphanStep == OrphanIInv /\ [OrphansNext]_orphanVars => OrphanIInv'
<1> SUFFICES ASSUME OrphanIInv, [OrphansNext]_orphanVars
             PROVE  OrphanIInv'
    OBVIOUS
<1> USE GraceAssumption
<1>1. CASE TimePassesBy
    BY <1>1 DEF TimePassesBy, OrphanIInv, OrphansTypeOK, GhostTypes, MarkInv, ReaperInv
<1>2. CASE MergeDirty
    <2>1. links \in SUBSET Inbounds /\ MarkAfter(FALSE, links) \in BOOLEAN
        BY DEF OrphanIInv, OrphansTypeOK, MarkAfter
    <2>2. QED
        BY <1>2, <2>1, BecomesKeeps DEF MergeDirty, MarkAfter, OrphanIInv, OrphansTypeOK
<1>3. ASSUME NEW snapshot \in SUBSET Inbounds, NEW reports \in SUBSET Inbounds,
             NEW failed \in SUBSET Inbounds, MergeSnapshot(snapshot, reports, failed)
      PROVE  OrphanIInv'
    <2> DEFINE synced == snapshot \ failed
               l == (links \ synced) \cup (reports \cap synced)
               mark == MarkAfter(record /\ links \cap synced # {}, l)
    <2>1. l \in SUBSET Inbounds /\ mark \in BOOLEAN
        BY DEF OrphanIInv, OrphansTypeOK, MarkAfter
    <2>2. Becomes(l, mark, FALSE) /\ UNCHANGED reaper /\ record' = (record \/ l # {})
        BY <1>3 DEF MergeSnapshot
    <2>3. /\ record' \in BOOLEAN
          /\ ~record' => l = {} /\ ~mark
          /\ record' /\ ~record => l # {}
          /\ mark /\ l # {} => marked
          /\ ~(mark /\ l # {})
          /\ marked /\ links = {} /\ l = {} /\ record' => mark
        BY <2>2 DEF OrphanIInv, OrphansTypeOK, MarkAfter
    <2> HIDE DEF synced, l, mark
    <2>4. QED
        BY <2>1, <2>2, <2>3, BecomesKeeps
<1>4. ASSUME NEW i \in Inbounds, Attach(i)
      PROVE  OrphanIInv'
    <2>1. links \cup {i} \in SUBSET Inbounds /\ marked \in BOOLEAN
        BY DEF OrphanIInv, OrphansTypeOK
    <2>2. QED
        BY <1>4, <2>1, BecomesKeeps DEF Attach, OrphanIInv, OrphansTypeOK
<1>5. ASSUME NEW i \in Inbounds, Detach(i)
      PROVE  OrphanIInv'
    <2>1. links \ {i} \in SUBSET Inbounds /\ marked \in BOOLEAN
        BY DEF OrphanIInv, OrphansTypeOK
    <2>2. QED
        BY <1>5, <2>1, BecomesKeeps DEF Detach, OrphanIInv, OrphansTypeOK
<1>6. ASSUME NEW i \in Inbounds, CreateClient(i)
      PROVE  OrphanIInv'
    <2>1. {i} \in SUBSET Inbounds
        OBVIOUS
    <2>2. QED
        BY <1>6, <2>1, BecomesKeeps DEF CreateClient
<1>7. CASE DeleteClient
    BY <1>7, BecomesKeeps DEF DeleteClient
<1>8. CASE ReapReads
    BY <1>8 DEF ReapReads, OrphanIInv, OrphansTypeOK, GhostTypes, MarkInv, ReaperInv
<1>9. CASE ReapDeletes
    <2>1. 0 \in 0..Grace
        OBVIOUS
    <2>2. OrphansTypeOK'
        BY <1>9, <2>1, Zenon DEF ReapDeletes, OrphansTypeOK
    <2>3. GhostTypes' /\ MarkInv' /\ ReaperInv'
        BY <1>9, Zenon DEF ReapDeletes, GhostTypes, MarkInv, ReaperInv
    <2>4. QED
        BY <2>2, <2>3 DEF OrphanIInv
<1>10. CASE ReapFails
    BY <1>10 DEF ReapFails, OrphanIInv, OrphansTypeOK, GhostTypes, MarkInv, ReaperInv
<1>11. CASE UNCHANGED orphanVars
    BY <1>11 DEF orphanVars, OrphanIInv, OrphansTypeOK, GhostTypes, MarkInv, ReaperInv
<1>12. QED
    BY <1>1, <1>2, <1>3, <1>4, <1>5, <1>6, <1>7, <1>8, <1>9, <1>10, <1>11 DEF OrphansNext

(* The mark and the client it is for keep their types and the invariant above.      *)
THEOREM OrphanInvariance == OrphansSpec => []OrphanIInv
<1>1. QED
    BY OrphanInitial, OrphanStep, PTL DEF OrphansSpec

(* Whatever merges, operator edits and failures come between the mark and the        *)
(* deletion, ReapSyncOrphans deletes only a client that was without an inbound for   *)
(* the whole grace period, or one of the two exceptions ReapedWasLost names.        *)
THEOREM ReaperTheorem == OrphansSpec => ReapedWasLost
<1>1. OrphanIInv /\ [OrphansNext]_orphanVars =>
          [reaper /\ ~reaper' /\ record /\ ~record' =>
              unseen \/ late \/ (links = {} /\ missing = Grace)]_orphanVars
    BY DEF OrphanIInv, ReaperInv
<1>2. QED
    BY <1>1, OrphanInvariance, PTL DEF OrphansSpec, ReapedWasLost
=============================================================================
