-------------------------- MODULE NodeSync_proofs --------------------------
(***************************************************************************)
(* Proofs about NodeSync for any set of clients and any number of edits,   *)
(* restarts and lost answers.  MasterIntact and CleanMeansEqual need each  *)
(* other and three facts the code only implies: what the edit in flight    *)
(* still owes (EditInv), what a fingerprint equal to the current payload   *)
(* proves (FingerprintInv), and what the tick has in hand (JobInv).        *)
(***************************************************************************)
EXTENDS NodeSync, TLAPS

\* The edit holds the row it read until it commits, and its change until it ends.
EditInv ==
    /\ edit.pc # "idle" => edit.op \in {"add", "delete"}
    /\ edit.pc = "commit" => edit.base = m /\ edit.new = Apply(edit.op, edit.client, m)
    /\ edit.pc \in {"push", "advance"} =>
          edit.new = m /\ m = Apply(edit.op, edit.client, edit.base)

\* A fingerprint of the current payload is true; one of the payload just edited
\* was true before the edit's own push, or a reconcile has overtaken it.
FingerprintInv ==
    /\ fp = {m} => n = m
    /\ edit.pc = "push" /\ fp = {edit.base} => n \in {edit.base, m}
    /\ edit.pc = "advance" /\ fp = {edit.base} => n = m

\* What a tick has read is current, or a newer mark stops it from being used.
JobInv ==
    /\ job.pc \in {"check", "send", "record"} => job.want = m
    /\ job.pc = "record" => n = m
    /\ job.pc = "clear" /\ stamp = job.dirtyAt => n = m
    /\ job.pc \in {"sample", "merge"} /\ ~dirty => job.snap = m

\* Nothing has been excused yet.
Sound ==
    /\ m = want
    /\ ~dirty => n = m
    /\ EditInv
    /\ FingerprintInv
    /\ JobInv

StampInv == job.dirtyAt <= stamp /\ (edit.pc = "commit" => stamp < MaxEdits)

IInv == TypeOK /\ StampInv /\ (excuses = {} => Sound)

-----------------------------------------------------------------------------
(***************************************************************************)
(* An edit already in a payload changes nothing when it is applied again:  *)
(* the late push of an edit that a reconcile has carried to the node.      *)
(***************************************************************************)

\* AddClient and DeleteClient on a node that has the edited payload.
LEMMA ApplyTwice ==
    ASSUME NEW op, NEW cs, NEW s
    PROVE  Apply(op, cs, Apply(op, cs, s)) = Apply(op, cs, s)
  BY DEF Apply

\* An edit of a set of clients gives a set of clients.
LEMMA ApplyType ==
    ASSUME NEW op, NEW cs \in Sets, NEW s \in Sets PROVE Apply(op, cs, s) \in Sets
  BY DEF Apply, Sets

-----------------------------------------------------------------------------
(***************************************************************************)
(* Every step keeps IInv.                                                  *)
(***************************************************************************)

\* The edit reads its row (AddInboundClient, DelInboundClientByEmail).
LEMMA EditReadKeeps ==
    ASSUME IInv, NEW op \in {"add", "delete"}, NEW c \in Clients, EditRead(op, c) PROVE IInv'
  <1> USE BoundsAssumption DEF IInv, EditRead, NoEdit, master, ghosts
  <1>1. TypeOK' BY ApplyType DEF TypeOK, Sets, StampInv
  <1>2. StampInv' BY DEF StampInv, TypeOK
  <1>3. ASSUME excuses' = {} PROVE Sound'
    <2>0. Sound BY <1>3
    <2>1. (m = want)' BY <1>3, <2>0 DEF Sound, TypeOK, EditInv, JobInv
    <2>2. (~dirty => n = m)' BY <1>3, <2>0, ApplyTwice DEF Sound, TypeOK, EditInv, JobInv, StampInv
    <2>3. EditInv' BY <1>3, <2>0 DEF Sound, TypeOK, EditInv, JobInv
    <2>4. FingerprintInv' BY <1>3, <2>0, ApplyTwice DEF Sound, TypeOK, FingerprintInv, EditInv, JobInv
    <2>5. JobInv' BY <1>3, <2>0, ApplyTwice DEF Sound, TypeOK, JobInv, StampInv, EditInv, FingerprintInv
    <2> QED BY <2>1, <2>2, <2>3, <2>4, <2>5 DEF Sound
  <1> QED BY <1>1, <1>2, <1>3

\* runSerializedTx commits and MarkNodeDirtyTx marks, unless the edit is excused.
LEMMA EditCommitKeeps ==
    ASSUME IInv, EditCommit PROVE IInv'
  <1> USE BoundsAssumption DEF IInv, EditCommit, Met, master, ghosts
  <1>1. TypeOK' BY ApplyType DEF TypeOK, Sets, StampInv
  <1>2. StampInv' BY DEF StampInv, TypeOK
  <1>3. ASSUME excuses' = {} PROVE Sound'
    <2>0. Sound BY <1>3
    <2>1. (m = want)' BY <1>3, <2>0 DEF Sound, TypeOK, EditInv, JobInv
    <2>2. (~dirty => n = m)' BY <1>3, <2>0, ApplyTwice DEF Sound, TypeOK, EditInv, JobInv, StampInv
    <2>3. EditInv' BY <1>3, <2>0 DEF Sound, TypeOK, EditInv, JobInv
    <2>4. FingerprintInv' BY <1>3, <2>0, ApplyTwice DEF Sound, TypeOK, FingerprintInv, EditInv, JobInv
    <2>5. JobInv' BY <1>3, <2>0, ApplyTwice DEF Sound, TypeOK, JobInv, StampInv, EditInv, FingerprintInv
    <2> QED BY <2>1, <2>2, <2>3, <2>4, <2>5 DEF Sound
  <1> QED BY <1>1, <1>2, <1>3

\* runSerializedTx fails: nothing has changed.
LEMMA EditRollbackKeeps ==
    ASSUME IInv, EditRollback PROVE IInv'
  <1> USE BoundsAssumption DEF IInv, EditRollback, NoEdit, master, ghosts
  <1>1. TypeOK' BY ApplyType DEF TypeOK, Sets, StampInv
  <1>2. StampInv' BY DEF StampInv, TypeOK
  <1>3. ASSUME excuses' = {} PROVE Sound'
    <2>0. Sound BY <1>3
    <2>1. (m = want)' BY <1>3, <2>0 DEF Sound, TypeOK, EditInv, JobInv
    <2>2. (~dirty => n = m)' BY <1>3, <2>0, ApplyTwice DEF Sound, TypeOK, EditInv, JobInv, StampInv
    <2>3. EditInv' BY <1>3, <2>0 DEF Sound, TypeOK, EditInv, JobInv
    <2>4. FingerprintInv' BY <1>3, <2>0, ApplyTwice DEF Sound, TypeOK, FingerprintInv, EditInv, JobInv
    <2>5. JobInv' BY <1>3, <2>0, ApplyTwice DEF Sound, TypeOK, JobInv, StampInv, EditInv, FingerprintInv
    <2> QED BY <2>1, <2>2, <2>3, <2>4, <2>5 DEF Sound
  <1> QED BY <1>1, <1>2, <1>3

\* The node executes AddClient or DeleteClient.
LEMMA EditPushKeeps ==
    ASSUME IInv, EditPush PROVE IInv'
  <1> USE BoundsAssumption DEF IInv, EditPush, master, ghosts
  <1>1. TypeOK' BY ApplyType DEF TypeOK, Sets, StampInv
  <1>2. StampInv' BY DEF StampInv, TypeOK
  <1>3. ASSUME excuses' = {} PROVE Sound'
    <2>0. Sound BY <1>3
    <2>1. (m = want)' BY <1>3, <2>0 DEF Sound, TypeOK, EditInv, JobInv
    <2>2. (~dirty => n = m)' BY <1>3, <2>0, ApplyTwice DEF Sound, TypeOK, EditInv, JobInv, StampInv
    <2>3. EditInv' BY <1>3, <2>0 DEF Sound, TypeOK, EditInv, JobInv
    <2>4. FingerprintInv' BY <1>3, <2>0, ApplyTwice DEF Sound, TypeOK, FingerprintInv, EditInv, JobInv
    <2>5. JobInv' BY <1>3, <2>0, ApplyTwice DEF Sound, TypeOK, JobInv, StampInv, EditInv, FingerprintInv
    <2> QED BY <2>1, <2>2, <2>3, <2>4, <2>5 DEF Sound
  <1> QED BY <1>1, <1>2, <1>3

\* The push fails and the node is left to the reconcile.
LEMMA EditPushFailsKeeps ==
    ASSUME IInv, EditPushFails PROVE IInv'
  <1> USE BoundsAssumption DEF IInv, EditPushFails, EndEdit, NoEdit, master, ghosts
  <1>1. TypeOK' BY ApplyType DEF TypeOK, Sets, StampInv
  <1>2. StampInv' BY DEF StampInv, TypeOK
  <1>3. ASSUME excuses' = {} PROVE Sound'
    <2>0. Sound BY <1>3
    <2>1. (m = want)' BY <1>3, <2>0 DEF Sound, TypeOK, EditInv, JobInv
    <2>2. (~dirty => n = m)' BY <1>3, <2>0, ApplyTwice DEF Sound, TypeOK, EditInv, JobInv, StampInv
    <2>3. EditInv' BY <1>3, <2>0 DEF Sound, TypeOK, EditInv, JobInv
    <2>4. FingerprintInv' BY <1>3, <2>0, ApplyTwice DEF Sound, TypeOK, FingerprintInv, EditInv, JobInv
    <2>5. JobInv' BY <1>3, <2>0, ApplyTwice DEF Sound, TypeOK, JobInv, StampInv, EditInv, FingerprintInv
    <2> QED BY <2>1, <2>2, <2>3, <2>4, <2>5 DEF Sound
  <1> QED BY <1>1, <1>2, <1>3

\* The node executes the push, but the master never hears of it.
LEMMA EditPushLostKeeps ==
    ASSUME IInv, EditPushLost PROVE IInv'
  <1> USE BoundsAssumption DEF IInv, EditPushLost, EndEdit, NoEdit, master, ghosts
  <1>1. TypeOK' BY ApplyType DEF TypeOK, Sets, StampInv
  <1>2. StampInv' BY DEF StampInv, TypeOK
  <1>3. ASSUME excuses' = {} PROVE Sound'
    <2>0. Sound BY <1>3
    <2>1. (m = want)' BY <1>3, <2>0 DEF Sound, TypeOK, EditInv, JobInv
    <2>2. (~dirty => n = m)' BY <1>3, <2>0, ApplyTwice DEF Sound, TypeOK, EditInv, JobInv, StampInv
    <2>3. EditInv' BY <1>3, <2>0 DEF Sound, TypeOK, EditInv, JobInv
    <2>4. FingerprintInv' BY <1>3, <2>0, ApplyTwice DEF Sound, TypeOK, FingerprintInv, EditInv, JobInv
    <2>5. JobInv' BY <1>3, <2>0, ApplyTwice DEF Sound, TypeOK, JobInv, StampInv, EditInv, FingerprintInv
    <2> QED BY <2>1, <2>2, <2>3, <2>4, <2>5 DEF Sound
  <1> QED BY <1>1, <1>2, <1>3

\* AdvancePushedInbound moves only a true fingerprint.
LEMMA EditAdvanceKeeps ==
    ASSUME IInv, EditAdvance PROVE IInv'
  <1> USE BoundsAssumption DEF IInv, EditAdvance, EndEdit, NoEdit, master, ghosts
  <1>1. TypeOK' BY ApplyType DEF TypeOK, Sets, StampInv
  <1>2. StampInv' BY DEF StampInv, TypeOK
  <1>3. ASSUME excuses' = {} PROVE Sound'
    <2>0. Sound BY <1>3
    <2>1. (m = want)' BY <1>3, <2>0 DEF Sound, TypeOK, EditInv, JobInv
    <2>2. (~dirty => n = m)' BY <1>3, <2>0, ApplyTwice DEF Sound, TypeOK, EditInv, JobInv, StampInv
    <2>3. EditInv' BY <1>3, <2>0 DEF Sound, TypeOK, EditInv, JobInv
    <2>4. FingerprintInv' BY <1>3, <2>0, ApplyTwice DEF Sound, TypeOK, FingerprintInv, EditInv, JobInv
    <2>5. JobInv' BY <1>3, <2>0, ApplyTwice DEF Sound, TypeOK, JobInv, StampInv, EditInv, FingerprintInv
    <2> QED BY <2>1, <2>2, <2>3, <2>4, <2>5 DEF Sound
  <1> QED BY <1>1, <1>2, <1>3

\* deleteTombstoneTTL ends.
LEMMA TombstoneExpiresKeeps ==
    ASSUME IInv, NEW c \in Clients, TombstoneExpires(c) PROVE IInv'
  <1> USE BoundsAssumption DEF IInv, TombstoneExpires, master, ghosts
  <1>1. TypeOK' BY ApplyType DEF TypeOK, Sets, StampInv
  <1>2. StampInv' BY DEF StampInv, TypeOK
  <1>3. ASSUME excuses' = {} PROVE Sound'
    <2>0. Sound BY <1>3
    <2>1. (m = want)' BY <1>3, <2>0 DEF Sound, TypeOK, EditInv, JobInv
    <2>2. (~dirty => n = m)' BY <1>3, <2>0, ApplyTwice DEF Sound, TypeOK, EditInv, JobInv, StampInv
    <2>3. EditInv' BY <1>3, <2>0 DEF Sound, TypeOK, EditInv, JobInv
    <2>4. FingerprintInv' BY <1>3, <2>0, ApplyTwice DEF Sound, TypeOK, FingerprintInv, EditInv, JobInv
    <2>5. JobInv' BY <1>3, <2>0, ApplyTwice DEF Sound, TypeOK, JobInv, StampInv, EditInv, FingerprintInv
    <2> QED BY <2>1, <2>2, <2>3, <2>4, <2>5 DEF Sound
  <1> QED BY <1>1, <1>2, <1>3

\* The tick reads the flag and its stamp together (GetAll).
LEMMA JobStartKeeps ==
    ASSUME IInv, JobStart PROVE IInv'
  <1> USE BoundsAssumption DEF IInv, JobStart, NoJob, JobAt, master, ghosts
  <1>1. TypeOK' BY ApplyType DEF TypeOK, Sets, StampInv
  <1>2. StampInv' BY DEF StampInv, TypeOK
  <1>3. ASSUME excuses' = {} PROVE Sound'
    <2>0. Sound BY <1>3
    <2>1. (m = want)' BY <1>3, <2>0 DEF Sound, TypeOK, EditInv, JobInv
    <2>2. (~dirty => n = m)' BY <1>3, <2>0, ApplyTwice DEF Sound, TypeOK, EditInv, JobInv, StampInv
    <2>3. EditInv' BY <1>3, <2>0 DEF Sound, TypeOK, EditInv, JobInv
    <2>4. FingerprintInv' BY <1>3, <2>0, ApplyTwice DEF Sound, TypeOK, FingerprintInv, EditInv, JobInv
    <2>5. JobInv' BY <1>3, <2>0, ApplyTwice DEF Sound, TypeOK, JobInv, StampInv, EditInv, FingerprintInv
    <2> QED BY <2>1, <2>2, <2>3, <2>4, <2>5 DEF Sound
  <1> QED BY <1>1, <1>2, <1>3

\* ReconcileNode reads the inbound.
LEMMA ReconcileReadKeeps ==
    ASSUME IInv, ReconcileRead PROVE IInv'
  <1> USE BoundsAssumption DEF IInv, ReconcileRead, JobAt, master, ghosts
  <1>1. TypeOK' BY ApplyType DEF TypeOK, Sets, StampInv
  <1>2. StampInv' BY DEF StampInv, TypeOK
  <1>3. ASSUME excuses' = {} PROVE Sound'
    <2>0. Sound BY <1>3
    <2>1. (m = want)' BY <1>3, <2>0 DEF Sound, TypeOK, EditInv, JobInv
    <2>2. (~dirty => n = m)' BY <1>3, <2>0, ApplyTwice DEF Sound, TypeOK, EditInv, JobInv, StampInv
    <2>3. EditInv' BY <1>3, <2>0 DEF Sound, TypeOK, EditInv, JobInv
    <2>4. FingerprintInv' BY <1>3, <2>0, ApplyTwice DEF Sound, TypeOK, FingerprintInv, EditInv, JobInv
    <2>5. JobInv' BY <1>3, <2>0, ApplyTwice DEF Sound, TypeOK, JobInv, StampInv, EditInv, FingerprintInv
    <2> QED BY <2>1, <2>2, <2>3, <2>4, <2>5 DEF Sound
  <1> QED BY <1>1, <1>2, <1>3

\* ReconcileInbound skips only a payload the node has.
LEMMA ReconcileCheckKeeps ==
    ASSUME IInv, ReconcileCheck PROVE IInv'
  <1> USE BoundsAssumption DEF IInv, ReconcileCheck, JobAt, JobGo, master, ghosts
  <1>1. TypeOK' BY ApplyType DEF TypeOK, Sets, StampInv
  <1>2. StampInv' BY DEF StampInv, TypeOK
  <1>3. ASSUME excuses' = {} PROVE Sound'
    <2>0. Sound BY <1>3
    <2>1. (m = want)' BY <1>3, <2>0 DEF Sound, TypeOK, EditInv, JobInv
    <2>2. (~dirty => n = m)' BY <1>3, <2>0, ApplyTwice DEF Sound, TypeOK, EditInv, JobInv, StampInv
    <2>3. EditInv' BY <1>3, <2>0 DEF Sound, TypeOK, EditInv, JobInv
    <2>4. FingerprintInv' BY <1>3, <2>0, ApplyTwice DEF Sound, TypeOK, FingerprintInv, EditInv, JobInv
    <2>5. JobInv' BY <1>3, <2>0, ApplyTwice DEF Sound, TypeOK, JobInv, StampInv, EditInv, FingerprintInv
    <2> QED BY <2>1, <2>2, <2>3, <2>4, <2>5 DEF Sound
  <1> QED BY <1>1, <1>2, <1>3

\* UpdateInbound replaces what the node has.
LEMMA ReconcileSendKeeps ==
    ASSUME IInv, ReconcileSend PROVE IInv'
  <1> USE BoundsAssumption DEF IInv, ReconcileSend, JobAt, JobGo, master, ghosts
  <1>1. TypeOK' BY ApplyType DEF TypeOK, Sets, StampInv
  <1>2. StampInv' BY DEF StampInv, TypeOK
  <1>3. ASSUME excuses' = {} PROVE Sound'
    <2>0. Sound BY <1>3
    <2>1. (m = want)' BY <1>3, <2>0 DEF Sound, TypeOK, EditInv, JobInv
    <2>2. (~dirty => n = m)' BY <1>3, <2>0, ApplyTwice DEF Sound, TypeOK, EditInv, JobInv, StampInv
    <2>3. EditInv' BY <1>3, <2>0 DEF Sound, TypeOK, EditInv, JobInv
    <2>4. FingerprintInv' BY <1>3, <2>0, ApplyTwice DEF Sound, TypeOK, FingerprintInv, EditInv, JobInv
    <2>5. JobInv' BY <1>3, <2>0, ApplyTwice DEF Sound, TypeOK, JobInv, StampInv, EditInv, FingerprintInv
    <2> QED BY <2>1, <2>2, <2>3, <2>4, <2>5 DEF Sound
  <1> QED BY <1>1, <1>2, <1>3

\* The reconcile fails and the node stays dirty.
LEMMA ReconcileFailsKeeps ==
    ASSUME IInv, ReconcileFails PROVE IInv'
  <1> USE BoundsAssumption DEF IInv, ReconcileFails, JobAt, JobGo, master, ghosts
  <1>1. TypeOK' BY ApplyType DEF TypeOK, Sets, StampInv
  <1>2. StampInv' BY DEF StampInv, TypeOK
  <1>3. ASSUME excuses' = {} PROVE Sound'
    <2>0. Sound BY <1>3
    <2>1. (m = want)' BY <1>3, <2>0 DEF Sound, TypeOK, EditInv, JobInv
    <2>2. (~dirty => n = m)' BY <1>3, <2>0, ApplyTwice DEF Sound, TypeOK, EditInv, JobInv, StampInv
    <2>3. EditInv' BY <1>3, <2>0 DEF Sound, TypeOK, EditInv, JobInv
    <2>4. FingerprintInv' BY <1>3, <2>0, ApplyTwice DEF Sound, TypeOK, FingerprintInv, EditInv, JobInv
    <2>5. JobInv' BY <1>3, <2>0, ApplyTwice DEF Sound, TypeOK, JobInv, StampInv, EditInv, FingerprintInv
    <2> QED BY <2>1, <2>2, <2>3, <2>4, <2>5 DEF Sound
  <1> QED BY <1>1, <1>2, <1>3

\* UpdateInbound is executed, but the master never hears of it.
LEMMA ReconcileSendLostKeeps ==
    ASSUME IInv, ReconcileSendLost PROVE IInv'
  <1> USE BoundsAssumption DEF IInv, ReconcileSendLost, JobAt, JobGo, master, ghosts
  <1>1. TypeOK'
    <2>1. lost' \in 0..MaxLost BY DEF TypeOK
    <2>2. job' \in [pc : {"idle", "read", "check", "send", "record", "clear", "fetch", "sample", "merge"},
                    dirtyAt : 0..MaxEdits, want : Sets, snap : Sets, seen : BOOLEAN]
      BY DEF TypeOK
    <2>3. n' \in Sets BY DEF TypeOK
    <2> QED BY <2>1, <2>2, <2>3 DEF TypeOK
  <1>2. StampInv' BY DEF StampInv, TypeOK
  <1>3. ASSUME excuses' = {} PROVE Sound'
    <2>0. Sound BY <1>3
    <2>1. (m = want)' BY <1>3, <2>0 DEF Sound, TypeOK, EditInv, JobInv
    <2>2. (~dirty => n = m)' BY <1>3, <2>0, ApplyTwice DEF Sound, TypeOK, EditInv, JobInv, StampInv
    <2>3. EditInv' BY <1>3, <2>0 DEF Sound, TypeOK, EditInv, JobInv
    <2>4. FingerprintInv' BY <1>3, <2>0, ApplyTwice DEF Sound, TypeOK, FingerprintInv, EditInv, JobInv
    <2>5. JobInv' BY <1>3, <2>0, ApplyTwice DEF Sound, TypeOK, JobInv, StampInv, EditInv, FingerprintInv
    <2> QED BY <2>1, <2>2, <2>3, <2>4, <2>5 DEF Sound
  <1> QED BY <1>1, <1>2, <1>3

\* recordPushedInbound records a payload the node has.
LEMMA ReconcileRecordKeeps ==
    ASSUME IInv, ReconcileRecord PROVE IInv'
  <1> USE BoundsAssumption DEF IInv, ReconcileRecord, JobAt, JobGo, master, ghosts
  <1>1. TypeOK' BY ApplyType DEF TypeOK, Sets, StampInv
  <1>2. StampInv' BY DEF StampInv, TypeOK
  <1>3. ASSUME excuses' = {} PROVE Sound'
    <2>0. Sound BY <1>3
    <2>1. (m = want)' BY <1>3, <2>0 DEF Sound, TypeOK, EditInv, JobInv
    <2>2. (~dirty => n = m)' BY <1>3, <2>0, ApplyTwice DEF Sound, TypeOK, EditInv, JobInv, StampInv
    <2>3. EditInv' BY <1>3, <2>0 DEF Sound, TypeOK, EditInv, JobInv
    <2>4. FingerprintInv' BY <1>3, <2>0, ApplyTwice DEF Sound, TypeOK, FingerprintInv, EditInv, JobInv
    <2>5. JobInv' BY <1>3, <2>0, ApplyTwice DEF Sound, TypeOK, JobInv, StampInv, EditInv, FingerprintInv
    <2> QED BY <2>1, <2>2, <2>3, <2>4, <2>5 DEF Sound
  <1> QED BY <1>1, <1>2, <1>3

\* ClearNodeDirty lowers the flag only under the stamp it was read with.
LEMMA ClearNodeDirtyKeeps ==
    ASSUME IInv, ClearNodeDirty PROVE IInv'
  <1> USE BoundsAssumption DEF IInv, ClearNodeDirty, JobAt, JobGo, master, ghosts
  <1>1. TypeOK' BY ApplyType DEF TypeOK, Sets, StampInv
  <1>2. StampInv' BY DEF StampInv, TypeOK
  <1>3. ASSUME excuses' = {} PROVE Sound'
    <2>0. Sound BY <1>3
    <2>1. (m = want)' BY <1>3, <2>0 DEF Sound, TypeOK, EditInv, JobInv
    <2>2. (~dirty => n = m)' BY <1>3, <2>0, ApplyTwice DEF Sound, TypeOK, EditInv, JobInv, StampInv
    <2>3. EditInv' BY <1>3, <2>0 DEF Sound, TypeOK, EditInv, JobInv
    <2>4. FingerprintInv' BY <1>3, <2>0, ApplyTwice DEF Sound, TypeOK, FingerprintInv, EditInv, JobInv
    <2>5. JobInv' BY <1>3, <2>0, ApplyTwice DEF Sound, TypeOK, JobInv, StampInv, EditInv, FingerprintInv
    <2> QED BY <2>1, <2>2, <2>3, <2>4, <2>5 DEF Sound
  <1> QED BY <1>1, <1>2, <1>3

\* FetchTrafficSnapshot of a clean node returns the master's clients.
LEMMA FetchSnapshotKeeps ==
    ASSUME IInv, FetchSnapshot PROVE IInv'
  <1> USE BoundsAssumption DEF IInv, FetchSnapshot, JobAt, master, ghosts
  <1>1. TypeOK' BY ApplyType DEF TypeOK, Sets, StampInv
  <1>2. StampInv' BY DEF StampInv, TypeOK
  <1>3. ASSUME excuses' = {} PROVE Sound'
    <2>0. Sound BY <1>3
    <2>1. (m = want)' BY <1>3, <2>0 DEF Sound, TypeOK, EditInv, JobInv
    <2>2. (~dirty => n = m)' BY <1>3, <2>0, ApplyTwice DEF Sound, TypeOK, EditInv, JobInv, StampInv
    <2>3. EditInv' BY <1>3, <2>0 DEF Sound, TypeOK, EditInv, JobInv
    <2>4. FingerprintInv' BY <1>3, <2>0, ApplyTwice DEF Sound, TypeOK, FingerprintInv, EditInv, JobInv
    <2>5. JobInv' BY <1>3, <2>0, ApplyTwice DEF Sound, TypeOK, JobInv, StampInv, EditInv, FingerprintInv
    <2> QED BY <2>1, <2>2, <2>3, <2>4, <2>5 DEF Sound
  <1> QED BY <1>1, <1>2, <1>3

\* The pull fails and the tick ends.
LEMMA PullFailsKeeps ==
    ASSUME IInv, PullFails PROVE IInv'
  <1> USE BoundsAssumption DEF IInv, PullFails, NoJob, master, ghosts
  <1>1. TypeOK' BY ApplyType DEF TypeOK, Sets, StampInv
  <1>2. StampInv' BY DEF StampInv, TypeOK
  <1>3. ASSUME excuses' = {} PROVE Sound'
    <2>0. Sound BY <1>3
    <2>1. (m = want)' BY <1>3, <2>0 DEF Sound, TypeOK, EditInv, JobInv
    <2>2. (~dirty => n = m)' BY <1>3, <2>0, ApplyTwice DEF Sound, TypeOK, EditInv, JobInv, StampInv
    <2>3. EditInv' BY <1>3, <2>0 DEF Sound, TypeOK, EditInv, JobInv
    <2>4. FingerprintInv' BY <1>3, <2>0, ApplyTwice DEF Sound, TypeOK, FingerprintInv, EditInv, JobInv
    <2>5. JobInv' BY <1>3, <2>0, ApplyTwice DEF Sound, TypeOK, JobInv, StampInv, EditInv, FingerprintInv
    <2> QED BY <2>1, <2>2, <2>3, <2>4, <2>5 DEF Sound
  <1> QED BY <1>1, <1>2, <1>3

\* NodeSyncState after the fetch.
LEMMA SampleDirtyKeeps ==
    ASSUME IInv, SampleDirty PROVE IInv'
  <1> USE BoundsAssumption DEF IInv, SampleDirty, JobAt, master, ghosts
  <1>1. TypeOK' BY ApplyType DEF TypeOK, Sets, StampInv
  <1>2. StampInv' BY DEF StampInv, TypeOK
  <1>3. ASSUME excuses' = {} PROVE Sound'
    <2>0. Sound BY <1>3
    <2>1. (m = want)' BY <1>3, <2>0 DEF Sound, TypeOK, EditInv, JobInv
    <2>2. (~dirty => n = m)' BY <1>3, <2>0, ApplyTwice DEF Sound, TypeOK, EditInv, JobInv, StampInv
    <2>3. EditInv' BY <1>3, <2>0 DEF Sound, TypeOK, EditInv, JobInv
    <2>4. FingerprintInv' BY <1>3, <2>0, ApplyTwice DEF Sound, TypeOK, FingerprintInv, EditInv, JobInv
    <2>5. JobInv' BY <1>3, <2>0, ApplyTwice DEF Sound, TypeOK, JobInv, StampInv, EditInv, FingerprintInv
    <2> QED BY <2>1, <2>2, <2>3, <2>4, <2>5 DEF Sound
  <1> QED BY <1>1, <1>2, <1>3

\* setRemoteTrafficLocked adopts from a clean node only what the master has.
LEMMA MergeKeeps ==
    ASSUME IInv, Merge PROVE IInv'
  <1> USE BoundsAssumption DEF IInv, Merge, StillDirty, Adopt, Adopted, AdoptedWireChanged, NoJob, JobAt, master, ghosts
  <1>1. TypeOK'
    <2>1. job.snap \ tomb \in Sets BY DEF TypeOK, Sets
    <2>2. m' \in Sets /\ fp' \in {{}} \cup {{t} : t \in Sets} BY <2>1 DEF TypeOK
    <2>3. excuses' \subseteq {"overlap", "revert", "tombstone"} BY DEF TypeOK
    <2>4. job' = NoJob /\ NoJob.snap = {} BY DEF NoJob
    <2> QED BY <2>2, <2>3, <2>4 DEF TypeOK, Sets
  <1>2. StampInv' BY DEF StampInv, TypeOK
  <1>3. ASSUME excuses' = {} PROVE Sound'
    <2>0. Sound BY <1>3
    <2>1. (m = want)' BY <1>3, <2>0 DEF Sound, TypeOK, EditInv, JobInv
    <2>2. (~dirty => n = m)' BY <1>3, <2>0, ApplyTwice DEF Sound, TypeOK, EditInv, JobInv, StampInv
    <2>3. EditInv' BY <1>3, <2>0 DEF Sound, TypeOK, EditInv, JobInv
    <2>4. FingerprintInv' BY <1>3, <2>0, ApplyTwice DEF Sound, TypeOK, FingerprintInv, EditInv, JobInv
    <2>5. JobInv' BY <1>3, <2>0, ApplyTwice DEF Sound, TypeOK, JobInv, StampInv, EditInv, FingerprintInv
    <2> QED BY <2>1, <2>2, <2>3, <2>4, <2>5 DEF Sound
  <1> QED BY <1>1, <1>2, <1>3

\* The panel restarts: what it forgets is never needed for soundness.
LEMMA RestartKeeps ==
    ASSUME IInv, Restart PROVE IInv'
  <1> USE BoundsAssumption DEF IInv, Restart, NoEdit, NoJob, master, ghosts
  <1>1. TypeOK' BY ApplyType DEF TypeOK, Sets, StampInv
  <1>2. StampInv' BY DEF StampInv, TypeOK
  <1>3. ASSUME excuses' = {} PROVE Sound'
    <2>0. Sound BY <1>3
    <2>1. (m = want)' BY <1>3, <2>0 DEF Sound, TypeOK, EditInv, JobInv
    <2>2. (~dirty => n = m)' BY <1>3, <2>0, ApplyTwice DEF Sound, TypeOK, EditInv, JobInv, StampInv
    <2>3. EditInv' BY <1>3, <2>0 DEF Sound, TypeOK, EditInv, JobInv
    <2>4. FingerprintInv' BY <1>3, <2>0, ApplyTwice DEF Sound, TypeOK, FingerprintInv, EditInv, JobInv
    <2>5. JobInv' BY <1>3, <2>0, ApplyTwice DEF Sound, TypeOK, JobInv, StampInv, EditInv, FingerprintInv
    <2> QED BY <2>1, <2>2, <2>3, <2>4, <2>5 DEF Sound
  <1> QED BY <1>1, <1>2, <1>3

-----------------------------------------------------------------------------
(***************************************************************************)
(* The theorems.                                                           *)
(***************************************************************************)

\* No step of an edit, a tick or a restart breaks IInv.
LEMMA NextKeeps == IInv /\ [Next]_vars => IInv'
  <1> SUFFICES ASSUME IInv, [Next]_vars PROVE IInv' OBVIOUS
  <1>1. CASE \E op \in {"add", "delete"}, c \in Clients : EditRead(op, c)
    BY <1>1, EditReadKeeps
  <1>2. CASE EditStep
    BY <1>2, EditCommitKeeps, EditRollbackKeeps, EditPushKeeps, EditPushFailsKeeps,
       EditPushLostKeeps, EditAdvanceKeeps DEF EditStep
  <1>3. CASE \E c \in Clients : TombstoneExpires(c)
    BY <1>3, TombstoneExpiresKeeps
  <1>4. CASE JobStep
    BY <1>4, JobStartKeeps, ReconcileReadKeeps, ReconcileCheckKeeps, ReconcileSendKeeps,
       ReconcileFailsKeeps, ReconcileSendLostKeeps, ReconcileRecordKeeps,
       ClearNodeDirtyKeeps, FetchSnapshotKeeps, PullFailsKeeps, SampleDirtyKeeps,
       MergeKeeps DEF JobStep
  <1>5. CASE Restart BY <1>5, RestartKeeps
  <1>6. CASE UNCHANGED vars
    BY <1>6 DEF vars, master, ghosts, IInv, TypeOK, StampInv, Sound, EditInv,
                FingerprintInv, JobInv
  <1> QED BY <1>1, <1>2, <1>3, <1>4, <1>5, <1>6 DEF Next

\* A node adopted by an earlier tick starts sound.
LEMMA InitEstablishes == Init => IInv
  <1> SUFFICES ASSUME Init PROVE IInv OBVIOUS
  <1> USE BoundsAssumption DEF Init, NoEdit, NoJob
  <1>1. TypeOK
    <2>1. fp \in {{}} \cup {{t} : t \in Sets} OBVIOUS
    <2>2. edit \in [pc : {"idle", "commit", "push", "advance"}, op : {"none", "add", "delete"},
                    client : Sets, base : Sets, new : Sets]
      BY DEF Sets
    <2>3. job \in [pc : {"idle", "read", "check", "send", "record", "clear", "fetch", "sample", "merge"},
                   dirtyAt : 0..MaxEdits, want : Sets, snap : Sets, seen : BOOLEAN]
      BY DEF Sets
    <2>4. stamp \in 0..MaxEdits /\ crashes \in 0..MaxCrashes /\ lost \in 0..MaxLost OBVIOUS
    <2>5. m \in Sets /\ n \in Sets /\ want \in Sets OBVIOUS
    <2>6. tomb \subseteq Clients /\ excuses \subseteq {"overlap", "revert", "tombstone"} OBVIOUS
    <2>7. dirty \in BOOLEAN OBVIOUS
    <2> HIDE DEF Init, NoEdit, NoJob
    <2> QED BY <2>1, <2>2, <2>3, <2>4, <2>5, <2>6, <2>7 DEF TypeOK
  <1>2. StampInv BY DEF StampInv
  <1>3. Sound BY DEF Sound, EditInv, FingerprintInv, JobInv
  <1> QED BY <1>1, <1>2, <1>3 DEF IInv

\* IInv holds in every state the master and the node can reach.
THEOREM Inductive == Spec => []IInv
  BY InitEstablishes, NextKeeps, PTL DEF Spec

\* The state of the sync between master and node is well typed.
THEOREM TypeCorrect == Spec => []TypeOK
  <1>1. IInv => TypeOK BY DEF IInv
  <1> QED BY <1>1, Inductive, PTL

\* ReconcileNode, ClearNodeDirty and setRemoteTrafficLocked never undo a
\* committed edit outside the three excused situations.
THEOREM MasterIntactHolds == Spec => []MasterIntact
  <1>1. IInv => MasterIntact BY DEF IInv, Sound, MasterIntact
  <1> QED BY <1>1, Inductive, PTL

\* config_dirty is down only while the node holds the master's clients.
THEOREM CleanMeansEqualHolds == Spec => []CleanMeansEqual
  <1>1. IInv => CleanMeansEqual BY DEF IInv, Sound, CleanMeansEqual
  <1> QED BY <1>1, Inductive, PTL
=============================================================================
