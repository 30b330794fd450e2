------------------------ MODULE TrafficWriter_proofs ------------------------
(***************************************************************************)
(* Proofs about TrafficWriter for any number of calls, writers and         *)
(* stoppers and any channel capacity.  None of the three safety invariants *)
(* is inductive; IInv below is, and it says why the protocol works: the    *)
(* lock holder's writer cannot be cancelled (LockInv), the package state   *)
(* names the only writer that can still receive (WriterInv), and a request *)
(* is in exactly the place its caller is waiting for (CallInv).            *)
(***************************************************************************)
EXTENDS TrafficWriter, SequenceTheorems, TLAPS

Live(w) == wpc[w] \notin {"unborn", "exited"}

Distinct(s) == \A i, j \in DOMAIN s : s[i] = s[j] => i = j

WriterInv ==
    \A w \in Writers :
        /\ Live(w) => cur = w
        /\ cur = w => wpc[w] # "unborn"
        /\ wpc[w] \in {"drain", "drainApply", "exited"} => w \in cancelled
        /\ wpc[w] \in {"unborn", "exited"} => queue[w] = <<>>
        /\ (wpc[w] \in {"apply", "drainApply"}) <=> (writing[w] # None)
        /\ wpc[w] = "unborn" => w \notin cancelled

LockInv ==
    \A r \in Requests : rpc[r] = "blocked" =>
        /\ mu = r
        /\ cur \in Writers
        /\ at[r] = cur
        /\ cur \notin cancelled

\* A request that is queued or being applied is one whose caller waits for it.
Pending(r, w) ==
    /\ rpc[r] = "waiting"
    /\ at[r] = w
    /\ r \notin replied
    /\ applied[r] = 0

QueueInv ==
    \A w \in Writers :
        /\ Distinct(queue[w])
        /\ \A r \in Requests :
              /\ r \in Elements(queue[w]) => Pending(r, w)
              /\ writing[w] = r => Pending(r, w) /\ r \notin Elements(queue[w])

CallInv ==
    \A r \in Requests :
        /\ rpc[r] \in {"new", "blocked", "inline"} =>
              applied[r] = 0 /\ result[r] = "none" /\ r \notin replied
        /\ rpc[r] = "inlined" => applied[r] = 1 /\ result[r] = "none" /\ r \notin replied
        /\ rpc[r] = "waiting" =>
              /\ result[r] = "none"
              /\ at[r] \in Writers
              /\ r \in replied => applied[r] = 1
              /\ r \notin replied => r \in Elements(queue[at[r]]) \/ writing[at[r]] = r
        /\ rpc[r] = "returned" =>
              \/ result[r] = "applied" /\ applied[r] = 1
              \/ result[r] = "full" /\ applied[r] = 0

IInv == TypeOK /\ WriterInv /\ LockInv /\ QueueInv /\ CallInv

-----------------------------------------------------------------------------
(***************************************************************************)
(* Channels as sequences.                                                  *)
(***************************************************************************)

\* A send adds the request to the channel's elements and, if it was not there,
\* leaves them distinct (the send of submitTrafficWrite).
LEMMA AppendElements ==
    ASSUME NEW S, NEW s \in Seq(S), NEW e \in S
    PROVE  /\ Elements(Append(s, e)) = Elements(s) \cup {e}
           /\ Distinct(s) /\ e \notin Elements(s) => Distinct(Append(s, e))
  <1>1. /\ DOMAIN Append(s, e) = 1 .. Len(s) + 1
        /\ DOMAIN s = 1 .. Len(s)
        /\ Len(s) \in Nat
        /\ \A i \in 1 .. Len(s) : Append(s, e)[i] = s[i]
        /\ Append(s, e)[Len(s) + 1] = e
    OBVIOUS
  <1>2. Elements(Append(s, e)) = Elements(s) \cup {e}
    BY <1>1 DEF Elements
  <1>3. Distinct(s) /\ e \notin Elements(s) => Distinct(Append(s, e))
    BY <1>1 DEF Elements, Distinct
  <1> QED BY <1>2, <1>3

\* A receive takes the head out of a distinct channel and no other request
\* (the receives of runTrafficWriter).
LEMMA TailElements ==
    ASSUME NEW S, NEW s \in Seq(S), s # <<>>, Distinct(s)
    PROVE  /\ Head(s) \in S
           /\ Head(s) \in Elements(s)
           /\ Elements(Tail(s)) = Elements(s) \ {Head(s)}
           /\ Distinct(Tail(s))
           /\ Tail(s) \in Seq(S)
           /\ Len(Tail(s)) <= Len(s)
  <1>1. /\ Len(s) \in Nat \ {0}
        /\ DOMAIN s = 1 .. Len(s)
        /\ Tail(s) \in Seq(S)
        /\ Len(Tail(s)) = Len(s) - 1
        /\ DOMAIN Tail(s) = 1 .. Len(s) - 1
        /\ \A i \in 1 .. Len(s) - 1 : Tail(s)[i] = s[i + 1]
        /\ Head(s) = s[1]
    BY EmptySeq, HeadTailProperties
  <1>2. Head(s) \in S /\ Head(s) \in Elements(s)
    BY <1>1 DEF Elements
  <1>3. Elements(Tail(s)) \subseteq Elements(s) \ {Head(s)}
    BY <1>1 DEF Elements, Distinct
  <1>4. ASSUME NEW x \in Elements(s) \ {Head(s)} PROVE x \in Elements(Tail(s))
    <2>1. PICK i \in 1 .. Len(s) : s[i] = x BY <1>1 DEF Elements
    <2>2. i - 1 \in 1 .. Len(s) - 1 BY <1>1, <2>1
    <2>3. Tail(s)[i - 1] = x BY <1>1, <2>1, <2>2
    <2> QED BY <1>1, <2>2, <2>3 DEF Elements
  <1>5. Distinct(Tail(s))
    BY <1>1 DEF Distinct
  <1> QED BY <1>1, <1>2, <1>3, <1>4, <1>5

-----------------------------------------------------------------------------
(***************************************************************************)
(* Every step keeps IInv.                                                  *)
(***************************************************************************)

\* StartTrafficWriter finds no live writer, so the one it spawns is the only one.
LEMMA StartTrafficWriterKeeps ==
    ASSUME IInv, StartTrafficWriter PROVE IInv'
  <1> USE QueueSizeAssumption, NoneAssumption DEF IInv, StartTrafficWriter, writerVars, callVars
  <1>1. TypeOK' BY DEF TypeOK, WriterPC, CallPC, Results, WriterInv
  <1>2. WriterInv' BY DEF TypeOK, WriterInv, Live, Done
  <1>3. LockInv' BY DEF TypeOK, LockInv, WriterInv
  <1>4. QueueInv' BY DEF TypeOK, QueueInv, Pending, CallInv, WriterInv
  <1>5. CallInv' BY DEF TypeOK, CallInv, QueueInv, Pending, WriterInv
  <1> QED BY <1>1, <1>2, <1>3, <1>4, <1>5

\* StopTrafficWriter cancels only when no call holds twMu.
LEMMA StopCancelKeeps ==
    ASSUME IInv, NEW p \in Stoppers, StopCancel(p) PROVE IInv'
  <1> USE QueueSizeAssumption, NoneAssumption DEF IInv, StopCancel, writerVars, callVars
  <1>1. TypeOK' BY DEF TypeOK, WriterPC, CallPC, Results, WriterInv
  <1>2. WriterInv' BY DEF TypeOK, WriterInv, Live, LockInv
  <1>3. LockInv' BY DEF TypeOK, LockInv, WriterInv
  <1>4. QueueInv' BY DEF TypeOK, QueueInv, Pending, CallInv, WriterInv
  <1>5. CallInv' BY DEF TypeOK, CallInv, QueueInv, Pending, WriterInv
  <1> QED BY <1>1, <1>2, <1>3, <1>4, <1>5

\* StopTrafficWriter forgets the package state only of a writer that has ended.
LEMMA StopFinishKeeps ==
    ASSUME IInv, NEW p \in Stoppers, StopFinish(p) PROVE IInv'
  <1> USE QueueSizeAssumption, NoneAssumption DEF IInv, StopFinish, Done, writerVars, callVars
  <1>1. TypeOK' BY DEF TypeOK, WriterPC, CallPC, Results, WriterInv
  <1>2. WriterInv' BY DEF TypeOK, WriterInv, Live, LockInv
  <1>3. LockInv' BY DEF TypeOK, LockInv, WriterInv
  <1>4. QueueInv' BY DEF TypeOK, QueueInv, Pending, CallInv, WriterInv
  <1>5. CallInv' BY DEF TypeOK, CallInv, QueueInv, Pending, WriterInv
  <1> QED BY <1>1, <1>2, <1>3, <1>4, <1>5

\* runTrafficWriter's receive moves the head of the channel into the apply.
LEMMA WriterReceiveKeeps ==
    ASSUME IInv, NEW w \in Writers, WriterReceive(w) PROVE IInv'
  <1> USE QueueSizeAssumption, NoneAssumption DEF IInv, WriterReceive, writerVars, callVars
  <1>a. /\ Head(queue[w]) \in Requests
        /\ Head(queue[w]) \in Elements(queue[w])
        /\ Elements(Tail(queue[w])) = Elements(queue[w]) \ {Head(queue[w])}
        /\ Distinct(Tail(queue[w]))
        /\ Tail(queue[w]) \in Seq(Requests)
        /\ Len(Tail(queue[w])) <= Len(queue[w])
    BY TailElements DEF TypeOK, QueueInv
  <1>b. /\ \A v \in Writers : v # w => queue'[v] = queue[v] /\ writing'[v] = writing[v]
        /\ queue'[w] = Tail(queue[w])
        /\ writing'[w] = Head(queue[w])
        /\ Len(queue'[w]) <= QueueSize
    <2>1. queue[w] \in Seq(Requests) /\ Len(queue[w]) <= QueueSize BY DEF TypeOK
    <2>2. Len(queue[w]) \in Nat /\ Len(Tail(queue[w])) \in Nat BY <1>a, <2>1, LenProperties
    <2>3. Len(Tail(queue[w])) <= QueueSize BY <1>a, <2>1, <2>2
    <2> QED BY <2>3 DEF TypeOK
  <1>1. TypeOK' BY <1>a, <1>b DEF TypeOK, WriterPC
  <1>2. WriterInv' BY <1>a, <1>b DEF TypeOK, WriterInv, Live
  <1>3. LockInv' BY DEF TypeOK, LockInv, WriterInv
  <1>4. QueueInv' BY <1>a, <1>b DEF TypeOK, QueueInv, Pending, WriterInv
  <1>5. CallInv'
    <2>1. writing[w] = None BY DEF WriterInv
    <2>2. ASSUME NEW r \in Requests, rpc[r] = "waiting", r \notin replied
          PROVE  r \in Elements(queue'[at[r]]) \/ writing'[at[r]] = r
      <3>1. at[r] \in Writers /\ (r \in Elements(queue[at[r]]) \/ writing[at[r]] = r)
        BY <2>2 DEF CallInv
      <3>2. CASE at[r] # w BY <1>b, <3>1, <3>2
      <3>3. CASE at[r] = w BY <1>a, <1>b, <2>1, <3>1, <3>3
      <3> QED BY <3>2, <3>3
    <2> QED BY <2>2 DEF CallInv
  <1> QED BY <1>1, <1>2, <1>3, <1>4, <1>5

\* safeApply and the reply of runTrafficWriter: the one run of the request.
LEMMA WriterApplyKeeps ==
    ASSUME IInv, NEW w \in Writers, WriterApply(w) PROVE IInv'
  <1> USE QueueSizeAssumption, NoneAssumption DEF IInv, WriterApply, writerVars, callVars
  <1>1. TypeOK' BY DEF TypeOK, WriterPC, CallPC, Results, WriterInv
  <1>2. WriterInv' BY DEF TypeOK, WriterInv, Live, LockInv
  <1>3. LockInv' BY DEF TypeOK, LockInv, WriterInv
  <1>4. QueueInv' BY DEF TypeOK, QueueInv, Pending, CallInv, WriterInv
  <1>5. CallInv' BY DEF TypeOK, CallInv, QueueInv, Pending, WriterInv
  <1> QED BY <1>1, <1>2, <1>3, <1>4, <1>5

\* runTrafficWriter starts draining only after its context was cancelled.
LEMMA WriterCancelledKeeps ==
    ASSUME IInv, NEW w \in Writers, WriterCancelled(w) PROVE IInv'
  <1> USE QueueSizeAssumption, NoneAssumption DEF IInv, WriterCancelled, writerVars, callVars
  <1>1. TypeOK' BY DEF TypeOK, WriterPC, CallPC, Results, WriterInv
  <1>2. WriterInv' BY DEF TypeOK, WriterInv, Live, LockInv
  <1>3. LockInv' BY DEF TypeOK, LockInv, WriterInv
  <1>4. QueueInv' BY DEF TypeOK, QueueInv, Pending, CallInv, WriterInv
  <1>5. CallInv' BY DEF TypeOK, CallInv, QueueInv, Pending, WriterInv
  <1> QED BY <1>1, <1>2, <1>3, <1>4, <1>5

\* runTrafficWriter ends only with its channel empty.
LEMMA WriterExitKeeps ==
    ASSUME IInv, NEW w \in Writers, WriterExit(w) PROVE IInv'
  <1> USE QueueSizeAssumption, NoneAssumption DEF IInv, WriterExit, writerVars, callVars
  <1>1. TypeOK' BY DEF TypeOK, WriterPC, CallPC, Results, WriterInv
  <1>2. WriterInv' BY DEF TypeOK, WriterInv, Live, LockInv
  <1>3. LockInv' BY DEF TypeOK, LockInv, WriterInv
  <1>4. QueueInv' BY DEF TypeOK, QueueInv, Pending, CallInv, WriterInv
  <1>5. CallInv' BY DEF TypeOK, CallInv, QueueInv, Pending, WriterInv
  <1> QED BY <1>1, <1>2, <1>3, <1>4, <1>5

\* submitTrafficWrite without a writer to send to.
LEMMA SubmitInlineKeeps ==
    ASSUME IInv, NEW r \in Requests, SubmitInline(r) PROVE IInv'
  <1> USE QueueSizeAssumption, NoneAssumption DEF IInv, SubmitInline, RunsInline, writerVars, callVars
  <1>1. TypeOK' BY DEF TypeOK, WriterPC, CallPC, Results, WriterInv
  <1>2. WriterInv' BY DEF TypeOK, WriterInv, Live, LockInv
  <1>3. LockInv' BY DEF TypeOK, LockInv, WriterInv
  <1>4. QueueInv' BY DEF TypeOK, QueueInv, Pending, CallInv, WriterInv
  <1>5. CallInv' BY DEF TypeOK, CallInv, QueueInv, Pending, WriterInv
  <1> QED BY <1>1, <1>2, <1>3, <1>4, <1>5

\* submitTrafficWrite's send into a channel with room.
LEMMA SubmitEnqueueKeeps ==
    ASSUME IInv, NEW r \in Requests, SubmitEnqueue(r) PROVE IInv'
  <1> USE QueueSizeAssumption, NoneAssumption DEF IInv, SubmitEnqueue, RunsInline, Enqueue, writerVars, callVars
  <1>a. cur \in Writers /\ wpc[cur] \notin {"unborn", "exited"}
    BY DEF TypeOK, WriterInv, LockInv
  <1>b. /\ \A v \in Writers : r \notin Elements(queue[v]) /\ writing[v] # r
        /\ \A v \in Writers : v # cur => queue'[v] = queue[v]
        /\ queue'[cur] = Append(queue[cur], r)
        /\ queue[cur] \in Seq(Requests) /\ Len(queue[cur]) < QueueSize
    BY <1>a DEF TypeOK, QueueInv, Pending
  <1>c. /\ Elements(queue'[cur]) = Elements(queue[cur]) \cup {r}
        /\ Distinct(queue'[cur])
    BY <1>a, <1>b, AppendElements DEF QueueInv
  <1>1. TypeOK' BY <1>a, <1>b, AppendProperties DEF TypeOK, CallPC
  <1>2. WriterInv' BY <1>a, <1>b DEF TypeOK, WriterInv, Live
  <1>3. LockInv' BY DEF TypeOK, LockInv, WriterInv
  <1>4. QueueInv' BY <1>a, <1>b, <1>c DEF TypeOK, QueueInv, Pending, CallInv
  <1>5. CallInv' BY <1>a, <1>b, <1>c DEF TypeOK, CallInv, QueueInv, Pending
  <1> QED BY <1>1, <1>2, <1>3, <1>4, <1>5

\* submitTrafficWrite's send on a full channel starts to wait, with twMu.
LEMMA SubmitBlockKeeps ==
    ASSUME IInv, NEW r \in Requests, SubmitBlock(r) PROVE IInv'
  <1> USE QueueSizeAssumption, NoneAssumption DEF IInv, SubmitBlock, RunsInline, writerVars, callVars
  <1>1. TypeOK' BY DEF TypeOK, WriterPC, CallPC, Results, WriterInv
  <1>2. WriterInv' BY DEF TypeOK, WriterInv, Live, LockInv
  <1>3. LockInv' BY DEF TypeOK, LockInv, WriterInv
  <1>4. QueueInv' BY DEF TypeOK, QueueInv, Pending, CallInv, WriterInv
  <1>5. CallInv' BY DEF TypeOK, CallInv, QueueInv, Pending, WriterInv
  <1> QED BY <1>1, <1>2, <1>3, <1>4, <1>5

\* submitTrafficWrite's blocked send succeeds: its writer is still uncancelled.
LEMMA SubmitUnblockKeeps ==
    ASSUME IInv, NEW r \in Requests, SubmitUnblock(r) PROVE IInv'
  <1> USE QueueSizeAssumption, NoneAssumption DEF IInv, SubmitUnblock, Enqueue, writerVars, callVars
  <1>a. at[r] \in Writers /\ wpc[at[r]] \notin {"unborn", "exited"}
    BY DEF TypeOK, WriterInv, LockInv
  <1>b. /\ \A v \in Writers : r \notin Elements(queue[v]) /\ writing[v] # r
        /\ \A v \in Writers : v # at[r] => queue'[v] = queue[v]
        /\ queue'[at[r]] = Append(queue[at[r]], r)
        /\ queue[at[r]] \in Seq(Requests) /\ Len(queue[at[r]]) < QueueSize
    BY <1>a DEF TypeOK, QueueInv, Pending
  <1>c. /\ Elements(queue'[at[r]]) = Elements(queue[at[r]]) \cup {r}
        /\ Distinct(queue'[at[r]])
    BY <1>a, <1>b, AppendElements DEF QueueInv
  <1>1. TypeOK' BY <1>a, <1>b, AppendProperties DEF TypeOK, CallPC
  <1>2. WriterInv' BY <1>a, <1>b DEF TypeOK, WriterInv, Live
  <1>3. LockInv' BY DEF TypeOK, LockInv, WriterInv
  <1>4. QueueInv' BY <1>a, <1>b, <1>c DEF TypeOK, QueueInv, Pending, CallInv
  <1>5. CallInv' BY <1>a, <1>b, <1>c DEF TypeOK, CallInv, QueueInv, Pending
  <1> QED BY <1>1, <1>2, <1>3, <1>4, <1>5

\* submitTrafficWrite gives up on a full channel and has sent nothing.
LEMMA SubmitTimeoutKeeps ==
    ASSUME IInv, NEW r \in Requests, SubmitTimeout(r) PROVE IInv'
  <1> USE QueueSizeAssumption, NoneAssumption DEF IInv, SubmitTimeout, writerVars, callVars
  <1>1. TypeOK' BY DEF TypeOK, WriterPC, CallPC, Results, WriterInv
  <1>2. WriterInv' BY DEF TypeOK, WriterInv, Live, LockInv
  <1>3. LockInv' BY DEF TypeOK, LockInv, WriterInv
  <1>4. QueueInv' BY DEF TypeOK, QueueInv, Pending, CallInv, WriterInv
  <1>5. CallInv' BY DEF TypeOK, CallInv, QueueInv, Pending, WriterInv
  <1> QED BY <1>1, <1>2, <1>3, <1>4, <1>5

\* submitTrafficWrite's last select: the writer cannot have ended unreplied.
LEMMA SubmitReturnKeeps ==
    ASSUME IInv, NEW r \in Requests, SubmitReturn(r) PROVE IInv'
  <1> USE QueueSizeAssumption, NoneAssumption DEF IInv, SubmitReturn, Done, writerVars, callVars
  <1>a. r \in replied
    <2> SUFFICES ASSUME r \notin replied PROVE FALSE OBVIOUS
    <2>1. /\ at[r] \in Writers
          /\ wpc[at[r]] = "exited"
          /\ r \in Elements(queue[at[r]]) \/ writing[at[r]] = r
      BY DEF CallInv
    <2>2. queue[at[r]] = <<>> /\ writing[at[r]] = None BY <2>1 DEF WriterInv
    <2> QED BY <2>1, <2>2 DEF Elements
  <1>1. TypeOK' BY DEF TypeOK, WriterPC, CallPC, Results, WriterInv
  <1>2. WriterInv' BY DEF TypeOK, WriterInv, Live, LockInv
  <1>3. LockInv' BY DEF TypeOK, LockInv, WriterInv
  <1>4. QueueInv' BY <1>a DEF TypeOK, QueueInv, Pending
  <1>5. CallInv' BY <1>a DEF TypeOK, CallInv
  <1> QED BY <1>1, <1>2, <1>3, <1>4, <1>5

\* submitTrafficWrite's own safeApply.
LEMMA InlineApplyKeeps ==
    ASSUME IInv, NEW r \in Requests, InlineApply(r) PROVE IInv'
  <1> USE QueueSizeAssumption, NoneAssumption DEF IInv, InlineApply, writerVars, callVars
  <1>1. TypeOK' BY DEF TypeOK, WriterPC, CallPC, Results, WriterInv
  <1>2. WriterInv' BY DEF TypeOK, WriterInv, Live, LockInv
  <1>3. LockInv' BY DEF TypeOK, LockInv, WriterInv
  <1>4. QueueInv' BY DEF TypeOK, QueueInv, Pending, CallInv, WriterInv
  <1>5. CallInv' BY DEF TypeOK, CallInv, QueueInv, Pending, WriterInv
  <1> QED BY <1>1, <1>2, <1>3, <1>4, <1>5

\* submitTrafficWrite returns what its own safeApply returned.
LEMMA InlineReturnKeeps ==
    ASSUME IInv, NEW r \in Requests, InlineReturn(r) PROVE IInv'
  <1> USE QueueSizeAssumption, NoneAssumption DEF IInv, InlineReturn, writerVars, callVars
  <1>1. TypeOK' BY DEF TypeOK, WriterPC, CallPC, Results, WriterInv
  <1>2. WriterInv' BY DEF TypeOK, WriterInv, Live, LockInv
  <1>3. LockInv' BY DEF TypeOK, LockInv, WriterInv
  <1>4. QueueInv' BY DEF TypeOK, QueueInv, Pending, CallInv, WriterInv
  <1>5. CallInv' BY DEF TypeOK, CallInv, QueueInv, Pending, WriterInv
  <1> QED BY <1>1, <1>2, <1>3, <1>4, <1>5

-----------------------------------------------------------------------------
(***************************************************************************)
(* The theorems.                                                           *)
(***************************************************************************)

\* No step of a start, a stop, the writer or a call breaks IInv.
LEMMA NextKeeps == IInv /\ [Next]_vars => IInv'
  <1> SUFFICES ASSUME IInv, [Next]_vars PROVE IInv' OBVIOUS
  <1>1. CASE StartTrafficWriter BY <1>1, StartTrafficWriterKeeps
  <1>2. ASSUME NEW p \in Stoppers, StopCancel(p) \/ StopFinish(p) PROVE IInv'
    BY <1>2, StopCancelKeeps, StopFinishKeeps
  <1>3. ASSUME NEW w \in Writers, WriterStep(w) PROVE IInv'
    BY <1>3, WriterReceiveKeeps, WriterApplyKeeps, WriterCancelledKeeps, WriterExitKeeps
       DEF WriterStep
  <1>4. ASSUME NEW r \in Requests, SubmitBegin(r) PROVE IInv'
    BY <1>4, SubmitInlineKeeps, SubmitEnqueueKeeps, SubmitBlockKeeps DEF SubmitBegin
  <1>5. ASSUME NEW r \in Requests, SubmitStep(r) PROVE IInv'
    BY <1>5, SubmitUnblockKeeps, SubmitTimeoutKeeps, SubmitReturnKeeps,
       InlineApplyKeeps, InlineReturnKeeps DEF SubmitStep
  <1>6. CASE UNCHANGED vars
    BY <1>6 DEF vars, writerVars, callVars, IInv, TypeOK, WriterInv, Live, LockInv,
                QueueInv, Pending, CallInv
  <1> QED BY <1>1, <1>2, <1>3, <1>4, <1>5, <1>6 DEF Next

\* Before anything is started or submitted IInv holds.
LEMMA InitEstablishes == Init => IInv
  <1> SUFFICES ASSUME Init PROVE IInv OBVIOUS
  <1> USE QueueSizeAssumption, NoneAssumption DEF Init
  <1>1. TypeOK BY DEF TypeOK, WriterPC, CallPC, Results
  <1>2. WriterInv BY DEF WriterInv, Live
  <1>3. LockInv BY DEF LockInv
  <1>4. QueueInv BY DEF QueueInv, Distinct, Elements
  <1>5. CallInv BY DEF CallInv
  <1> QED BY <1>1, <1>2, <1>3, <1>4, <1>5 DEF IInv

\* IInv holds in every state the writer and its callers can reach.
THEOREM Inductive == Spec => []IInv
  BY InitEstablishes, NextKeeps, PTL DEF Spec

\* The state of traffic_writer.go is well typed and no channel overflows.
THEOREM TypeCorrect == Spec => []TypeOK
  <1>1. IInv => TypeOK BY DEF IInv
  <1> QED BY <1>1, Inductive, PTL

\* StartTrafficWriter and StopTrafficWriter never let two writers run.
THEOREM OneWriterHolds == Spec => []OneWriter
  <1>1. IInv => OneWriter BY DEF IInv, WriterInv, Live, OneWriter
  <1> QED BY <1>1, Inductive, PTL

\* submitTrafficWrite never reports that the writer stopped before its write.
THEOREM NeverAbandonedHolds == Spec => []NeverAbandoned
  <1>1. IInv => NeverAbandoned
    BY DEF IInv, TypeOK, CallPC, CallInv, NeverAbandoned
  <1> QED BY <1>1, Inductive, PTL

\* submitTrafficWrite's result is the truth: applied once, or never.
THEOREM ExactlyOnceHolds == Spec => []ExactlyOnce
  <1>1. ASSUME IInv PROVE ExactlyOnce
    <2> SUFFICES ASSUME NEW r \in Requests
                 PROVE  /\ applied[r] <= 1
                        /\ result[r] = "applied" => applied[r] = 1
                        /\ result[r] \in {"full", "stopped"} =>
                              /\ applied[r] = 0
                              /\ \A w \in Writers : writing[w] # r /\ r \notin Elements(queue[w])
      BY DEF ExactlyOnce
    <2>1. rpc[r] \in CallPC BY <1>1 DEF IInv, TypeOK
    <2>2. applied[r] \in {0, 1}
      BY <1>1, <2>1 DEF IInv, CallInv, QueueInv, Pending, CallPC
    <2>3. result[r] # "none" => rpc[r] = "returned"
      BY <1>1, <2>1 DEF IInv, CallInv, CallPC
    <2>4. rpc[r] = "returned" => \A w \in Writers : writing[w] # r /\ r \notin Elements(queue[w])
      BY <1>1 DEF IInv, QueueInv, Pending
    <2> QED BY <1>1, <2>2, <2>3, <2>4 DEF IInv, CallInv
  <1> QED BY <1>1, Inductive, PTL

-----------------------------------------------------------------------------
(***************************************************************************)
(* The refinement: a step of the protocol changes the promise of at most   *)
(* one call, and only along an edge of SerialWriter.                       *)
(***************************************************************************)

\* Where a call stands, as SerialWriter sees it.
Stage(r) ==
    CASE rpc[r] = "new" -> "new"
      [] rpc[r] = "returned" /\ result[r] = "applied" -> "told_applied"
      [] rpc[r] = "returned" /\ result[r] # "applied" -> "told_refused"
      [] OTHER -> IF applied[r] = 0 THEN "open" ELSE "applied"

Edges == {<<"new", "open">>, <<"open", "applied">>,
          <<"open", "told_refused">>, <<"applied", "told_applied">>}

\* A step that moves one call of submitTrafficWrite along an edge, and no other
\* call, is a step of SerialWriter.
LEMMA MoveIsAbstract ==
    ASSUME NEW r \in Requests, <<Stage(r), Stage(r)'>> \in Edges,
           \A q \in Requests \ {r} : Stage(q)' = Stage(q)
    PROVE  Abstract!Next
  <1>1. Promise = [q \in Requests |-> Stage(q)] BY DEF Promise, Stage
  <1>2. Promise' = [q \in Requests |-> Stage(q)'] BY DEF Promise, Stage
  <1>3. Promise' = [Promise EXCEPT ![r] = Stage(r)'] BY <1>1, <1>2
  <1>4. Promise[r] = Stage(r) BY <1>1
  <1> QED BY <1>3, <1>4 DEF Abstract!Next, Abstract!Move, Edges

\* A step that moves no call of submitTrafficWrite stutters in SerialWriter.
LEMMA StillIsStutter ==
    ASSUME \A q \in Requests : Stage(q)' = Stage(q)
    PROVE  Promise' = Promise
  <1>1. Promise = [q \in Requests |-> Stage(q)] BY DEF Promise, Stage
  <1>2. Promise' = [q \in Requests |-> Stage(q)'] BY DEF Promise, Stage
  <1> QED BY <1>1, <1>2

\* Every step of traffic_writer.go is a step of SerialWriter or a stutter.
LEMMA StepIsAbstract == IInv /\ [Next]_vars => [Abstract!Next]_Promise
  <1> SUFFICES ASSUME IInv, [Next]_vars PROVE Abstract!Next \/ Promise' = Promise OBVIOUS
  <1> USE DEF IInv, writerVars, callVars
  <1>1. ASSUME \/ StartTrafficWriter
               \/ \E p \in Stoppers : StopCancel(p) \/ StopFinish(p)
               \/ \E w \in Writers : WriterReceive(w) \/ WriterCancelled(w) \/ WriterExit(w)
               \/ UNCHANGED vars
        PROVE  Promise' = Promise
    <2>1. UNCHANGED <<rpc, result, applied>>
      BY <1>1 DEF StartTrafficWriter, StopCancel, StopFinish, WriterReceive, WriterCancelled,
                  WriterExit, vars
    <2> QED BY <2>1, StillIsStutter DEF Stage
  <1>2. ASSUME NEW w \in Writers, WriterApply(w) PROVE Abstract!Next
    <2>1. PICK r \in Requests : r = writing[w]
      BY <1>2 DEF WriterApply, TypeOK, WriterInv
    <2>2. rpc[r] = "waiting" /\ applied[r] = 0
      BY <2>1 DEF QueueInv, Pending
    <2>3. Stage(r) = "open" BY <2>2 DEF Stage
    <2>4. Stage(r)' = "applied" BY <1>2, <2>1, <2>2 DEF WriterApply, TypeOK, Stage
    <2>5. \A q \in Requests \ {r} : Stage(q)' = Stage(q)
      BY <1>2, <2>1 DEF WriterApply, TypeOK, Stage
    <2> QED BY <2>3, <2>4, <2>5, MoveIsAbstract DEF Edges
  <1>3. ASSUME NEW r \in Requests, SubmitBegin(r) PROVE Abstract!Next
    <2> USE <1>3 DEF SubmitBegin, SubmitInline, SubmitEnqueue, SubmitBlock
    <2>1. Stage(r) = "new" BY DEF Stage
    <2>2. Stage(r)' = "open" BY DEF TypeOK, CallInv, Stage
    <2>3. \A q \in Requests \ {r} : Stage(q)' = Stage(q) BY DEF TypeOK, Stage
    <2> QED BY <2>1, <2>2, <2>3, MoveIsAbstract DEF Edges
  <1>4. ASSUME NEW r \in Requests, SubmitUnblock(r) PROVE Promise' = Promise
    <2>1. \A q \in Requests : Stage(q)' = Stage(q)
      BY <1>4 DEF SubmitUnblock, TypeOK, Stage
    <2> QED BY <2>1, StillIsStutter
  <1>5. ASSUME NEW r \in Requests, SubmitTimeout(r) PROVE Abstract!Next
    <2> USE <1>5 DEF SubmitTimeout
    <2>1. Stage(r) = "open" BY DEF CallInv, Stage
    <2>2. Stage(r)' = "told_refused" BY DEF TypeOK, Stage
    <2>3. \A q \in Requests \ {r} : Stage(q)' = Stage(q) BY DEF TypeOK, Stage
    <2> QED BY <2>1, <2>2, <2>3, MoveIsAbstract DEF Edges
  <1>6. ASSUME NEW r \in Requests, SubmitReturn(r) PROVE Abstract!Next
    <2> USE <1>6 DEF SubmitReturn
    <2>1. r \in replied /\ applied[r] = 1
      <3>1. IInv' BY SubmitReturnKeeps
      <3>2. result'[r] # "stopped" BY <3>1 DEF TypeOK, CallInv
      <3> QED BY <3>2 DEF TypeOK, CallInv
    <2>2. Stage(r) = "applied" BY <2>1 DEF Stage
    <2>3. Stage(r)' = "told_applied" BY <2>1 DEF TypeOK, Stage
    <2>4. \A q \in Requests \ {r} : Stage(q)' = Stage(q) BY DEF TypeOK, Stage
    <2> QED BY <2>2, <2>3, <2>4, MoveIsAbstract DEF Edges
  <1>7. ASSUME NEW r \in Requests, InlineApply(r) PROVE Abstract!Next
    <2> USE <1>7 DEF InlineApply
    <2>1. Stage(r) = "open" BY DEF CallInv, Stage
    <2>2. Stage(r)' = "applied" BY DEF TypeOK, CallInv, Stage
    <2>3. \A q \in Requests \ {r} : Stage(q)' = Stage(q) BY DEF TypeOK, Stage
    <2> QED BY <2>1, <2>2, <2>3, MoveIsAbstract DEF Edges
  <1>8. ASSUME NEW r \in Requests, InlineReturn(r) PROVE Abstract!Next
    <2> USE <1>8 DEF InlineReturn
    <2>1. Stage(r) = "applied" BY DEF CallInv, Stage
    <2>2. Stage(r)' = "told_applied" BY DEF TypeOK, Stage
    <2>3. \A q \in Requests \ {r} : Stage(q)' = Stage(q) BY DEF TypeOK, Stage
    <2> QED BY <2>1, <2>2, <2>3, MoveIsAbstract DEF Edges
  <1> QED BY <1>1, <1>2, <1>3, <1>4, <1>5, <1>6, <1>7, <1>8
          DEF Next, WriterStep, SubmitStep

\* submitTrafficWrite keeps the promise of SerialWriter: no write is lost,
\* doubled or misreported, for any number of callers, starts and stops.
THEOREM Refinement == Spec => ImplementsSerialWriter
  <1>1. Init => Abstract!Init
    BY DEF Init, Abstract!Init, Promise
  <1>2. IInv /\ [Next]_vars => [Abstract!Next]_Promise BY StepIsAbstract
  <1> QED BY <1>1, <1>2, Inductive, PTL DEF Spec, ImplementsSerialWriter, Abstract!Spec
=============================================================================
