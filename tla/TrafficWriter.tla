--------------------------- MODULE TrafficWriter ---------------------------
(***************************************************************************)
(* The serial traffic writer of internal/web/service/traffic_writer.go.    *)
(*                                                                         *)
(* Every database mutation that touches the hot inbounds/client_traffics   *)
(* rows is handed to one goroutine through a bounded channel.  The package *)
(* variables twQueue, twCtx, twCancel and twDone are set and cleared       *)
(* together under twMu, so they are one variable here: cur, the writer     *)
(* goroutine they belong to, or None.                                      *)
(*                                                                         *)
(* A section the code runs under twMu without blocking is one action       *)
(* guarded by mu = None.  The only section that blocks while it holds twMu *)
(* is the send of submitTrafficWrite on a full channel: mu names its       *)
(* holder meanwhile.                                                       *)
(***************************************************************************)
EXTENDS Naturals, Sequences

CONSTANTS
    Requests,    \* calls of submitTrafficWrite, each with its own request
    Writers,     \* goroutines StartTrafficWriter may spawn
    Stoppers,    \* goroutines that call StopTrafficWriter, any number of times
    QueueSize,   \* trafficWriterQueueSize
    None

ASSUME QueueSizeAssumption == QueueSize \in Nat \ {0}
ASSUME NoneAssumption == None \notin Requests \cup Writers

VARIABLES
    mu,          \* the call that blocks on a full channel with twMu held, or None
    cur,         \* the writer twQueue/twCtx/twCancel/twDone belong to, or None
    wpc,         \* where each writer goroutine is
    cancelled,   \* the writers whose context is cancelled
    queue,       \* each writer's channel
    writing,     \* the request each writer is applying, or None
    rpc,         \* where each call is
    at,          \* the writer a call captured, or None
    replied,     \* the calls whose req.done holds a value
    applied,     \* how often each call's function has run to its end
    result,      \* what each call returned
    stopping     \* the writer each stopper waits for, or None

writerVars == <<wpc, cancelled, queue, writing>>
callVars   == <<rpc, at, replied, applied, result>>
vars == <<mu, cur, writerVars, callVars, stopping>>

WriterPC == {"unborn", "select", "apply", "drain", "drainApply", "exited"}
CallPC   == {"new", "blocked", "waiting", "inline", "inlined", "returned"}
Results  == {"none", "applied", "full", "stopped"}

Init ==
    /\ mu = None
    /\ cur = None
    /\ wpc = [w \in Writers |-> "unborn"]
    /\ cancelled = {}
    /\ queue = [w \in Writers |-> <<>>]
    /\ writing = [w \in Writers |-> None]
    /\ rpc = [r \in Requests |-> "new"]
    /\ at = [r \in Requests |-> None]
    /\ replied = {}
    /\ applied = [r \in Requests |-> 0]
    /\ result = [r \in Requests |-> "none"]
    /\ stopping = [p \in Stoppers |-> None]

(***************************************************************************)
(* Start and stop.                                                         *)
(***************************************************************************)

\* twDone is closed: the goroutine has left runTrafficWriter.
Done(w) == wpc[w] = "exited"

\* Faulty variant: a start needs only the cancellation, not the end of the drain.
StartBeforeDone ==
    /\ mu = None
    /\ cur # None => cur \in cancelled
    /\ \E w \in Writers :
        /\ wpc[w] = "unborn"
        /\ wpc' = [wpc EXCEPT ![w] = "select"]
        /\ cur' = w
    /\ UNCHANGED <<mu, cancelled, queue, writing, callVars, stopping>>

\* Returns without effect while the previous writer has not finished.
StartTrafficWriter ==
    /\ mu = None
    /\ cur # None => Done(cur)
    /\ \E w \in Writers :
        /\ wpc[w] = "unborn"
        /\ wpc' = [wpc EXCEPT ![w] = "select"]
        /\ cur' = w
    /\ UNCHANGED <<mu, cancelled, queue, writing, callVars, stopping>>

\* The first locked section: cancel the context, then wait outside the lock.
StopCancel(p) ==
    /\ stopping[p] = None
    /\ mu = None
    /\ cur # None
    /\ cancelled' = cancelled \cup {cur}
    /\ stopping' = [stopping EXCEPT ![p] = cur]
    /\ UNCHANGED <<mu, cur, wpc, queue, writing, callVars>>

\* The second locked section, after <-done.  Another stop, or a start, may
\* have replaced the package state: it is cleared only if it is still ours.
StopFinish(p) ==
    /\ stopping[p] # None
    /\ Done(stopping[p])
    /\ mu = None
    /\ cur' = IF cur = stopping[p] THEN None ELSE cur
    /\ stopping' = [stopping EXCEPT ![p] = None]
    /\ UNCHANGED <<mu, writerVars, callVars>>

(***************************************************************************)
(* runTrafficWriter.  Go's select takes either ready case, so the writer   *)
(* may go on receiving after its context is cancelled.                     *)
(***************************************************************************)

WriterReceive(w) ==
    /\ wpc[w] \in {"select", "drain"}
    /\ queue[w] # <<>>
    /\ writing' = [writing EXCEPT ![w] = Head(queue[w])]
    /\ queue' = [queue EXCEPT ![w] = Tail(queue[w])]
    /\ wpc' = [wpc EXCEPT ![w] = IF wpc[w] = "select" THEN "apply" ELSE "drainApply"]
    /\ UNCHANGED <<mu, cur, cancelled, callVars, stopping>>

\* Faulty variant: the reply is forgotten, as when a panic is not recovered.
WriterApplyNoReply(w) ==
    /\ wpc[w] \in {"apply", "drainApply"}
    /\ applied' = [applied EXCEPT ![writing[w]] = @ + 1]
    /\ writing' = [writing EXCEPT ![w] = None]
    /\ wpc' = [wpc EXCEPT ![w] = IF wpc[w] = "apply" THEN "select" ELSE "drain"]
    /\ UNCHANGED <<mu, cur, cancelled, queue, rpc, at, replied, result, stopping>>

\* safeApply returns, with an error or not, and req.done (capacity 1) takes it.
WriterApply(w) ==
    /\ wpc[w] \in {"apply", "drainApply"}
    /\ LET r == writing[w] IN
        /\ applied' = [applied EXCEPT ![r] = @ + 1]
        /\ replied' = replied \cup {r}
    /\ writing' = [writing EXCEPT ![w] = None]
    /\ wpc' = [wpc EXCEPT ![w] = IF wpc[w] = "apply" THEN "select" ELSE "drain"]
    /\ UNCHANGED <<mu, cur, cancelled, queue, rpc, at, result, stopping>>

WriterCancelled(w) ==
    /\ wpc[w] = "select"
    /\ w \in cancelled
    /\ wpc' = [wpc EXCEPT ![w] = "drain"]
    /\ UNCHANGED <<mu, cur, cancelled, queue, writing, callVars, stopping>>

\* Faulty variant: the drained writer goes back to its select.
WriterExitLoops(w) ==
    /\ wpc[w] = "drain"
    /\ queue[w] = <<>>
    /\ wpc' = [wpc EXCEPT ![w] = "select"]
    /\ UNCHANGED <<mu, cur, cancelled, queue, writing, callVars, stopping>>

WriterExit(w) ==
    /\ wpc[w] = "drain"
    /\ queue[w] = <<>>
    /\ wpc' = [wpc EXCEPT ![w] = "exited"]
    /\ UNCHANGED <<mu, cur, cancelled, queue, writing, callVars, stopping>>

(***************************************************************************)
(* submitTrafficWrite.                                                     *)
(***************************************************************************)

\* No writer, or one that is being stopped: the caller applies the write itself.
RunsInline == cur = None \/ cur \in cancelled

SubmitInline(r) ==
    /\ rpc[r] = "new"
    /\ mu = None
    /\ RunsInline
    /\ rpc' = [rpc EXCEPT ![r] = "inline"]
    /\ UNCHANGED <<mu, cur, writerVars, at, replied, applied, result, stopping>>

\* Faulty variant: an unbounded queue in place of the channel.
EnqueueUnbounded(w, r) ==
    queue' = [queue EXCEPT ![w] = Append(@, r)]

Enqueue(w, r) ==
    /\ Len(queue[w]) < QueueSize
    /\ queue' = [queue EXCEPT ![w] = Append(@, r)]

SubmitEnqueue(r) ==
    /\ rpc[r] = "new"
    /\ mu = None
    /\ ~RunsInline
    /\ Enqueue(cur, r)
    /\ at' = [at EXCEPT ![r] = cur]
    /\ rpc' = [rpc EXCEPT ![r] = "waiting"]
    /\ UNCHANGED <<mu, cur, wpc, cancelled, writing, replied, applied, result, stopping>>

\* Faulty variant: twMu is released before the blocking send.
SubmitBlockUnlocked(r) ==
    /\ rpc[r] = "new"
    /\ mu = None
    /\ ~RunsInline
    /\ Len(queue[cur]) >= QueueSize
    /\ at' = [at EXCEPT ![r] = cur]
    /\ rpc' = [rpc EXCEPT ![r] = "blocked"]
    /\ UNCHANGED <<mu, cur, writerVars, replied, applied, result, stopping>>

\* The channel is full: wait for room or for the timer, with twMu held.
SubmitBlock(r) ==
    /\ rpc[r] = "new"
    /\ mu = None
    /\ ~RunsInline
    /\ Len(queue[cur]) >= QueueSize
    /\ mu' = r
    /\ at' = [at EXCEPT ![r] = cur]
    /\ rpc' = [rpc EXCEPT ![r] = "blocked"]
    /\ UNCHANGED <<cur, writerVars, replied, applied, result, stopping>>

SubmitUnblock(r) ==
    /\ rpc[r] = "blocked"
    /\ Enqueue(at[r], r)
    /\ mu' = None
    /\ rpc' = [rpc EXCEPT ![r] = "waiting"]
    /\ UNCHANGED <<cur, wpc, cancelled, writing, at, replied, applied, result, stopping>>

\* Faulty variant: the request is left for the writer although the call fails.
SubmitTimeoutQueued(r) ==
    /\ rpc[r] = "blocked"
    /\ Enqueue(at[r], r)
    /\ mu' = None
    /\ rpc' = [rpc EXCEPT ![r] = "returned"]
    /\ result' = [result EXCEPT ![r] = "full"]
    /\ UNCHANGED <<cur, wpc, cancelled, writing, at, replied, applied, stopping>>

\* trafficWriterSubmitTimeout: "traffic writer queue full".
SubmitTimeout(r) ==
    /\ rpc[r] = "blocked"
    /\ mu' = None
    /\ rpc' = [rpc EXCEPT ![r] = "returned"]
    /\ result' = [result EXCEPT ![r] = "full"]
    /\ UNCHANGED <<cur, writerVars, at, replied, applied, stopping>>

\* Faulty variant: the call returns as soon as the request is queued.
SubmitReturnEarly(r) ==
    /\ rpc[r] = "waiting"
    /\ rpc' = [rpc EXCEPT ![r] = "returned"]
    /\ result' = [result EXCEPT ![r] = "applied"]
    /\ UNCHANGED <<mu, cur, writerVars, at, replied, applied, stopping>>

\* The final select: a reply wins over <-done; <-done with nothing in req.done
\* is "traffic writer stopped before write completed".
SubmitReturn(r) ==
    /\ rpc[r] = "waiting"
    /\ r \in replied \/ Done(at[r])
    /\ rpc' = [rpc EXCEPT ![r] = "returned"]
    /\ result' = [result EXCEPT ![r] = IF r \in replied THEN "applied" ELSE "stopped"]
    /\ UNCHANGED <<mu, cur, writerVars, at, replied, applied, stopping>>

InlineApply(r) ==
    /\ rpc[r] = "inline"
    /\ applied' = [applied EXCEPT ![r] = @ + 1]
    /\ rpc' = [rpc EXCEPT ![r] = "inlined"]
    /\ UNCHANGED <<mu, cur, writerVars, at, replied, result, stopping>>

InlineReturn(r) ==
    /\ rpc[r] = "inlined"
    /\ rpc' = [rpc EXCEPT ![r] = "returned"]
    /\ result' = [result EXCEPT ![r] = "applied"]
    /\ UNCHANGED <<mu, cur, writerVars, at, replied, applied, stopping>>

-----------------------------------------------------------------------------

WriterStep(w) ==
    WriterReceive(w) \/ WriterApply(w) \/ WriterCancelled(w) \/ WriterExit(w)

SubmitBegin(r) == SubmitInline(r) \/ SubmitEnqueue(r) \/ SubmitBlock(r)

SubmitStep(r) ==
    \/ SubmitUnblock(r) \/ SubmitTimeout(r) \/ SubmitReturn(r)
    \/ InlineApply(r) \/ InlineReturn(r)

Next ==
    \/ StartTrafficWriter
    \/ \E p \in Stoppers : StopCancel(p) \/ StopFinish(p)
    \/ \E w \in Writers : WriterStep(w)
    \/ \E r \in Requests : SubmitBegin(r) \/ SubmitStep(r)

Spec == Init /\ [][Next]_vars

\* Goroutines the Go scheduler keeps running: a spawned writer, a call that has
\* begun (its timer fires, its function returns) and a stop that has begun.
\* Nobody is obliged to call Start, Stop or submitTrafficWrite.
Fairness ==
    /\ \A w \in Writers : WF_vars(WriterStep(w))
    /\ \A r \in Requests : WF_vars(SubmitStep(r))
    /\ \A p \in Stoppers : WF_vars(StopFinish(p))

FairSpec == Spec /\ Fairness

-----------------------------------------------------------------------------

Elements(s) == {s[i] : i \in DOMAIN s}

TypeOK ==
    /\ mu \in Requests \cup {None}
    /\ cur \in Writers \cup {None}
    /\ wpc \in [Writers -> WriterPC]
    /\ cancelled \subseteq Writers
    /\ queue \in [Writers -> Seq(Requests)]
    /\ \A w \in Writers : Len(queue[w]) <= QueueSize
    /\ writing \in [Writers -> Requests \cup {None}]
    /\ rpc \in [Requests -> CallPC]
    /\ at \in [Requests -> Writers \cup {None}]
    /\ replied \subseteq Requests
    /\ applied \in [Requests -> Nat]
    /\ result \in [Requests -> Results]
    /\ stopping \in [Stoppers -> Writers \cup {None}]

\* A write whose caller is told "applied" ran exactly once; one refused never
\* ran and is in no channel, so it never will (submitTrafficWrite's results).
ExactlyOnce ==
    \A r \in Requests :
        /\ applied[r] <= 1
        /\ result[r] = "applied" => applied[r] = 1
        /\ result[r] \in {"full", "stopped"} =>
              /\ applied[r] = 0
              /\ \A w \in Writers : writing[w] # r /\ r \notin Elements(queue[w])

\* "traffic writer stopped before write completed" is never returned: the
\* context check and the send are one locked section, and cancelling needs the
\* lock, so everything accepted is in the channel before the writer drains it.
NeverAbandoned == \A r \in Requests : result[r] # "stopped"

\* StartTrafficWriter never spawns a second writer beside one that still runs,
\* however starts and stops overlap.
OneWriter ==
    \A v, w \in Writers :
        (wpc[v] \notin {"unborn", "exited"} /\ wpc[w] \notin {"unborn", "exited"}) => v = w

\* A call that has begun returns, whatever is started or stopped meanwhile.
EveryCallReturns == \A r \in Requests : (rpc[r] # "new") ~> (rpc[r] = "returned")

\* StopTrafficWriter returns: the drain ends although callers keep arriving.
EveryStopReturns == \A p \in Stoppers : (stopping[p] # None) ~> (stopping[p] = None)

\* The calls whose function is running at this moment.
Applying ==
    {r \in Requests : rpc[r] = "inline"}
        \cup {writing[w] : w \in {v \in Writers : writing[v] # None}}

\* What runSerializedTx says of the writes it submits: one "can never execute
\* concurrently with" another.  The inline path makes it false during a stop.
Serialized == \A r, s \in Applying : r = s

-----------------------------------------------------------------------------
\* The promise of SerialWriter that this protocol keeps.
Promise ==
    [r \in Requests |->
        CASE rpc[r] = "new" -> "new"
          [] rpc[r] = "returned" /\ result[r] = "applied" -> "told_applied"
          [] rpc[r] = "returned" /\ result[r] # "applied" -> "told_refused"
          [] OTHER -> IF applied[r] = 0 THEN "open" ELSE "applied"]

Abstract == INSTANCE SerialWriter WITH promise <- Promise

\* The protocol implements SerialWriter: no lost, doubled or misreported write.
ImplementsSerialWriter == Abstract!Spec
=============================================================================
