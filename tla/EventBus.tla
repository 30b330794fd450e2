------------------------------ MODULE EventBus ------------------------------
(* eventbus.Bus: Publish into a bounded channel, one dispatcher that fans out    *)
(* into a bounded queue per subscriber, one worker per subscriber, replacement   *)
(* of a subscriber by its id, and Stop. Events are numbered as they are accepted *)
(* by Publish.                                                                   *)
EXTENDS Naturals, Sequences

CONSTANTS
    Ids,          \* subscriber ids
    Workers,      \* subscribers ever created, with their workers
    BusSize,      \* capacity of Bus.ch
    QueueSize,    \* subscriberQueueSize
    MaxPublish    \* bound: events published

ASSUME BusSizeAssumption == BusSize \in Nat \ {0} /\ QueueSize \in Nat \ {0}
ASSUME MaxPublishAssumption == MaxPublish \in Nat

VARIABLES
    ch,          \* Bus.ch
    subs,        \* Bus.subs: the workers registered
    idOf,        \* the id a worker was subscribed with
    queue,       \* subscriber.queue
    quit,        \* subscriber.quit is closed
    wpc,         \* worker: "unborn", "select", "handler" or "exited"
    handling,    \* worker: the event its handler works on, the last one otherwise
    dispatcher,  \* dispatch: "select" or "exited"
    stopped,     \* Bus.stopped
    doneClosed,  \* Bus.done is closed
    stopper,     \* Stop: "idle", "locked", "wait" or "returned"
    published    \* bound and number: events accepted so far

subVars == <<subs, idOf, queue, quit>>
workVars == <<wpc, handling>>
stopVars == <<stopped, doneClosed, stopper>>
busVars == <<ch, subVars, workVars, dispatcher, stopVars, published>>

BusInit ==
    /\ ch = <<>> /\ subs = {} /\ idOf \in [Workers -> Ids]
    /\ queue = [w \in Workers |-> <<>>] /\ quit = [w \in Workers |-> FALSE]
    /\ wpc = [w \in Workers |-> "unborn"] /\ handling = [w \in Workers |-> 0]
    /\ dispatcher = "select"
    /\ stopped = FALSE /\ doneClosed = FALSE /\ stopper = "idle"
    /\ published = 0

(* Faulty variant: Subscribe does not look at stopped.                           *)
AlwaysOpen == TRUE

StillOpen == ~stopped

(* Subscribe: a subscriber with the same id is replaced and told to quit.        *)
Subscribe(w) ==
    /\ StillOpen
    /\ wpc[w] = "unborn"
    /\ LET old == {v \in subs : idOf[v] = idOf[w]}
       IN  /\ subs' = (subs \ old) \cup {w}
           /\ quit' = [v \in Workers |-> quit[v] \/ v \in old]
    /\ wpc' = [wpc EXCEPT ![w] = "select"]
    /\ UNCHANGED <<ch, idOf, queue, handling, dispatcher, stopVars, published>>

Unsubscribe(w) ==
    /\ w \in subs
    /\ subs' = subs \ {w}
    /\ quit' = [quit EXCEPT ![w] = TRUE]
    /\ UNCHANGED <<ch, idOf, queue, workVars, dispatcher, stopVars, published>>

(* Publish never blocks; the event is dropped when the channel is full.          *)
Publish ==
    /\ published < MaxPublish
    /\ Len(ch) < BusSize
    /\ ch' = Append(ch, published + 1)
    /\ published' = published + 1
    /\ UNCHANGED <<subVars, workVars, dispatcher, stopVars>>

(* Faulty variant: an event that found a full queue is sent to the bus again.    *)
DispatchRetries ==
    /\ dispatcher = "select" /\ ch # <<>>
    /\ ch' = IF \E w \in subs : Len(queue[w]) >= QueueSize THEN Append(Tail(ch), Head(ch)) ELSE Tail(ch)
    /\ queue' = [w \in Workers |-> IF w \in subs /\ Len(queue[w]) < QueueSize
                                   THEN Append(queue[w], Head(ch)) ELSE queue[w]]
    /\ UNCHANGED <<subs, idOf, quit, workVars, dispatcher, stopVars, published>>

(* dispatch: one event to every subscriber under the read lock; a full queue     *)
(* drops it for that subscriber only.                                            *)
Dispatch ==
    /\ dispatcher = "select" /\ ch # <<>>
    /\ ch' = Tail(ch)
    /\ queue' = [w \in Workers |-> IF w \in subs /\ Len(queue[w]) < QueueSize
                                   THEN Append(queue[w], Head(ch)) ELSE queue[w]]
    /\ UNCHANGED <<subs, idOf, quit, workVars, dispatcher, stopVars, published>>

DispatchExits ==
    /\ dispatcher = "select" /\ doneClosed
    /\ dispatcher' = "exited"
    /\ UNCHANGED <<ch, subVars, workVars, stopVars, published>>

(* runWorker: the select takes any case that is ready, so a worker told to quit  *)
(* may still handle what is queued.                                              *)
WorkerTakes(w) ==
    /\ wpc[w] = "select" /\ queue[w] # <<>>
    /\ queue' = [queue EXCEPT ![w] = Tail(@)]
    /\ handling' = [handling EXCEPT ![w] = Head(queue[w])]
    /\ wpc' = [wpc EXCEPT ![w] = "handler"]
    /\ UNCHANGED <<ch, subs, idOf, quit, dispatcher, stopVars, published>>

(* safeCall returns, also after a panic.                                         *)
HandlerReturns(w) ==
    /\ wpc[w] = "handler"
    /\ wpc' = [wpc EXCEPT ![w] = "select"]
    /\ UNCHANGED <<ch, subVars, handling, dispatcher, stopVars, published>>

(* Faulty variant: the worker waits for its quit channel only.                   *)
ToldToQuit(w) == quit[w]

ToldToExit(w) == quit[w] \/ doneClosed

WorkerExits(w) ==
    /\ wpc[w] = "select" /\ ToldToExit(w)
    /\ wpc' = [wpc EXCEPT ![w] = "exited"]
    /\ UNCHANGED <<ch, subVars, handling, dispatcher, stopVars, published>>

(* Stop: stopped under the lock, then done is closed, then wg.Wait.              *)
StopLocks ==
    /\ stopper = "idle"
    /\ stopped' = TRUE /\ stopper' = "locked"
    /\ UNCHANGED <<ch, subVars, workVars, dispatcher, doneClosed, published>>

StopCloses ==
    /\ stopper = "locked"
    /\ doneClosed' = TRUE /\ stopper' = "wait"
    /\ UNCHANGED <<ch, subVars, workVars, dispatcher, stopped, published>>

AllGone == dispatcher = "exited" /\ \A w \in Workers : wpc[w] \in {"unborn", "exited"}

StopReturns ==
    /\ stopper = "wait" /\ AllGone
    /\ stopper' = "returned"
    /\ UNCHANGED <<ch, subVars, workVars, dispatcher, stopped, doneClosed, published>>

WorkerSteps(w) == WorkerTakes(w) \/ HandlerReturns(w) \/ WorkerExits(w)

BusNext ==
    \/ Publish \/ Dispatch \/ DispatchExits \/ StopLocks \/ StopCloses \/ StopReturns
    \/ \E w \in Workers : Subscribe(w) \/ Unsubscribe(w) \/ WorkerSteps(w)

(* Goroutines run; handlers return (their network calls have timeouts). A select *)
(* with several ready cases takes each of them at last.                          *)
BusFairness ==
    /\ WF_busVars(Dispatch \/ DispatchExits)
    /\ WF_busVars(StopCloses \/ StopReturns)
    /\ \A w \in Workers : WF_busVars(WorkerSteps(w))

BusSpec == BusInit /\ [][BusNext]_busVars /\ BusFairness

-----------------------------------------------------------------------------
(* Types of the state of eventbus.Bus.                                           *)
BusTypeOK ==
    /\ ch \in Seq(1 .. MaxPublish) /\ Len(ch) <= BusSize
    /\ subs \subseteq Workers /\ idOf \in [Workers -> Ids]
    /\ queue \in [Workers -> Seq(1 .. MaxPublish)]
    /\ \A w \in Workers : Len(queue[w]) <= QueueSize
    /\ quit \in [Workers -> BOOLEAN]
    /\ wpc \in [Workers -> {"unborn", "select", "handler", "exited"}]
    /\ handling \in [Workers -> 0 .. MaxPublish]
    /\ dispatcher \in {"select", "exited"}
    /\ stopped \in BOOLEAN /\ doneClosed \in BOOLEAN
    /\ stopper \in {"idle", "locked", "wait", "returned"}
    /\ published \in 0 .. MaxPublish

(* A subscriber observes events in publication order and none twice, whatever    *)
(* was dropped on the way (runWorker): what it handled, what is queued for it    *)
(* and what is still in the channel are strictly increasing, end to end.         *)
InPublicationOrder ==
    \A w \in Workers :
        LET way == <<handling[w]>> \o queue[w] \o ch
        IN  \A i, j \in DOMAIN way : i < j => way[i] < way[j]

(* After Stop has returned no handler runs and no goroutine of the bus lives,    *)
(* although Subscribe and Publish may still be called.                           *)
QuietAfterStop == stopper = "returned" => AllGone

(* Stop returns: every worker leaves after the handler it is in, also one that   *)
(* was replaced or has a full queue.                                             *)
BusStopReturns == stopper = "locked" ~> stopper = "returned"
=============================================================================
