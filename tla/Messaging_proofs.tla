-------------------------- MODULE Messaging_proofs --------------------------
(* Proofs about the two fan-outs of the panel, for any number of subscribers,   *)
(* connections and messages and any queue sizes: the event bus keeps the order  *)
(* of publication and is silent after Stop; the websocket hub leaves no gap in  *)
(* what a browser gets and no entry of one that has gone.                       *)
EXTENDS EventBus, WsHub, SequenceTheorems, TLAPS

-----------------------------------------------------------------------------
(* Sequences that only grow: every element is smaller than the later ones.      *)
Increasing(s) == \A i, j \in 1 .. Len(s) : i < j => s[i] < s[j]
Above(s, n) == \A i \in 1 .. Len(s) : n < s[i]
UpTo(s, n) == \A i \in 1 .. Len(s) : s[i] <= n

(* The head of an increasing sequence is below its tail.                        *)
LEMMA TailOfIncreasing ==
  ASSUME NEW s \in Seq(Nat), s # <<>>, Increasing(s)
  PROVE  /\ Tail(s) \in Seq(Nat) /\ Head(s) \in Nat
         /\ Len(Tail(s)) = Len(s) - 1
         /\ Head(s) = s[1] /\ 1 \in 1 .. Len(s)
         /\ \A i \in 1 .. Len(Tail(s)) : i + 1 \in 1 .. Len(s) /\ Tail(s)[i] = s[i + 1]
         /\ Increasing(Tail(s)) /\ Above(Tail(s), Head(s))
  <1>1. /\ Tail(s) \in Seq(Nat) /\ Head(s) \in Nat /\ Len(s) \in Nat \ {0}
        /\ Len(Tail(s)) = Len(s) - 1 /\ Head(s) = s[1]
        /\ \A i \in 1 .. Len(Tail(s)) : i + 1 \in 1 .. Len(s) /\ Tail(s)[i] = s[i + 1]
    BY HeadTailProperties, LenProperties, EmptySeq
  <1>2. Increasing(Tail(s))
    <2> SUFFICES ASSUME NEW i \in 1 .. Len(Tail(s)), NEW j \in 1 .. Len(Tail(s)), i < j
                 PROVE  Tail(s)[i] < Tail(s)[j]
      BY DEF Increasing
    <2>1. i + 1 \in 1 .. Len(s) /\ j + 1 \in 1 .. Len(s) /\ i + 1 < j + 1 BY <1>1
    <2> QED BY <1>1, <2>1 DEF Increasing
  <1>3. Above(Tail(s), Head(s))
    <2> SUFFICES ASSUME NEW i \in 1 .. Len(Tail(s)) PROVE Head(s) < Tail(s)[i]
      BY DEF Above
    <2>1. i + 1 \in 1 .. Len(s) /\ 1 \in 1 .. Len(s) /\ 1 < i + 1 BY <1>1
    <2> QED BY <1>1, <2>1 DEF Increasing
  <1> QED BY <1>1, <1>2, <1>3

(* Appending something greater keeps a sequence increasing.                     *)
LEMMA AppendGreater ==
  ASSUME NEW s \in Seq(Nat), NEW n \in Nat, Increasing(s), \A i \in 1 .. Len(s) : s[i] < n
  PROVE  /\ Append(s, n) \in Seq(Nat) /\ Increasing(Append(s, n))
         /\ Len(Append(s, n)) = Len(s) + 1 /\ Append(s, n)[Len(s) + 1] = n
         /\ \A i \in 1 .. Len(s) : Append(s, n)[i] = s[i]
  <1>1. /\ Append(s, n) \in Seq(Nat) /\ Len(s) \in Nat
        /\ Len(Append(s, n)) = Len(s) + 1 /\ Append(s, n)[Len(s) + 1] = n
        /\ \A i \in 1 .. Len(s) : Append(s, n)[i] = s[i]
    BY AppendProperties, LenProperties
  <1>2. Increasing(Append(s, n))
    <2> SUFFICES ASSUME NEW i \in 1 .. Len(s) + 1, NEW j \in 1 .. Len(s) + 1, i < j
                 PROVE  Append(s, n)[i] < Append(s, n)[j]
      BY <1>1 DEF Increasing
    <2>1. i \in 1 .. Len(s) BY <1>1
    <2>2. CASE j = Len(s) + 1 BY <1>1, <2>1, <2>2
    <2>3. CASE j \in 1 .. Len(s) BY <1>1, <2>1, <2>3 DEF Increasing
    <2> QED BY <2>2, <2>3, <1>1
  <1> QED BY <1>1, <1>2

-----------------------------------------------------------------------------
(* The event bus. Types without the bound on the numbers.                       *)
BusTypes ==
    /\ ch \in Seq(Nat) /\ queue \in [Workers -> Seq(Nat)]
    /\ handling \in [Workers -> Nat] /\ published \in Nat
    /\ subs \subseteq Workers /\ idOf \in [Workers -> Ids] /\ quit \in [Workers -> BOOLEAN]
    /\ wpc \in [Workers -> {"unborn", "select", "handler", "exited"}]
    /\ dispatcher \in {"select", "exited"}
    /\ stopped \in BOOLEAN /\ doneClosed \in BOOLEAN
    /\ stopper \in {"idle", "locked", "wait", "returned"}

(* What is on the way of a worker w: the event it handles, its queue, the channel. *)
WayInv(w) ==
    /\ Increasing(queue[w]) /\ UpTo(queue[w], published) /\ handling[w] <= published
    /\ Above(queue[w], handling[w]) /\ Above(ch, handling[w])
    /\ \A i \in 1 .. Len(queue[w]), j \in 1 .. Len(ch) : queue[w][i] < ch[j]

(* Order is kept by all queues at once: a worker's queue lies between what it    *)
(* handles and what the dispatcher has still to give out.                       *)
OrderInv ==
    /\ Increasing(ch) /\ UpTo(ch, published)
    /\ \A w \in Workers : WayInv(w)

(* Stop goes through its states in order, and nothing is born after it.         *)
StopInv ==
    /\ stopper # "idle" => stopped
    /\ stopper = "returned" => AllGone

BusIInv == BusTypes /\ OrderInv /\ StopInv

LEMMA BusInitial == BusInit => BusIInv
  <1> SUFFICES ASSUME BusInit PROVE BusIInv OBVIOUS
  <1>1. BusTypes
    <2>1. <<>> \in Seq(Nat) BY EmptySeq
    <2> QED BY <2>1 DEF BusInit, BusTypes
  <1>2. OrderInv
    BY EmptySeq DEF BusInit, OrderInv, WayInv, Increasing, Above, UpTo
  <1>3. StopInv BY DEF BusInit, StopInv
  <1> QED BY <1>1, <1>2, <1>3 DEF BusIInv

(* Publish: the new number is above all others.                                 *)
LEMMA PublishKeeps == ASSUME BusIInv, Publish PROVE BusIInv'
  <1> USE DEF BusIInv
  <1>0. \A i \in 1 .. Len(ch) : ch[i] \in Nat /\ ch[i] < published + 1
    BY ElementOfSeq DEF BusTypes, OrderInv, UpTo
  <1>1. /\ ch' \in Seq(Nat) /\ Increasing(ch)' /\ Len(ch') = Len(ch) + 1
        /\ ch'[Len(ch) + 1] = published + 1 /\ \A i \in 1 .. Len(ch) : ch'[i] = ch[i]
    BY <1>0, AppendGreater DEF BusTypes, OrderInv, Publish, Increasing
  <1>2. BusTypes' BY <1>1 DEF BusTypes, Publish, subVars, workVars, stopVars
  <1>3. Len(ch) \in Nat BY LenProperties DEF BusTypes
  <1>4. UpTo(ch, published)'
    BY <1>0, <1>1, <1>3 DEF BusTypes, Publish, UpTo
  <1>5. ASSUME NEW w \in Workers PROVE WayInv(w)'
    <2>0. /\ queue' = queue /\ handling' = handling /\ published' = published + 1
          /\ queue[w] \in Seq(Nat) /\ handling[w] \in Nat /\ published \in Nat
      BY DEF Publish, subVars, workVars, BusTypes
    <2>1. \A i \in 1 .. Len(queue[w]) : queue[w][i] \in Nat BY <2>0, ElementOfSeq
    <2>2. WayInv(w) BY DEF OrderInv
    <2>3. (Increasing(queue[w]) /\ UpTo(queue[w], published) /\ handling[w] <= published)'
      BY <2>0, <2>1, <2>2 DEF WayInv, Increasing, UpTo
    <2>4. Above(queue[w], handling[w])' BY <2>0, <2>2 DEF WayInv, Above
    <2>5. Above(ch, handling[w])' BY <2>0, <2>2, <1>1, <1>3 DEF WayInv, Above
    <2>6. ASSUME NEW i \in 1 .. Len(queue[w]), NEW j \in 1 .. Len(ch') PROVE queue[w][i] < ch'[j]
      <3>1. CASE j \in 1 .. Len(ch) BY <2>2, <1>1, <3>1 DEF WayInv
      <3>2. CASE j = Len(ch) + 1 BY <2>0, <2>1, <2>2, <1>1, <3>2 DEF WayInv, UpTo
      <3> QED BY <1>1, <1>3, <3>1, <3>2
    <2> QED BY <2>0, <2>3, <2>4, <2>5, <2>6 DEF WayInv
  <1>6. StopInv' BY DEF StopInv, AllGone, Publish, subVars, workVars, stopVars
  <1> QED BY <1>1, <1>2, <1>4, <1>5, <1>6 DEF OrderInv

(* Dispatch: the head of the channel goes behind whatever a queue holds.         *)
LEMMA DispatchKeeps == ASSUME BusIInv, Dispatch PROVE BusIInv'
  <1> USE DEF BusIInv
  <1>1. /\ ch' = Tail(ch) /\ ch' \in Seq(Nat) /\ Head(ch) \in Nat /\ Head(ch) = ch[1]
        /\ 1 \in 1 .. Len(ch) /\ Increasing(ch)' /\ Above(ch', Head(ch))
        /\ \A i \in 1 .. Len(ch') : i + 1 \in 1 .. Len(ch) /\ ch'[i] = ch[i + 1]
    BY TailOfIncreasing DEF Dispatch, BusTypes, OrderInv, Increasing, Above
  <1>2. /\ published' = published /\ handling' = handling
        /\ UNCHANGED <<subs, idOf, quit, wpc, dispatcher, stopped, doneClosed, stopper>>
    BY DEF Dispatch, workVars, stopVars
  <1>3. ASSUME NEW w \in Workers PROVE queue'[w] \in Seq(Nat) /\ WayInv(w)'
    <2>0. /\ queue[w] \in Seq(Nat) /\ handling[w] \in Nat /\ published \in Nat
          /\ \A i \in 1 .. Len(queue[w]) : queue[w][i] \in Nat
      BY ElementOfSeq DEF BusTypes
    <2>1. WayInv(w) /\ Increasing(ch) /\ UpTo(ch, published) BY DEF OrderInv
    <2>2. Above(ch', handling[w]) BY <1>1, <2>1 DEF WayInv, Above
    <2>3. \A i \in 1 .. Len(queue[w]), j \in 1 .. Len(ch') : queue[w][i] < ch'[j]
      BY <1>1, <2>1 DEF WayInv
    <2>4. CASE queue'[w] = queue[w]
      BY <1>2, <2>0, <2>1, <2>2, <2>3, <2>4 DEF WayInv, Increasing, Above, UpTo
    <2>5. CASE queue'[w] = Append(queue[w], Head(ch))
      <3>1. Increasing(queue[w]) /\ \A i \in 1 .. Len(queue[w]) : queue[w][i] < Head(ch)
        BY <1>1, <2>1 DEF WayInv
      <3>2. /\ queue'[w] \in Seq(Nat) /\ Increasing(queue'[w])
            /\ Len(queue'[w]) = Len(queue[w]) + 1 /\ queue'[w][Len(queue[w]) + 1] = Head(ch)
            /\ \A i \in 1 .. Len(queue[w]) : queue'[w][i] = queue[w][i]
        <4> DEFINE q == queue[w]
        <4>1. q \in Seq(Nat) /\ Increasing(q) /\ Head(ch) \in Nat /\ \A i \in 1 .. Len(q) : q[i] < Head(ch)
          BY <1>1, <2>0, <3>1
        <4> HIDE DEF q
        <4>2. /\ Append(q, Head(ch)) \in Seq(Nat) /\ Increasing(Append(q, Head(ch)))
              /\ Len(Append(q, Head(ch))) = Len(q) + 1 /\ Append(q, Head(ch))[Len(q) + 1] = Head(ch)
              /\ \A i \in 1 .. Len(q) : Append(q, Head(ch))[i] = q[i]
          BY <4>1, AppendGreater
        <4> QED BY <2>5, <4>2 DEF q
      <3>3. Len(queue[w]) \in Nat /\ Head(ch) <= published /\ handling[w] < Head(ch)
        BY <1>1, <2>0, <2>1, LenProperties DEF UpTo, WayInv, Above
      <3>4. \A i \in 1 .. Len(queue'[w]) :
              (i \in 1 .. Len(queue[w]) /\ queue'[w][i] = queue[w][i]) \/ queue'[w][i] = Head(ch)
        BY <3>2, <3>3
      <3>5. UpTo(queue'[w], published) /\ Above(queue'[w], handling[w])
        BY <2>1, <3>3, <3>4 DEF WayInv, UpTo, Above
      <3>6. \A i \in 1 .. Len(queue'[w]), j \in 1 .. Len(ch') : queue'[w][i] < ch'[j]
        BY <1>1, <2>3, <3>4 DEF Above
      <3>7. published' = published /\ handling'[w] = handling[w] /\ handling[w] <= published
        BY <1>2, <2>1 DEF WayInv
      <3> QED BY <2>2, <3>2, <3>5, <3>6, <3>7 DEF WayInv, Increasing, Above, UpTo
    <2> QED BY <2>4, <2>5 DEF Dispatch, BusTypes
  <1>4. BusTypes' 
    <2>1. queue' \in [Workers -> Seq(Nat)] BY <1>3 DEF Dispatch
    <2> QED BY <1>1, <1>2, <2>1 DEF BusTypes
  <1>5. UpTo(ch, published)' BY <1>1, <1>2 DEF OrderInv, UpTo
  <1>6. StopInv' BY <1>2 DEF StopInv, AllGone
  <1> QED BY <1>1, <1>3, <1>4, <1>5, <1>6 DEF OrderInv

(* A worker takes the head of its queue.                                        *)
LEMMA WorkerTakesKeeps == ASSUME BusIInv, NEW w \in Workers, WorkerTakes(w) PROVE BusIInv'
  <1> USE DEF BusIInv
  <1>0. /\ queue[w] \in Seq(Nat) /\ queue[w] # <<>> /\ WayInv(w)
        /\ queue' = [queue EXCEPT ![w] = Tail(queue[w])]
        /\ handling' = [handling EXCEPT ![w] = Head(queue[w])]
        /\ UNCHANGED <<ch, subs, idOf, quit, dispatcher, stopped, doneClosed, stopper, published>>
    BY DEF WorkerTakes, BusTypes, OrderInv, stopVars
  <1>1. /\ Tail(queue[w]) \in Seq(Nat) /\ Head(queue[w]) \in Nat
        /\ Head(queue[w]) = queue[w][1] /\ 1 \in 1 .. Len(queue[w])
        /\ Increasing(Tail(queue[w])) /\ Above(Tail(queue[w]), Head(queue[w]))
        /\ \A i \in 1 .. Len(Tail(queue[w])) :
             i + 1 \in 1 .. Len(queue[w]) /\ Tail(queue[w])[i] = queue[w][i + 1]
    BY <1>0, TailOfIncreasing DEF WayInv
  <1>2. BusTypes' BY <1>0, <1>1 DEF BusTypes, WorkerTakes
  <1>3. WayInv(w)'
    <2>1. queue'[w] = Tail(queue[w]) /\ handling'[w] = Head(queue[w])
      BY <1>0 DEF BusTypes
    <2>2. UpTo(Tail(queue[w]), published) /\ Head(queue[w]) <= published /\ Above(ch, Head(queue[w]))
      BY <1>0, <1>1 DEF WayInv, UpTo, Above
    <2>3. \A i \in 1 .. Len(Tail(queue[w])), j \in 1 .. Len(ch) : Tail(queue[w])[i] < ch[j]
      BY <1>0, <1>1 DEF WayInv
    <2> QED BY <1>0, <1>1, <2>1, <2>2, <2>3 DEF WayInv
  <1>4. ASSUME NEW v \in Workers, v # w PROVE WayInv(v)'
    BY <1>0, <1>4 DEF WayInv, OrderInv, BusTypes
  <1>5. StopInv' BY <1>0 DEF StopInv, AllGone, WorkerTakes
  <1> QED BY <1>0, <1>2, <1>3, <1>4, <1>5 DEF OrderInv

(* Every other step leaves channel, queues and handlers alone.                  *)
LEMMA BusStep == BusIInv /\ [BusNext]_busVars => BusIInv'
  <1> SUFFICES ASSUME BusIInv, [BusNext]_busVars PROVE BusIInv' OBVIOUS
  <1> USE DEF BusIInv
  <1>0. ASSUME UNCHANGED <<ch, queue, handling, published>> PROVE OrderInv'
    BY <1>0 DEF OrderInv, WayInv
  <1>1. CASE UNCHANGED busVars
    BY <1>0, <1>1 DEF busVars, subVars, workVars, stopVars, BusTypes, StopInv, AllGone
  <1>2. CASE DispatchExits
    BY <1>0, <1>2 DEF DispatchExits, subVars, workVars, stopVars, BusTypes, StopInv, AllGone
  <1>3. CASE StopLocks
    BY <1>0, <1>3 DEF StopLocks, subVars, workVars, BusTypes, StopInv, AllGone
  <1>4. CASE StopCloses
    BY <1>0, <1>4 DEF StopCloses, subVars, workVars, BusTypes, StopInv, AllGone
  <1>5. CASE StopReturns
    BY <1>0, <1>5 DEF StopReturns, subVars, workVars, BusTypes, StopInv, AllGone
  <1>6. ASSUME NEW w \in Workers, Subscribe(w) PROVE BusIInv'
    BY <1>0, <1>6 DEF Subscribe, StillOpen, stopVars, BusTypes, StopInv, AllGone
  <1>7. ASSUME NEW w \in Workers, Unsubscribe(w) PROVE BusIInv'
    BY <1>0, <1>7 DEF Unsubscribe, workVars, stopVars, BusTypes, StopInv, AllGone
  <1>8. ASSUME NEW w \in Workers, HandlerReturns(w) PROVE BusIInv'
    BY <1>0, <1>8 DEF HandlerReturns, subVars, stopVars, BusTypes, StopInv, AllGone
  <1>9. ASSUME NEW w \in Workers, WorkerExits(w) PROVE BusIInv'
    BY <1>0, <1>9 DEF WorkerExits, subVars, stopVars, BusTypes, StopInv, AllGone
  <1> QED
    BY <1>1, <1>2, <1>3, <1>4, <1>5, <1>6, <1>7, <1>8, <1>9, PublishKeeps, DispatchKeeps,
       WorkerTakesKeeps DEF BusNext, WorkerSteps

(* The invariant of the bus (runWorker, dispatch, Stop), for any number of       *)
(* subscribers and events and any queue sizes.                                   *)
THEOREM BusInvariant == BusSpec => []BusIInv
  <1> QED BY BusInitial, BusStep, PTL DEF BusSpec

(* The end-to-end sequence of a worker, element by element.                     *)
LEMMA WayIsIncreasing ==
  ASSUME NEW h \in Nat, NEW q \in Seq(Nat), NEW c \in Seq(Nat),
         Increasing(q), Increasing(c), Above(q, h), Above(c, h),
         \A i \in 1 .. Len(q), j \in 1 .. Len(c) : q[i] < c[j]
  PROVE  \A i, j \in DOMAIN (<<h>> \o q \o c) : i < j => (<<h>> \o q \o c)[i] < (<<h>> \o q \o c)[j]
  <1> DEFINE p == <<h>> \o q
             s == p \o c
  <1>1. /\ <<h>> \in Seq(Nat) /\ Len(<<h>>) = 1 /\ <<h>>[1] = h
        /\ Len(q) \in Nat /\ Len(c) \in Nat
    BY LenProperties
  <1>2. /\ p \in Seq(Nat) /\ Len(p) = 1 + Len(q)
        /\ \A i \in 1 .. 1 + Len(q) : p[i] = IF i <= 1 THEN <<h>>[i] ELSE q[i - 1]
    BY <1>1, ConcatProperties
  <1>3. /\ s \in Seq(Nat) /\ Len(s) = Len(p) + Len(c)
        /\ \A i \in 1 .. Len(p) + Len(c) : s[i] = IF i <= Len(p) THEN p[i] ELSE c[i - Len(p)]
    <2> HIDE DEF p
    <2> QED BY <1>2, ConcatProperties
  <1>4. DOMAIN s = 1 .. 1 + Len(q) + Len(c)
    BY <1>1, <1>2, <1>3, LenProperties
  <1> HIDE DEF p, s
  <1>5. /\ s[1] = h
        /\ \A i \in 1 .. Len(q) : s[i + 1] = q[i]
        /\ \A i \in 1 .. Len(c) : s[i + 1 + Len(q)] = c[i]
    <2>1. s[1] = h BY <1>1, <1>2, <1>3
    <2>2. ASSUME NEW i \in 1 .. Len(q) PROVE s[i + 1] = q[i]
      <3>1. i + 1 \in 1 .. 1 + Len(q) /\ i + 1 \in 1 .. Len(p) + Len(c) /\ ~(i + 1 <= 1)
            /\ i + 1 <= Len(p) /\ (i + 1) - 1 = i
        BY <1>1, <1>2
      <3> QED BY <1>2, <1>3, <3>1
    <2>3. ASSUME NEW i \in 1 .. Len(c) PROVE s[i + 1 + Len(q)] = c[i]
      <3>1. /\ i + 1 + Len(q) \in 1 .. Len(p) + Len(c) /\ ~(i + 1 + Len(q) <= Len(p))
            /\ (i + 1 + Len(q)) - Len(p) = i
        BY <1>1, <1>2
      <3> QED BY <1>3, <3>1
    <2> QED BY <2>1, <2>2, <2>3
  <1>6. ASSUME NEW i \in 1 .. 1 + Len(q) + Len(c), NEW j \in 1 .. 1 + Len(q) + Len(c), i < j
        PROVE  s[i] < s[j]
    <2>1. CASE i = 1 /\ j - 1 \in 1 .. Len(q)
      <3>1. s[j] = q[j - 1] BY <2>1, <1>5, <1>1
      <3> QED BY <2>1, <3>1, <1>5 DEF Above
    <2>2. CASE i = 1 /\ j - 1 - Len(q) \in 1 .. Len(c)
      <3>1. s[j] = c[j - 1 - Len(q)] BY <2>2, <1>5, <1>1
      <3> QED BY <2>2, <3>1, <1>5 DEF Above
    <2>3. CASE i - 1 \in 1 .. Len(q) /\ j - 1 \in 1 .. Len(q)
      <3>1. s[i] = q[i - 1] /\ s[j] = q[j - 1] BY <2>3, <1>5, <1>1
      <3>2. i - 1 < j - 1 BY <1>6, <1>1
      <3> QED BY <2>3, <3>1, <3>2 DEF Increasing
    <2>4. CASE i - 1 \in 1 .. Len(q) /\ j - 1 - Len(q) \in 1 .. Len(c)
      <3>1. s[i] = q[i - 1] /\ s[j] = c[j - 1 - Len(q)] BY <2>4, <1>5, <1>1
      <3> QED BY <2>4, <3>1
    <2>5. CASE i - 1 - Len(q) \in 1 .. Len(c) /\ j - 1 - Len(q) \in 1 .. Len(c)
      <3>1. s[i] = c[i - 1 - Len(q)] /\ s[j] = c[j - 1 - Len(q)] BY <2>5, <1>5, <1>1
      <3>2. i - 1 - Len(q) < j - 1 - Len(q) BY <1>6, <1>1
      <3> QED BY <2>5, <3>1, <3>2 DEF Increasing
    <2> QED BY <2>1, <2>2, <2>3, <2>4, <2>5, <1>1, <1>6
  <1> QED BY <1>4, <1>6 DEF p, s

(* Every subscriber sees events in the order of publication and none twice,     *)
(* whatever was dropped, replaced or stopped (dispatch, runWorker).              *)
THEOREM BusOrder == BusSpec => []InPublicationOrder
  <1>1. BusIInv => InPublicationOrder
    <2> SUFFICES ASSUME BusIInv, NEW w \in Workers
                 PROVE  LET way == <<handling[w]>> \o queue[w] \o ch
                        IN  \A i, j \in DOMAIN way : i < j => way[i] < way[j]
      BY DEF InPublicationOrder
    <2> QED BY WayIsIncreasing DEF BusIInv, BusTypes, OrderInv, WayInv
  <1> QED BY <1>1, BusInvariant, PTL

(* After Stop has returned no worker and no dispatcher of the bus lives          *)
(* (Bus.Stop, Subscribe).                                                        *)
THEOREM BusQuiet == BusSpec => []QuietAfterStop
  <1>1. BusIInv => QuietAfterStop BY DEF BusIInv, StopInv, QuietAfterStop
  <1> QED BY <1>1, BusInvariant, PTL

-----------------------------------------------------------------------------
(* The hub. The n messages after message a.                                     *)
Run(a, n) == [i \in 1 .. n |-> a + i]

LEMMA RunEmpty == ASSUME NEW a \in Nat PROVE Run(a, 0) = <<>>
  <1>1. 1 .. 0 = {} OBVIOUS
  <1>2. DOMAIN Run(a, 0) = 1 .. 0 BY DEF Run
  <1>3. Run(a, 0) \in [1 .. 0 -> Nat] BY <1>1 DEF Run
  <1>4. Run(a, 0) \in Seq(Nat) BY <1>3, SeqDef
  <1>5. Len(Run(a, 0)) = 0 BY <1>2, <1>4, LenProperties
  <1> QED BY <1>4, <1>5, EmptySeq

LEMMA RunLen ==
  ASSUME NEW a \in Nat, NEW n \in Nat
  PROVE  Run(a, n) \in Seq(Nat) /\ Len(Run(a, n)) = n /\ \A i \in 1 .. n : Run(a, n)[i] = a + i
  <1>1. \A i \in 1 .. n : a + i \in Nat OBVIOUS
  <1>2. Run(a, n) \in Seq(Nat) BY <1>1, IsASeq DEF Run
  <1>3. DOMAIN Run(a, n) = 1 .. n BY DEF Run
  <1>4. Len(Run(a, n)) = n BY <1>2, <1>3, LenProperties
  <1> QED BY <1>2, <1>4 DEF Run

(* The next message, and one message more.                                      *)
LEMMA RunTail ==
  ASSUME NEW a \in Nat, NEW n \in Nat, Run(a, n) # <<>>
  PROVE  n > 0 /\ Head(Run(a, n)) = a + 1 /\ Tail(Run(a, n)) = Run(a + 1, n - 1)
  <1> DEFINE s == Run(a, n)
  <1>1. n > 0 BY RunEmpty
  <1>2. s \in Seq(Nat) /\ Len(s) = n /\ \A i \in 1 .. n : s[i] = a + i BY RunLen
  <1>3. n - 1 \in Nat /\ a + 1 \in Nat BY <1>1
  <1>4. /\ Run(a + 1, n - 1) \in Seq(Nat) /\ Len(Run(a + 1, n - 1)) = n - 1
        /\ \A i \in 1 .. n - 1 : Run(a + 1, n - 1)[i] = a + 1 + i
    BY <1>3, RunLen
  <1> HIDE DEF s
  <1>5. /\ Head(s) = s[1] /\ Tail(s) \in Seq(Nat) /\ Len(Tail(s)) = n - 1
        /\ \A i \in 1 .. n - 1 : Tail(s)[i] = s[i + 1]
    BY <1>2, <1>1, HeadTailProperties DEF s
  <1>6. \A i \in 1 .. n - 1 : i + 1 \in 1 .. n /\ Tail(s)[i] = a + 1 + i
    BY <1>2, <1>5
  <1>7. Tail(s) = Run(a + 1, n - 1)
    <2> DEFINE t == Tail(s)
               r == Run(a + 1, n - 1)
    <2>1. t \in Seq(Nat) /\ r \in Seq(Nat) /\ Len(t) = Len(r) /\ \A i \in 1 .. Len(t) : t[i] = r[i]
      BY <1>4, <1>5, <1>6
    <2> HIDE DEF t, r
    <2>2. t = r BY <2>1, SeqEqual
    <2> QED BY <2>2 DEF t, r
  <1> QED BY <1>1, <1>2, <1>5, <1>7 DEF s

LEMMA RunAppend ==
  ASSUME NEW a \in Nat, NEW n \in Nat
  PROVE  Append(Run(a, n), a + n + 1) = Run(a, n + 1)
  <1> DEFINE s == Run(a, n)
             t == Append(s, a + n + 1)
             r == Run(a, n + 1)
  <1>1. s \in Seq(Nat) /\ Len(s) = n /\ \A i \in 1 .. n : s[i] = a + i BY RunLen
  <1>2. n + 1 \in Nat OBVIOUS
  <1>3. r \in Seq(Nat) /\ Len(r) = n + 1 /\ \A i \in 1 .. n + 1 : r[i] = a + i
    BY <1>2, RunLen
  <1> HIDE DEF s, r
  <1>4. /\ t \in Seq(Nat) /\ Len(t) = n + 1 /\ t[n + 1] = a + n + 1
        /\ \A i \in 1 .. n : t[i] = s[i]
    BY <1>1, AppendProperties
  <1> HIDE DEF t
  <1>5. \A i \in 1 .. n + 1 : t[i] = r[i]
    <2> TAKE i \in 1 .. n + 1
    <2>1. CASE i \in 1 .. n BY <2>1, <1>1, <1>3, <1>4
    <2>2. CASE i = n + 1 BY <2>2, <1>3, <1>4
    <2> QED BY <2>1, <2>2
  <1>6. t = r BY <1>3, <1>4, <1>5, SeqEqual
  <1> QED BY <1>6 DEF s, t, r

Ops == {"register", "unregister"} \X Conns

HubTypes ==
    /\ clients \subseteq Conns /\ ops \in Seq(Ops)
    /\ sent \in Nat /\ casts \in Nat
    /\ send \in [Conns -> Seq(Nat)] /\ seen \in [Conns -> Nat]
    /\ closed \in [Conns -> BOOLEAN]
    /\ reader \in [Conns -> {"new", "on", "leaving", "ended"}]

(* A connection registers once, before anything is sent to it.                  *)
JoinInv ==
    /\ \A c \in Conns : reader[c] = "new" =>
         c \notin clients /\ send[c] = <<>> /\ \A i \in 1 .. Len(ops) : ops[i][2] # c
    /\ \A i \in 1 .. Len(ops) : ops[i][1] = "register" =>
         /\ ops[i][2] \notin clients /\ send[ops[i][2]] = <<>>
         /\ \A j \in 1 .. Len(ops) : ops[j] = ops[i] => j = i

(* What a registered connection has not been sent yet is its buffer.             *)
BufferInv == \A c \in clients : seen[c] <= sent /\ send[c] = Run(seen[c], sent - seen[c])

(* An entry that will not stay: it is in neither place, or its Unregister is in   *)
(* the channel behind its Register.                                             *)
Leaves(d) ==
    \/ d \notin clients /\ \A i \in 1 .. Len(ops) : ops[i] # <<"register", d>>
    \/ \E i \in 1 .. Len(ops) :
         /\ ops[i] = <<"unregister", d>>
         /\ \A j \in 1 .. Len(ops) : ops[j] = <<"register", d>> => j < i

LeaveInv == \A d \in Conns \ mishaps : reader[d] = "ended" => Leaves(d)

HubIInv == HubTypes /\ JoinInv /\ BufferInv /\ LeaveInv

LEMMA HubInitial == HubInit => HubIInv
  <1> SUFFICES ASSUME HubInit PROVE HubIInv OBVIOUS
  <1>1. <<>> \in Seq(Nat) /\ <<>> \in Seq(Ops) /\ Len(<<>>) = 0 BY EmptySeq
  <1>2. HubTypes BY <1>1 DEF HubInit, HubTypes
  <1>3. JoinInv BY <1>1 DEF HubInit, JoinInv
  <1>4. BufferInv /\ LeaveInv BY DEF HubInit, BufferInv, LeaveInv
  <1> QED BY <1>2, <1>3, <1>4 DEF HubIInv

(* Appending an operation: what is in the channel stays where it is.            *)
LEMMA OpsAppend ==
  ASSUME HubTypes, NEW o \in Ops, ops' = Append(ops, o)
  PROVE  /\ ops' \in Seq(Ops) /\ Len(ops) \in Nat /\ Len(ops') = Len(ops) + 1 /\ ops'[Len(ops) + 1] = o
         /\ DOMAIN ops = 1 .. Len(ops) /\ DOMAIN ops' = 1 .. Len(ops')
         /\ \A i \in 1 .. Len(ops) : ops'[i] = ops[i]
         /\ \A i \in 1 .. Len(ops') : i \in 1 .. Len(ops) \/ i = Len(ops) + 1
  <1>1. ops \in Seq(Ops) BY DEF HubTypes
  <1>2. /\ Append(ops, o) \in Seq(Ops) /\ Len(ops) \in Nat /\ Len(Append(ops, o)) = Len(ops) + 1
        /\ Append(ops, o)[Len(ops) + 1] = o
        /\ \A i \in 1 .. Len(ops) : Append(ops, o)[i] = ops[i]
    BY <1>1, AppendProperties, LenProperties
  <1>3. DOMAIN ops = 1 .. Len(ops) /\ DOMAIN Append(ops, o) = 1 .. Len(Append(ops, o))
    BY <1>1, <1>2, LenProperties
  <1> QED BY <1>2, <1>3

(* An operation of another connection behind them changes nothing for d.          *)
LEMMA LeavesAppend ==
  ASSUME HubTypes, NEW o \in Ops, ops' = Append(ops, o), clients' = clients,
         NEW d \in Conns, o # <<"register", d>>, Leaves(d)
  PROVE  Leaves(d)'
  <1>1. /\ Len(ops) \in Nat /\ Len(ops') = Len(ops) + 1 /\ ops'[Len(ops) + 1] = o
        /\ \A i \in 1 .. Len(ops) : ops'[i] = ops[i]
        /\ \A i \in 1 .. Len(ops') : i \in 1 .. Len(ops) \/ i = Len(ops) + 1
    BY OpsAppend
  <1>2. CASE d \notin clients /\ \A i \in 1 .. Len(ops) : ops[i] # <<"register", d>>
    BY <1>1, <1>2 DEF Leaves
  <1>3. ASSUME NEW i \in 1 .. Len(ops), ops[i] = <<"unregister", d>>,
               \A j \in 1 .. Len(ops) : ops[j] = <<"register", d>> => j < i
        PROVE  Leaves(d)'
    <2>1. i \in 1 .. Len(ops') /\ ops'[i] = <<"unregister", d>> BY <1>1, <1>3
    <2>2. \A j \in 1 .. Len(ops') : ops'[j] = <<"register", d>> => j < i
      <3> SUFFICES ASSUME NEW j \in 1 .. Len(ops'), ops'[j] = <<"register", d>> PROVE j < i
        OBVIOUS
      <3>1. j # Len(ops) + 1 BY <1>1
      <3>2. j \in 1 .. Len(ops) /\ ops[j] = <<"register", d>> BY <1>1, <3>1
      <3> QED BY <1>3, <3>2
    <2> QED BY <2>1, <2>2 DEF Leaves
  <1> QED BY <1>2, <1>3 DEF Leaves

(* A new operation of connection c, or none, keeps JoinInv for the others.        *)
LEMMA JoinAppend ==
  ASSUME HubIInv, NEW c \in Conns, NEW k \in {"register", "unregister"},
         ops' = Append(ops, <<k, c>>), UNCHANGED <<clients, send>>,
         reader' = [reader EXCEPT ![c] = IF k = "register" THEN "on" ELSE "ended"],
         k = "register" => reader[c] = "new"
  PROVE  JoinInv'
  <1> USE DEF HubIInv
  <1>0. <<k, c>> \in Ops BY DEF Ops
  <1>1. /\ Len(ops) \in Nat /\ Len(ops') = Len(ops) + 1 /\ ops'[Len(ops) + 1] = <<k, c>>
        /\ \A i \in 1 .. Len(ops) : ops'[i] = ops[i]
        /\ \A i \in 1 .. Len(ops') : i \in 1 .. Len(ops) \/ i = Len(ops) + 1
    BY <1>0, OpsAppend
  <1>2. ASSUME NEW d \in Conns, reader'[d] = "new"
        PROVE  d \notin clients /\ send[d] = <<>> /\ \A i \in 1 .. Len(ops') : ops'[i][2] # d
    <2>1. d # c /\ reader[d] = "new" BY <1>2 DEF HubTypes
    <2>2. d \notin clients /\ send[d] = <<>> /\ \A i \in 1 .. Len(ops) : ops[i][2] # d
      BY <2>1 DEF JoinInv
    <2>3. ops'[Len(ops) + 1][2] = c BY <1>1
    <2> QED BY <1>1, <2>1, <2>2, <2>3
  <1>3. ASSUME NEW i \in 1 .. Len(ops'), ops'[i][1] = "register"
        PROVE  /\ ops'[i][2] \notin clients /\ send[ops'[i][2]] = <<>>
               /\ \A j \in 1 .. Len(ops') : ops'[j] = ops'[i] => j = i
    <2>0. k = "register" =>
            c \notin clients /\ send[c] = <<>> /\ \A j \in 1 .. Len(ops) : ops[j][2] # c
      BY DEF JoinInv
    <2>1. CASE i \in 1 .. Len(ops)
      <3>1. ops'[i] = ops[i] /\ (k = "register" => ops[i][2] # c) BY <1>1, <2>0, <2>1
      <3>2. ops[i] # <<k, c>> BY <1>3, <3>1
      <3>3. /\ ops[i][2] \notin clients /\ send[ops[i][2]] = <<>>
            /\ \A j \in 1 .. Len(ops) : ops[j] = ops[i] => j = i
        BY <1>3, <2>1, <3>1 DEF JoinInv
      <3> QED BY <1>1, <3>1, <3>2, <3>3
    <2>2. CASE i = Len(ops) + 1
      <3>1. k = "register" /\ ops'[i] = <<k, c>> BY <1>1, <1>3, <2>2
      <3>2. \A j \in 1 .. Len(ops) : ops'[j] # <<k, c>> BY <1>1, <2>0, <3>1
      <3> QED BY <1>1, <2>0, <2>2, <3>1, <3>2
    <2> QED BY <1>1, <2>1, <2>2
  <1> QED BY <1>2, <1>3 DEF JoinInv

(* Register puts a connection's first operation into the channel, or nothing.   *)
LEMMA RegisterKeeps == ASSUME HubIInv, NEW c \in Conns, Register(c) PROVE HubIInv'
  <1> USE DEF HubIInv
  <1>0. /\ reader[c] = "new" /\ reader' = [reader EXCEPT ![c] = "on"]
        /\ UNCHANGED <<clients, sent, send, seen, closed, casts>>
    BY DEF Register
  <1>1. BufferInv' BY <1>0 DEF BufferInv
  <1>2. CASE ops' = Append(ops, <<"register", c>>) /\ UNCHANGED mishaps
    <2>0. <<"register", c>> \in Ops BY DEF Ops
    <2>1. HubTypes'
      <3>1. ops' \in Seq(Ops) BY <1>2, <2>0, OpsAppend
      <3> QED BY <1>0, <3>1 DEF HubTypes
    <2>2. JoinInv'
      <3>1. "register" \in {"register", "unregister"} OBVIOUS
      <3> QED BY <1>0, <1>2, <3>1, JoinAppend
    <2>3. LeaveInv'
      <3> SUFFICES ASSUME NEW d \in Conns \ mishaps, reader'[d] = "ended" PROVE Leaves(d)'
        BY <1>2 DEF LeaveInv
      <3>1. d # c /\ Leaves(d) BY <1>0 DEF HubTypes, LeaveInv
      <3> QED BY <1>0, <1>2, <2>0, <3>1, LeavesAppend
    <2> QED BY <1>1, <2>1, <2>2, <2>3
  <1>3. CASE mishaps' = mishaps \cup {c} /\ UNCHANGED ops
    <2>1. HubTypes' BY <1>0, <1>3 DEF HubTypes
    <2>2. JoinInv' BY <1>0, <1>3 DEF JoinInv, HubTypes
    <2>3. LeaveInv' BY <1>0, <1>3 DEF LeaveInv, Leaves, HubTypes
    <2> QED BY <1>1, <2>1, <2>2, <2>3
  <1> QED BY <1>2, <1>3 DEF Register

(* Unregister puts its operation behind all others, or gives up.                *)
LEMMA UnregisterKeeps == ASSUME HubIInv, NEW c \in Conns, Unregister(c) PROVE HubIInv'
  <1> USE DEF HubIInv
  <1>0. /\ reader[c] = "leaving" /\ reader' = [reader EXCEPT ![c] = "ended"]
        /\ UNCHANGED <<clients, sent, send, seen, closed, casts>>
    BY DEF Unregister
  <1>1. BufferInv' BY <1>0 DEF BufferInv
  <1>2. CASE ops' = Append(ops, <<"unregister", c>>) /\ UNCHANGED mishaps
    <2>0. <<"unregister", c>> \in Ops BY DEF Ops
    <2>1. /\ ops' \in Seq(Ops) /\ Len(ops) \in Nat /\ Len(ops') = Len(ops) + 1
          /\ ops'[Len(ops) + 1] = <<"unregister", c>>
          /\ \A i \in 1 .. Len(ops') : i \in 1 .. Len(ops) \/ i = Len(ops) + 1
      BY <1>2, <2>0, OpsAppend
    <2>2. HubTypes' BY <1>0, <2>1 DEF HubTypes
    <2>3. JoinInv'
      <3>1. "unregister" \in {"register", "unregister"} OBVIOUS
      <3> QED BY <1>0, <1>2, <3>1, JoinAppend
    <2>4. LeaveInv'
      <3> SUFFICES ASSUME NEW d \in Conns \ mishaps, reader'[d] = "ended" PROVE Leaves(d)'
        BY <1>2 DEF LeaveInv
      <3>1. CASE d = c
        <4>1. \A j \in 1 .. Len(ops') : ops'[j] = <<"register", d>> => j < Len(ops) + 1
          BY <2>1, <3>1
        <4>2. Len(ops) + 1 \in 1 .. Len(ops') BY <2>1
        <4> QED BY <2>1, <3>1, <4>1, <4>2 DEF Leaves
      <3>2. CASE d # c
        <4>1. Leaves(d) BY <1>0, <3>2 DEF HubTypes, LeaveInv
        <4>2. <<"unregister", c>> # <<"register", d>> OBVIOUS
        <4> QED BY <1>0, <1>2, <2>0, <4>1, <4>2, LeavesAppend
      <3> QED BY <3>1, <3>2
    <2> QED BY <1>1, <2>2, <2>3, <2>4
  <1>3. CASE mishaps' = mishaps \cup {c} /\ UNCHANGED ops
    <2>1. HubTypes' BY <1>0, <1>3 DEF HubTypes
    <2>2. JoinInv' BY <1>0, <1>3 DEF JoinInv, HubTypes
    <2>3. LeaveInv' BY <1>0, <1>3 DEF LeaveInv, Leaves, HubTypes
    <2> QED BY <1>1, <2>1, <2>2, <2>3
  <1> QED BY <1>2, <1>3 DEF Unregister

(* The loop takes the first operation.                                           *)
LEMMA HubOpKeeps == ASSUME HubIInv, HubOp PROVE HubIInv'
  <1> USE DEF HubIInv
  <1> DEFINE o == Head(ops)
             c == o[2]
  <1>0. /\ ops \in Seq(Ops) /\ ops # <<>> /\ ops' = Tail(ops)
        /\ UNCHANGED <<casts, sent, send, reader, mishaps>>
    BY DEF HubOp, HubTypes
  <1>1. /\ Len(ops) \in Nat \ {0} /\ ops' \in Seq(Ops) /\ Len(ops') = Len(ops) - 1
        /\ o = ops[1] /\ o \in Ops /\ 1 \in 1 .. Len(ops)
        /\ \A i \in 1 .. Len(ops') : ops'[i] = ops[i + 1]
    BY <1>0, HeadTailProperties, EmptySeq
  <1>2. /\ \A i \in 1 .. Len(ops') : i + 1 \in 1 .. Len(ops) /\ i + 1 # 1 /\ i + 1 > 1
        /\ \A i \in 1 .. Len(ops) : i # 1 => i - 1 \in 1 .. Len(ops') /\ ops'[i - 1] = ops[i]
    <2>1. \A i \in 1 .. Len(ops) : i # 1 => i - 1 \in 1 .. Len(ops') /\ (i - 1) + 1 = i BY <1>1
    <2> QED BY <1>1, <2>1
  <1>3. c \in Conns /\ o = <<o[1], c>> /\ o[1] \in {"register", "unregister"} BY <1>1 DEF Ops
  <1> HIDE DEF o, c
  <1>4. CASE o[1] = "register"
    <2>0. clients' = clients \cup {c} /\ seen' = [seen EXCEPT ![c] = sent] /\ closed' = closed
      BY <1>4 DEF HubOp, o, c
    <2>1. HubTypes' BY <1>0, <1>1, <1>3, <2>0 DEF HubTypes
    <2>2. /\ c \notin clients /\ send[c] = <<>> /\ reader[c] # "new"
          /\ \A j \in 1 .. Len(ops) : ops[j] = o => j = 1
      BY <1>1, <1>3, <1>4 DEF JoinInv, c
    <2>3. JoinInv'
      <3>1. ASSUME NEW d \in Conns, reader'[d] = "new"
            PROVE  d \notin clients' /\ send'[d] = <<>> /\ \A i \in 1 .. Len(ops') : ops'[i][2] # d
        <4>1. reader[d] = "new" /\ d # c BY <1>0, <2>2, <3>1
        <4>2. d \notin clients /\ send[d] = <<>> /\ \A i \in 1 .. Len(ops) : ops[i][2] # d
          BY <4>1 DEF JoinInv
        <4> QED BY <1>0, <1>1, <1>2, <2>0, <4>1, <4>2
      <3>2. ASSUME NEW i \in 1 .. Len(ops'), ops'[i][1] = "register"
            PROVE  /\ ops'[i][2] \notin clients' /\ send'[ops'[i][2]] = <<>>
                   /\ \A j \in 1 .. Len(ops') : ops'[j] = ops'[i] => j = i
        <4>1. i + 1 \in 1 .. Len(ops) /\ ops[i + 1] = ops'[i] /\ i + 1 # 1 BY <1>1, <1>2
        <4>2. /\ ops[i + 1][2] \notin clients /\ send[ops[i + 1][2]] = <<>>
              /\ \A j \in 1 .. Len(ops) : ops[j] = ops[i + 1] => j = i + 1
          BY <3>2, <4>1 DEF JoinInv
        <4>3. ops[i + 1] \in Ops BY <1>0, <4>1, ElementOfSeq
        <4>4. ops[i + 1][2] # c
          <5>1. ops[i + 1] # o BY <2>2, <4>1
          <5> QED BY <1>3, <1>4, <3>2, <4>1, <4>3, <5>1 DEF Ops
        <4>5. \A j \in 1 .. Len(ops') : ops'[j] = ops'[i] => j = i
          <5> TAKE j \in 1 .. Len(ops')
          <5>1. j + 1 \in 1 .. Len(ops) /\ ops[j + 1] = ops'[j] BY <1>1, <1>2
          <5> QED BY <4>1, <4>2, <5>1
        <4> QED BY <1>0, <2>0, <4>1, <4>2, <4>4, <4>5
      <3> QED BY <3>1, <3>2 DEF JoinInv
    <2>4. BufferInv'
      <3> SUFFICES ASSUME NEW d \in clients'
                   PROVE  seen'[d] <= sent /\ send[d] = Run(seen'[d], sent - seen'[d])
        BY <1>0 DEF BufferInv
      <3>1. CASE d = c
        <4>1. seen'[d] = sent /\ sent \in Nat BY <1>3, <2>0, <3>1 DEF HubTypes
        <4>2. Run(sent, 0) = <<>> /\ sent - sent = 0 BY <4>1, RunEmpty
        <4> QED BY <2>2, <3>1, <4>1, <4>2
      <3>2. CASE d # c
        BY <2>0, <3>2 DEF BufferInv, HubTypes
      <3> QED BY <3>1, <3>2
    <2>5. LeaveInv'
      <3> SUFFICES ASSUME NEW d \in Conns \ mishaps, reader[d] = "ended" PROVE Leaves(d)'
        BY <1>0 DEF LeaveInv
      <3>1. Leaves(d) BY DEF LeaveInv
      <3>2. CASE d \notin clients /\ \A i \in 1 .. Len(ops) : ops[i] # <<"register", d>>
        <4>1. d # c BY <1>1, <1>3, <1>4, <3>2
        <4> QED BY <1>1, <1>2, <2>0, <3>2, <4>1 DEF Leaves
      <3>3. ASSUME NEW i \in 1 .. Len(ops), ops[i] = <<"unregister", d>>,
                   \A j \in 1 .. Len(ops) : ops[j] = <<"register", d>> => j < i
            PROVE  Leaves(d)'
        <4>1. i # 1 BY <1>1, <1>4, <3>3
        <4>2. i - 1 \in 1 .. Len(ops') /\ ops'[i - 1] = <<"unregister", d>> BY <1>2, <3>3, <4>1
        <4>3. \A j \in 1 .. Len(ops') : ops'[j] = <<"register", d>> => j < i - 1
          <5> SUFFICES ASSUME NEW j \in 1 .. Len(ops'), ops'[j] = <<"register", d>> PROVE j < i - 1
            OBVIOUS
          <5>1. ops'[j] = ops[j + 1] /\ j + 1 \in 1 .. Len(ops) BY <1>1, <1>2
          <5>2. j + 1 < i BY <3>3, <5>1
          <5> QED BY <5>2
        <4> QED BY <4>2, <4>3 DEF Leaves
      <3> QED BY <3>1, <3>2, <3>3 DEF Leaves
    <2> QED BY <2>1, <2>3, <2>4, <2>5
  <1>5. CASE o[1] = "unregister"
    <2>0. /\ clients' = clients \ {c} /\ seen' = seen
          /\ closed' = [closed EXCEPT ![c] = closed[c] \/ c \in clients]
      BY <1>5 DEF HubOp, o, c
    <2>1. HubTypes' BY <1>0, <1>1, <1>3, <2>0 DEF HubTypes
    <2>2. JoinInv'
      <3>1. ASSUME NEW d \in Conns, reader'[d] = "new"
            PROVE  d \notin clients' /\ send'[d] = <<>> /\ \A i \in 1 .. Len(ops') : ops'[i][2] # d
        BY <1>0, <1>1, <1>2, <2>0, <3>1 DEF JoinInv
      <3>2. ASSUME NEW i \in 1 .. Len(ops'), ops'[i][1] = "register"
            PROVE  /\ ops'[i][2] \notin clients' /\ send'[ops'[i][2]] = <<>>
                   /\ \A j \in 1 .. Len(ops') : ops'[j] = ops'[i] => j = i
        <4>1. i + 1 \in 1 .. Len(ops) /\ ops[i + 1] = ops'[i] BY <1>1, <1>2
        <4>2. /\ ops[i + 1][2] \notin clients /\ send[ops[i + 1][2]] = <<>>
              /\ \A j \in 1 .. Len(ops) : ops[j] = ops[i + 1] => j = i + 1
          BY <3>2, <4>1 DEF JoinInv
        <4>3. \A j \in 1 .. Len(ops') : ops'[j] = ops'[i] => j = i
          <5> TAKE j \in 1 .. Len(ops')
          <5>1. j + 1 \in 1 .. Len(ops) /\ ops[j + 1] = ops'[j] BY <1>1, <1>2
          <5> QED BY <4>1, <4>2, <5>1
        <4> QED BY <1>0, <2>0, <4>1, <4>2, <4>3
      <3> QED BY <3>1, <3>2 DEF JoinInv
    <2>3. BufferInv' BY <1>0, <2>0 DEF BufferInv
    <2>4. LeaveInv'
      <3> SUFFICES ASSUME NEW d \in Conns \ mishaps, reader[d] = "ended" PROVE Leaves(d)'
        BY <1>0 DEF LeaveInv
      <3>1. Leaves(d) BY DEF LeaveInv
      <3>2. CASE d \notin clients /\ \A i \in 1 .. Len(ops) : ops[i] # <<"register", d>>
        BY <1>1, <1>2, <2>0, <3>2 DEF Leaves
      <3>3. ASSUME NEW i \in 1 .. Len(ops), ops[i] = <<"unregister", d>>,
                   \A j \in 1 .. Len(ops) : ops[j] = <<"register", d>> => j < i
            PROVE  Leaves(d)'
        <4>1. CASE i # 1
          <5>2. i - 1 \in 1 .. Len(ops') /\ ops'[i - 1] = <<"unregister", d>> BY <1>2, <3>3, <4>1
          <5>3. \A j \in 1 .. Len(ops') : ops'[j] = <<"register", d>> => j < i - 1
            <6> SUFFICES ASSUME NEW j \in 1 .. Len(ops'), ops'[j] = <<"register", d>> PROVE j < i - 1
              OBVIOUS
            <6>1. ops'[j] = ops[j + 1] /\ j + 1 \in 1 .. Len(ops) BY <1>1, <1>2
            <6>2. j + 1 < i BY <3>3, <6>1
            <6> QED BY <6>2
          <5> QED BY <5>2, <5>3 DEF Leaves
        <4>2. CASE i = 1
          <5>1. d = c BY <1>1, <1>3, <3>3, <4>2
          <5>2. \A j \in 1 .. Len(ops') : ops'[j] # <<"register", d>>
            <6> TAKE j \in 1 .. Len(ops')
            <6>1. ops'[j] = ops[j + 1] /\ j + 1 \in 1 .. Len(ops) /\ ~(j + 1 < 1) BY <1>1, <1>2
            <6> QED BY <3>3, <4>2, <6>1
          <5> QED BY <2>0, <5>1, <5>2 DEF Leaves
        <4> QED BY <4>1, <4>2
      <3> QED BY <3>1, <3>2, <3>3 DEF Leaves
    <2> QED BY <2>1, <2>2, <2>3, <2>4
  <1> QED BY <1>3, <1>4, <1>5

(* A panic loses an operation, whose connection is a mishap then, or a message.   *)
LEMMA PanicKeeps == ASSUME HubIInv, HubPanics PROVE HubIInv'
  <1> USE DEF HubIInv
  <1>0. UNCHANGED <<clients, sent, send, seen, closed, reader>> BY DEF HubPanics, connVars
  <1>1. CASE casts > 0 /\ casts' = casts - 1 /\ UNCHANGED <<ops, mishaps>>
    <2>1. HubTypes' BY <1>0, <1>1 DEF HubTypes
    <2>2. JoinInv' /\ BufferInv' BY <1>0, <1>1 DEF JoinInv, BufferInv
    <2>3. LeaveInv' BY <1>0, <1>1 DEF LeaveInv, Leaves
    <2> QED BY <2>1, <2>2, <2>3
  <1>2. CASE ops # <<>> /\ ops' = Tail(ops) /\ mishaps' = mishaps \cup {Head(ops)[2]} /\ UNCHANGED casts
    <2> DEFINE o == Head(ops)
    <2>0. ops \in Seq(Ops) BY DEF HubTypes
    <2>1. /\ Len(ops) \in Nat \ {0} /\ ops' \in Seq(Ops) /\ Len(ops') = Len(ops) - 1
          /\ o = ops[1] /\ o \in Ops /\ 1 \in 1 .. Len(ops)
          /\ \A i \in 1 .. Len(ops') : ops'[i] = ops[i + 1]
      BY <1>2, <2>0, HeadTailProperties, EmptySeq
    <2>2. /\ \A i \in 1 .. Len(ops') : i + 1 \in 1 .. Len(ops) /\ i + 1 # 1
          /\ \A i \in 1 .. Len(ops) : i # 1 => i - 1 \in 1 .. Len(ops') /\ ops'[i - 1] = ops[i]
      <3>1. \A i \in 1 .. Len(ops) : i # 1 => i - 1 \in 1 .. Len(ops') /\ (i - 1) + 1 = i BY <2>1
      <3> QED BY <2>1, <3>1
    <2>3. HubTypes' BY <1>0, <1>2, <2>1 DEF HubTypes
    <2>4. JoinInv'
      <3>1. ASSUME NEW d \in Conns, reader'[d] = "new"
            PROVE  d \notin clients' /\ send'[d] = <<>> /\ \A i \in 1 .. Len(ops') : ops'[i][2] # d
        BY <1>0, <2>1, <2>2, <3>1 DEF JoinInv
      <3>2. ASSUME NEW i \in 1 .. Len(ops'), ops'[i][1] = "register"
            PROVE  /\ ops'[i][2] \notin clients' /\ send'[ops'[i][2]] = <<>>
                   /\ \A j \in 1 .. Len(ops') : ops'[j] = ops'[i] => j = i
        <4>1. i + 1 \in 1 .. Len(ops) /\ ops[i + 1] = ops'[i] BY <2>1, <2>2
        <4>2. /\ ops[i + 1][2] \notin clients /\ send[ops[i + 1][2]] = <<>>
              /\ \A j \in 1 .. Len(ops) : ops[j] = ops[i + 1] => j = i + 1
          BY <3>2, <4>1 DEF JoinInv
        <4>3. \A j \in 1 .. Len(ops') : ops'[j] = ops'[i] => j = i
          <5> TAKE j \in 1 .. Len(ops')
          <5>1. j + 1 \in 1 .. Len(ops) /\ ops[j + 1] = ops'[j] BY <2>1, <2>2
          <5> QED BY <4>1, <4>2, <5>1
        <4> QED BY <1>0, <4>1, <4>2, <4>3
      <3> QED BY <3>1, <3>2 DEF JoinInv
    <2>5. BufferInv' BY <1>0 DEF BufferInv
    <2>6. LeaveInv'
      <3> SUFFICES ASSUME NEW d \in Conns \ mishaps', reader[d] = "ended" PROVE Leaves(d)'
        BY <1>0 DEF LeaveInv
      <3>1. Leaves(d) /\ d # o[2] BY <1>2 DEF LeaveInv
      <3> HIDE DEF o
      <3>2. CASE d \notin clients /\ \A i \in 1 .. Len(ops) : ops[i] # <<"register", d>>
        BY <1>0, <2>1, <2>2, <3>2 DEF Leaves
      <3>3. ASSUME NEW i \in 1 .. Len(ops), ops[i] = <<"unregister", d>>,
                   \A j \in 1 .. Len(ops) : ops[j] = <<"register", d>> => j < i
            PROVE  Leaves(d)'
        <4>1. i # 1 BY <2>1, <3>1, <3>3
        <4>2. i - 1 \in 1 .. Len(ops') /\ ops'[i - 1] = <<"unregister", d>> BY <2>2, <3>3, <4>1
        <4>3. \A j \in 1 .. Len(ops') : ops'[j] = <<"register", d>> => j < i - 1
          <5> SUFFICES ASSUME NEW j \in 1 .. Len(ops'), ops'[j] = <<"register", d>> PROVE j < i - 1
            OBVIOUS
          <5>1. ops'[j] = ops[j + 1] /\ j + 1 \in 1 .. Len(ops) BY <2>1, <2>2
          <5>2. j + 1 < i BY <3>3, <5>1
          <5> QED BY <5>2
        <4> QED BY <4>2, <4>3 DEF Leaves
      <3> QED BY <3>1, <3>2, <3>3 DEF Leaves
    <2> QED BY <2>3, <2>4, <2>5, <2>6
  <1> QED BY <1>1, <1>2 DEF HubPanics

(* A message is fanned out: it goes to the end of every buffer with room, and     *)
(* a client whose buffer is full goes.                                           *)
LEMMA FanoutKeeps == ASSUME HubIInv, Fanout PROVE HubIInv'
  <1> USE DEF HubIInv
  <1>0. /\ casts > 0 /\ casts' = casts - 1 /\ sent' = sent + 1
        /\ send' = [c \in Conns |-> IF c \in clients /\ ~Full(c) THEN Append(send[c], sent + 1) ELSE send[c]]
        /\ clients' = clients \ Evicted
        /\ closed' = [c \in Conns |-> closed[c] \/ c \in Evicted]
        /\ UNCHANGED <<ops, seen, reader, mishaps>>
    BY DEF Fanout
  <1>1. clients' \subseteq clients /\ \A c \in clients' : ~Full(c) BY <1>0 DEF Evicted
  <1>2. HubTypes'
    <2>1. \A c \in Conns : Append(send[c], sent + 1) \in Seq(Nat)
      <3> TAKE c \in Conns
      <3>1. send[c] \in Seq(Nat) /\ sent + 1 \in Nat BY DEF HubTypes
      <3> QED BY <3>1, AppendProperties
    <2>2. send' \in [Conns -> Seq(Nat)] BY <1>0, <2>1 DEF HubTypes
    <2>3. sent' \in Nat /\ casts' \in Nat BY <1>0 DEF HubTypes
    <2>4. closed' \in [Conns -> BOOLEAN] BY <1>0 DEF HubTypes
    <2> QED BY <1>0, <1>1, <2>2, <2>3, <2>4 DEF HubTypes
  <1>3. \A c \in Conns : c \notin clients => send'[c] = send[c] BY <1>0
  <1>4. JoinInv'
    <2>1. ASSUME NEW c \in Conns, reader[c] = "new"
          PROVE  c \notin clients' /\ send'[c] = <<>> /\ \A i \in 1 .. Len(ops) : ops[i][2] # c
      BY <1>1, <1>3, <2>1 DEF JoinInv
    <2>2. ASSUME NEW i \in 1 .. Len(ops), ops[i][1] = "register"
          PROVE  /\ ops[i][2] \notin clients' /\ send'[ops[i][2]] = <<>>
                 /\ \A j \in 1 .. Len(ops) : ops[j] = ops[i] => j = i
      <3>1. ops[i][2] \in Conns
        <4>1. ops[i] \in Ops BY ElementOfSeq DEF HubTypes
        <4> QED BY <4>1 DEF Ops
      <3> QED BY <1>1, <1>3, <2>2, <3>1 DEF JoinInv
    <2> QED BY <1>0, <2>1, <2>2 DEF JoinInv
  <1>5. BufferInv'
    <2> SUFFICES ASSUME NEW c \in clients'
                 PROVE  seen[c] <= sent' /\ send'[c] = Run(seen[c], sent' - seen[c])
      BY <1>0 DEF BufferInv
    <2> DEFINE a == seen[c]
               n == sent - a
    <2>1. c \in clients /\ ~Full(c) /\ c \in Conns BY <1>1 DEF HubTypes
    <2>2. a \in Nat /\ sent \in Nat /\ a <= sent /\ send[c] = Run(a, n) BY <2>1 DEF HubTypes, BufferInv
    <2>3. send'[c] = Append(send[c], sent + 1) BY <1>0, <2>1
    <2>4. n \in Nat /\ a + n + 1 = sent + 1 /\ sent' - a = n + 1 /\ a <= sent' BY <1>0, <2>2
    <2> HIDE DEF n, a
    <2>5. Append(Run(a, n), a + n + 1) = Run(a, n + 1) BY <2>2, <2>4, RunAppend
    <2>6. send'[c] = Run(a, sent' - a) BY <2>2, <2>3, <2>4, <2>5
    <2> QED BY <2>4, <2>6 DEF a
  <1>6. LeaveInv' BY <1>0, <1>1 DEF LeaveInv, Leaves
  <1> QED BY <1>2, <1>4, <1>5, <1>6

(* A pump writes the first message of its buffer.                                *)
LEMMA WriteKeeps == ASSUME HubIInv, NEW c \in Conns, WriteMessage(c) PROVE HubIInv'
  <1> USE DEF HubIInv
  <1>0. /\ send[c] # <<>> /\ seen' = [seen EXCEPT ![c] = Head(send[c])]
        /\ send' = [send EXCEPT ![c] = Tail(send[c])]
        /\ UNCHANGED <<clients, ops, casts, sent, closed, reader, mishaps>>
    BY DEF WriteMessage, regVars
  <1>1. Head(send[c]) \in Nat /\ Tail(send[c]) \in Seq(Nat)
    <2>1. send[c] \in Seq(Nat) BY DEF HubTypes
    <2> QED BY <1>0, <2>1, HeadTailProperties
  <1>2. HubTypes' BY <1>0, <1>1 DEF HubTypes
  <1>3. \A d \in Conns : send[d] = <<>> => send'[d] = <<>> BY <1>0 DEF HubTypes
  <1>4. JoinInv'
    <2>1. \A i \in 1 .. Len(ops) : ops[i][2] \in Conns
      <3> TAKE i \in 1 .. Len(ops)
      <3>1. ops[i] \in Ops BY ElementOfSeq DEF HubTypes
      <3> QED BY <3>1 DEF Ops
    <2> QED BY <1>0, <1>3, <2>1 DEF JoinInv
  <1>5. BufferInv'
    <2> SUFFICES ASSUME NEW d \in clients
                 PROVE  seen'[d] <= sent /\ send'[d] = Run(seen'[d], sent - seen'[d])
      BY <1>0 DEF BufferInv
    <2>1. d \in Conns BY DEF HubTypes
    <2>2. CASE d # c BY <1>0, <2>1, <2>2 DEF BufferInv, HubTypes
    <2>3. CASE d = c
      <3> DEFINE a == seen[c]
                 n == sent - a
      <3>1. a \in Nat /\ sent \in Nat /\ a <= sent /\ send[c] = Run(a, n)
        BY <2>3 DEF HubTypes, BufferInv
      <3>2. seen'[c] = Head(send[c]) /\ send'[c] = Tail(send[c]) BY <1>0 DEF HubTypes
      <3>3. n \in Nat BY <3>1
      <3> HIDE DEF n, a
      <3>4. n > 0 /\ Head(Run(a, n)) = a + 1 /\ Tail(Run(a, n)) = Run(a + 1, n - 1)
        BY <1>0, <3>1, <3>3, RunTail
      <3>5. a + 1 <= sent /\ sent - (a + 1) = n - 1 BY <3>1, <3>3, <3>4 DEF n
      <3> QED BY <2>3, <3>1, <3>2, <3>4, <3>5
    <2> QED BY <2>2, <2>3
  <1>6. LeaveInv' BY <1>0 DEF LeaveInv, Leaves
  <1> QED BY <1>2, <1>4, <1>5, <1>6

LEMMA HubStep == ASSUME HubIInv, [HubNext]_hubVars PROVE HubIInv'
  <1> USE DEF HubIInv
  <1>1. CASE Broadcast
    <2>1. casts' = casts + 1 /\ UNCHANGED <<clients, ops, sent, send, seen, closed, reader, mishaps>>
      BY <1>1 DEF Broadcast, regVars, connVars
    <2>2. HubTypes' BY <2>1 DEF HubTypes
    <2>3. JoinInv' /\ BufferInv' BY <2>1 DEF JoinInv, BufferInv
    <2>4. LeaveInv' BY <2>1 DEF LeaveInv, Leaves
    <2> QED BY <2>2, <2>3, <2>4
  <1>2. CASE HubResumes \/ Stop \/ UNCHANGED hubVars
             \/ \E c \in Conns : WriterEnds(c) \/ WriteFails(c)
    <2>1. UNCHANGED <<clients, ops, casts, sent, send, seen, closed, reader, mishaps>>
      BY <1>2 DEF HubResumes, Stop, WriterEnds, WriteFails, hubVars, regVars, connVars
    <2> QED BY <2>1 DEF HubTypes, JoinInv, BufferInv, LeaveInv, Leaves
  <1>3. CASE Shutdown
    <2>1. /\ clients' = {} /\ closed' = [c \in Conns |-> closed[c] \/ c \in clients]
          /\ UNCHANGED <<ops, casts, sent, send, seen, reader, mishaps>>
      BY <1>3 DEF Shutdown
    <2>2. HubTypes' BY <2>1 DEF HubTypes
    <2>3. JoinInv' /\ BufferInv' /\ LeaveInv' BY <2>1 DEF JoinInv, BufferInv, LeaveInv, Leaves
    <2> QED BY <2>2, <2>3
  <1>4. ASSUME NEW c \in Conns, ConnectionEnds(c) PROVE HubIInv'
    <2>1. /\ reader[c] = "on" /\ reader' = [reader EXCEPT ![c] = "leaving"]
          /\ UNCHANGED <<clients, ops, casts, sent, send, seen, closed, mishaps>>
      BY <1>4 DEF ConnectionEnds, regVars
    <2>2. HubTypes' /\ BufferInv' BY <2>1 DEF HubTypes, BufferInv
    <2>3. JoinInv' BY <2>1 DEF HubTypes, JoinInv
    <2>4. LeaveInv' BY <2>1 DEF HubTypes, LeaveInv, Leaves
    <2> QED BY <2>2, <2>3, <2>4
  <1> QED BY <1>1, <1>2, <1>3, <1>4, HubOpKeeps, PanicKeeps, FanoutKeeps, RegisterKeeps, UnregisterKeeps,
             WriteKeeps DEF HubNext, HubSteps, ConnSteps

(* The invariant of websocket.Hub: a connection registers once and before it is    *)
(* sent anything, a registered connection's buffer is exactly what it has not been *)
(* sent yet, and an Unregister stays behind its Register.                          *)
THEOREM HubInvariant == HubSpec => []HubIInv
  <1>1. HubInit => HubIInv BY HubInitial
  <1>2. HubIInv /\ [HubNext]_hubVars => HubIInv' BY HubStep
  <1> QED BY <1>1, <1>2, PTL DEF HubSpec

(* A registered browser's buffer is the messages it has not been sent yet, in      *)
(* order, without a gap and up to the last one fanned out (websocket.Hub.fanout).  *)
THEOREM HubNoGaps == HubSpec => []NoGaps
  <1>1. HubIInv => NoGaps BY DEF HubIInv, BufferInv, NoGaps, Run
  <1> QED BY <1>1, HubInvariant, PTL

(* A connection that ended is not registered, or its Unregister is still in the    *)
(* channel, unless it was given up (websocket.Hub.Unregister) or lost with a panic. *)
THEOREM HubNoLeak == HubSpec => []NoLeakedClient
  <1>1. HubIInv => NoLeakedClient
    <2> SUFFICES ASSUME HubIInv PROVE NoLeakedClient OBVIOUS
    <2>1. DOMAIN ops = 1 .. Len(ops) BY LenProperties DEF HubIInv, HubTypes
    <2> QED BY <2>1 DEF HubIInv, LeaveInv, Leaves, NoLeakedClient
  <1> QED BY <1>1, HubInvariant, PTL
=============================================================================
