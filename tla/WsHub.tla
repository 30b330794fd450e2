------------------------------- MODULE WsHub -------------------------------
(* websocket.Hub with the connections of WebSocketService: Register and         *)
(* Unregister through one bounded channel, fan-out with eviction of slow        *)
(* clients, restart of the loop after a panic, and Stop. Messages are numbered  *)
(* as the hub fans them out.                                                    *)
EXTENDS Naturals, Sequences

CONSTANTS
    Conns,        \* connections, each with one Client
    OpsSize,      \* hubOpsQueue
    CastSize,     \* hubBroadcastQueue
    SendSize,     \* clientSendQueue
    Attempts,     \* hubRestartAttempts
    MaxCasts      \* bound: messages fanned out

ASSUME HubSizeAssumption == OpsSize \in Nat \ {0} /\ CastSize \in Nat \ {0} /\ SendSize \in Nat \ {0}
ASSUME AttemptsAssumption == Attempts \in Nat \ {0}
ASSUME MaxCastsAssumption == MaxCasts \in Nat

VARIABLES
    clients,    \* Hub.clients
    ops,        \* Hub.ops: <<kind, client>>
    casts,      \* number of messages in Hub.broadcast
    cancelled,  \* Hub.ctx is done
    hub,        \* Run: "loop", "backoff", "stopped" (after shutdown) or "down" (without)
    crashes,    \* Run: attempts used up by panics
    sent,       \* messages fanned out so far
    send,       \* Client.Send
    closed,     \* Client.Send is closed
    seen,       \* the last message written to the connection, or where it joined
    reader,     \* readPump: "new", "on", "leaving" (in Unregister) or "ended"
    writer,     \* writePump: "new", "on" or "ended"
    mishaps     \* ghost: clients whose Register or Unregister was not carried out

regVars == <<clients, ops>>
runVars == <<cancelled, hub, crashes>>
connVars == <<send, closed, seen, reader, writer>>
hubVars == <<regVars, casts, runVars, sent, connVars, mishaps>>

HubInit ==
    /\ clients = {} /\ ops = <<>> /\ casts = 0
    /\ cancelled = FALSE /\ hub = "loop" /\ crashes = 0 /\ sent = 0
    /\ send = [c \in Conns |-> <<>>] /\ closed = [c \in Conns |-> FALSE]
    /\ seen = [c \in Conns |-> 0]
    /\ reader = [c \in Conns |-> "new"] /\ writer = [c \in Conns |-> "new"]
    /\ mishaps = {}

-----------------------------------------------------------------------------
(* HandleConnection: Register, which waits for room in ops without a timeout or  *)
(* returns when the hub was cancelled; then the pumps start.                     *)
Register(c) ==
    /\ reader[c] = "new"
    /\ \/ /\ Len(ops) < OpsSize
          /\ ops' = Append(ops, <<"register", c>>)
          /\ UNCHANGED mishaps
       \/ /\ cancelled
          /\ mishaps' = mishaps \cup {c}
          /\ UNCHANGED ops
    /\ reader' = [reader EXCEPT ![c] = "on"] /\ writer' = [writer EXCEPT ![c] = "on"]
    /\ UNCHANGED <<clients, casts, runVars, sent, send, closed, seen>>

(* readPump ends with the connection: the browser went, a deadline passed, or    *)
(* writePump closed it.                                                          *)
ConnectionEnds(c) ==
    /\ reader[c] = "on"
    /\ reader' = [reader EXCEPT ![c] = "leaving"]
    /\ UNCHANGED <<regVars, casts, runVars, sent, send, closed, seen, writer, mishaps>>

(* Faulty variant: the entry is deleted without a word to the loop.              *)
UnregisterDirectly(c) ==
    /\ reader[c] = "leaving"
    /\ clients' = clients \ {c}
    /\ closed' = [closed EXCEPT ![c] = @ \/ c \in clients]
    /\ reader' = [reader EXCEPT ![c] = "ended"]
    /\ UNCHANGED <<ops, casts, runVars, sent, send, seen, writer, mishaps>>

(* Unregister goes through the same channel; it gives up after a timeout or when *)
(* the hub was cancelled. Then the connection is closed.                         *)
Unregister(c) ==
    /\ reader[c] = "leaving"
    /\ \/ /\ Len(ops) < OpsSize
          /\ ops' = Append(ops, <<"unregister", c>>)
          /\ UNCHANGED mishaps
       \/ /\ Len(ops) = OpsSize \/ cancelled
          /\ mishaps' = mishaps \cup {c}
          /\ UNCHANGED ops
    /\ reader' = [reader EXCEPT ![c] = "ended"]
    /\ UNCHANGED <<clients, casts, runVars, sent, send, closed, seen, writer>>

(* writePump: the next message, or the close frame once Send is closed and       *)
(* empty, or an error of a write or a ping; it closes the connection.            *)
WriteMessage(c) ==
    /\ writer[c] = "on" /\ send[c] # <<>>
    /\ seen' = [seen EXCEPT ![c] = Head(send[c])]
    /\ send' = [send EXCEPT ![c] = Tail(@)]
    /\ UNCHANGED <<regVars, casts, runVars, sent, closed, reader, writer, mishaps>>

WriterEnds(c) ==
    /\ writer[c] = "on"
    /\ (closed[c] /\ send[c] = <<>>) \/ reader[c] = "ended"
    /\ writer' = [writer EXCEPT ![c] = "ended"]
    /\ UNCHANGED <<regVars, casts, runVars, sent, send, closed, seen, reader, mishaps>>

WriteFails(c) ==
    /\ writer[c] = "on" /\ ~closed[c] /\ reader[c] = "on"
    /\ writer' = [writer EXCEPT ![c] = "ended"]
    /\ UNCHANGED <<regVars, casts, runVars, sent, send, closed, seen, reader, mishaps>>

-----------------------------------------------------------------------------
(* Broadcast: nothing without clients; dropped when the channel is full or the   *)
(* hub cancelled, and when throttled.                                            *)
Broadcast ==
    /\ clients # {} /\ casts < CastSize /\ sent + casts < MaxCasts
    /\ casts' = casts + 1
    /\ UNCHANGED <<regVars, runVars, sent, connVars, mishaps>>

(* The loop: a client joins at the next message, or leaves and is closed.        *)
HubOp ==
    /\ hub = "loop" /\ ops # <<>>
    /\ ops' = Tail(ops)
    /\ LET c == Head(ops)[2]
       IN  IF Head(ops)[1] = "register"
             THEN /\ clients' = clients \cup {c}
                  /\ seen' = [seen EXCEPT ![c] = sent]
                  /\ UNCHANGED closed
             ELSE /\ clients' = clients \ {c}
                  /\ closed' = [closed EXCEPT ![c] = @ \/ c \in clients]
                  /\ UNCHANGED seen
    /\ UNCHANGED <<casts, runVars, sent, send, reader, writer, mishaps>>

Full(c) == Len(send[c]) >= SendSize

(* Faulty variant: a slow client misses the message and stays.                   *)
NobodyEvicted == {}

(* fanout removes the clients whose Send is full.                                *)
Evicted == {c \in clients : Full(c)}

Fanout ==
    /\ hub = "loop" /\ casts > 0
    /\ casts' = casts - 1
    /\ sent' = sent + 1
    /\ send' = [c \in Conns |-> IF c \in clients /\ ~Full(c) THEN Append(send[c], sent + 1) ELSE send[c]]
    /\ clients' = clients \ Evicted
    /\ closed' = [c \in Conns |-> closed[c] \/ c \in Evicted]
    /\ UNCHANGED <<ops, runVars, seen, reader, writer, mishaps>>

(* A panic in the loop, over an operation or a message it has taken, which is    *)
(* lost: after a pause the loop starts again, with the clients it had, unless the *)
(* attempts are used up. A cancel during the pause ends Run without a shutdown.  *)
HubPanics ==
    /\ hub = "loop" /\ crashes < Attempts
    /\ crashes' = crashes + 1
    /\ hub' = IF crashes' < Attempts THEN "backoff" ELSE "down"
    /\ \/ /\ ops # <<>>
          /\ ops' = Tail(ops) /\ mishaps' = mishaps \cup {Head(ops)[2]}
          /\ UNCHANGED casts
       \/ /\ casts > 0
          /\ casts' = casts - 1
          /\ UNCHANGED <<ops, mishaps>>
    /\ UNCHANGED <<clients, cancelled, sent, connVars>>

HubResumes ==
    /\ hub = "backoff"
    /\ \/ hub' = "loop"
       \/ cancelled /\ hub' = "down"
    /\ UNCHANGED <<regVars, casts, cancelled, crashes, sent, connVars, mishaps>>

Stop ==
    /\ ~cancelled
    /\ cancelled' = TRUE
    /\ UNCHANGED <<regVars, casts, hub, crashes, sent, connVars, mishaps>>

(* Faulty variant: the clients are forgotten, not closed.                        *)
ShutdownForgets ==
    /\ hub = "loop" /\ cancelled
    /\ hub' = "stopped"
    /\ clients' = {}
    /\ UNCHANGED <<ops, casts, cancelled, crashes, sent, connVars, mishaps>>

(* shutdown closes every client. A Register still in the channel is never read.  *)
Shutdown ==
    /\ hub = "loop" /\ cancelled
    /\ hub' = "stopped"
    /\ closed' = [c \in Conns |-> closed[c] \/ c \in clients]
    /\ clients' = {}
    /\ UNCHANGED <<ops, casts, cancelled, crashes, sent, send, seen, reader, writer, mishaps>>

ConnSteps(c) ==
    \/ Register(c) \/ ConnectionEnds(c) \/ Unregister(c) \/ WriteMessage(c) \/ WriterEnds(c)
    \/ WriteFails(c)

HubSteps == HubOp \/ Fanout \/ HubResumes \/ Shutdown

HubNext == Broadcast \/ HubPanics \/ Stop \/ HubSteps \/ \E c \in Conns : ConnSteps(c)

(* The loop runs, a cancelled context is noticed at last, a pump keeps writing,  *)
(* a connection its writer closed ends and Unregister returns.                   *)
HubFairness ==
    /\ WF_hubVars(HubOp \/ Fanout \/ HubResumes) /\ WF_hubVars(Shutdown)
    /\ \A c \in Conns :
         /\ WF_hubVars(WriteMessage(c) \/ WriterEnds(c))
         /\ WF_hubVars(Unregister(c))
         /\ WF_hubVars(writer[c] = "ended" /\ ConnectionEnds(c))

HubSpec == HubInit /\ [][HubNext]_hubVars /\ HubFairness

-----------------------------------------------------------------------------
(* Types of the state of websocket.Hub and its clients.                          *)
HubTypeOK ==
    /\ clients \subseteq Conns
    /\ ops \in Seq({"register", "unregister"} \X Conns) /\ Len(ops) <= OpsSize
    /\ casts \in 0 .. CastSize /\ cancelled \in BOOLEAN
    /\ hub \in {"loop", "backoff", "stopped", "down"} /\ crashes \in 0 .. Attempts
    /\ sent \in 0 .. MaxCasts
    /\ send \in [Conns -> Seq(1 .. MaxCasts)] /\ \A c \in Conns : Len(send[c]) <= SendSize
    /\ closed \in [Conns -> BOOLEAN] /\ seen \in [Conns -> 0 .. MaxCasts]
    /\ reader \in [Conns -> {"new", "on", "leaving", "ended"}]
    /\ writer \in [Conns -> {"new", "on", "ended"}]
    /\ mishaps \subseteq Conns

(* A browser that is connected misses nothing: what it has not been sent yet is  *)
(* in its buffer, in order and without a gap, up to the last message fanned out. *)
(* A client that falls behind is cut off, never skipped (fanout).                *)
NoGaps ==
    \A c \in clients : send[c] = [i \in 1 .. (sent - seen[c]) |-> seen[c] + i]

(* No entry leaks: a client whose reader has ended is not registered, or its     *)
(* Unregister is in the channel behind its Register, unless that Unregister was  *)
(* given up (Hub.Unregister, hub.go:338) or lost with a panic.                   *)
NoLeakedClient ==
    \A c \in Conns \ mishaps :
        reader[c] = "ended" =>
            \/ c \notin clients /\ \A i \in DOMAIN ops : ops[i] # <<"register", c>>
            \/ \E i \in DOMAIN ops :
                 /\ ops[i] = <<"unregister", c>>
                 /\ \A j \in DOMAIN ops : ops[j] = <<"register", c>> => j < i

(* Stop closes every connection that was registered (hub.go:359), whatever the   *)
(* buffers held; not those of a hub that is down after panics, nor one whose     *)
(* Register was not read any more.                                               *)
StopClosesAll ==
    \A c \in Conns :
        (cancelled /\ c \in clients) ~> ((reader[c] = "ended" /\ writer[c] = "ended") \/ hub = "down")
=============================================================================
