----------------------------- MODULE MCServices -----------------------------
(* Services of the panel that share no state with each other, on small instances: *)
(* the sidecar manager, the event bus, the websocket hub and the quota of a       *)
(* client. `service` says which one steps in a behaviour, the others stay as they *)
(* start.                                                                         *)
EXTENDS TunnelManager, EventBus, WsHub, ClientQuota

VARIABLE service

mcTerms == {-1, 1}

mcVars == <<tunnelVars, busVars, hubVars, quotaVars, service>>

(* A service that does not step has one initial state; ids are only compared.     *)
MCInit ==
    /\ service \in {"tunnel", "bus", "hub", "quota"}
    /\ TunnelInit /\ BusInit /\ HubInit /\ QuotaInit
    /\ \A w \in Workers :
         service # "bus" \/ (w = CHOOSE v \in Workers : TRUE) => idOf[w] = CHOOSE i \in Ids : TRUE
    /\ service # "quota" => rec.until < 0

MCNext ==
    \/ service = "tunnel" /\ TunnelNext /\ UNCHANGED <<busVars, hubVars, quotaVars, service>>
    \/ service = "bus" /\ BusNext /\ UNCHANGED <<tunnelVars, hubVars, quotaVars, service>>
    \/ service = "hub" /\ HubNext /\ UNCHANGED <<tunnelVars, busVars, quotaVars, service>>
    \/ service = "quota" /\ QuotaNext /\ UNCHANGED <<tunnelVars, busVars, hubVars, service>>

(* The fairness of each module, for the service that steps.                       *)
MCFairness ==
    /\ WF_tunnelVars(service = "tunnel" /\ JobSteps)
    /\ SF_tunnelVars(service = "tunnel" /\ StopProcess)
    /\ \A e \in Editors :
         /\ WF_tunnelVars(service = "tunnel" /\ (EnsureSteps(e) \/ RemoveSteps(e)))
         /\ SF_tunnelVars(service = "tunnel" /\ (EnsureOff(e) \/ EnsureWrite(e) \/ RemoveStop(e)))
    /\ WF_busVars(service = "bus" /\ (Dispatch \/ DispatchExits))
    /\ WF_busVars(service = "bus" /\ (StopCloses \/ StopReturns))
    /\ \A w \in Workers : WF_busVars(service = "bus" /\ WorkerSteps(w))
    /\ WF_hubVars(service = "hub" /\ (HubOp \/ Fanout \/ HubResumes))
    /\ WF_hubVars(service = "hub" /\ Shutdown)
    /\ \A k \in Conns :
         /\ WF_hubVars(service = "hub" /\ (WriteMessage(k) \/ WriterEnds(k)))
         /\ WF_hubVars(service = "hub" /\ Unregister(k))
         /\ WF_hubVars(service = "hub" /\ writer[k] = "ended" /\ ConnectionEnds(k))
    /\ WF_quotaVars(service = "quota" /\ TimePasses)
    /\ WF_quotaVars(service = "quota" /\ \E last \in Homes : PollCounts(0, last) \/ PollMaintains(last))

MCSpec == MCInit /\ [][MCNext]_mcVars /\ MCFairness
=============================================================================
