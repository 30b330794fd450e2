------------------------------ MODULE MCNodes ------------------------------
(* What a master and a node keep of each other, on small instances: the clients  *)
(* of an inbound (NodeSync), the usage of a client (NodeTraffic), the inbounds    *)
(* themselves (NodeAdoption), the addresses of a client (ClientIps), the limit on *)
(* them (IpLimit) and clients no node reports any more (SyncOrphans). `part` says *)
(* which of them steps in a behaviour, the others stay as they start.             *)
EXTENDS NodeSync, NodeTraffic, NodeAdoption, ClientIps, IpLimit, SyncOrphans, TLC

CONSTANTS node1, node2, far

VARIABLE part

mcNodeOf == [i \in Inbs |-> IF i = far THEN node2 ELSE node1]

\* Clients and addresses are only compared for equality.
Symmetry == Permutations(Clients) \cup Permutations(Ips)

mcVars == <<vars, trafficVars, adoptionVars, ipsVars, limitVars, orphanVars, part>>

\* A part that does not step has one initial state. The addresses of ClientIps
\* connect to the node if it is a clone, to the master if it is not.
MCInit ==
    /\ part \in {"sync", "traffic", "adoption", "ips", "limit", "orphans"}
    /\ Init /\ TrafficInit /\ AdoptionInit /\ ClientIpsInit /\ LimitInit /\ OrphansInit
    /\ part # "sync" => m = {} /\ fp = {}
    /\ part # "traffic" => known = {}
    /\ part # "adoption" => served = {} /\ selection = All
    /\ part # "ips" => cloned
    /\ reach = {IF cloned THEN "node" ELSE "master"} \X Addresses
    /\ part # "limit" => ~rowed
    /\ part # "orphans" => links = {}

MCNext ==
    \/ part = "sync" /\ Next /\ UNCHANGED <<trafficVars, adoptionVars, ipsVars, limitVars, orphanVars, part>>
    \/ part = "traffic" /\ TrafficNext /\ UNCHANGED <<vars, adoptionVars, ipsVars, limitVars, orphanVars, part>>
    \/ part = "adoption" /\ AdoptionNext /\ UNCHANGED <<vars, trafficVars, ipsVars, limitVars, orphanVars, part>>
    \/ part = "ips" /\ ClientIpsNext /\ UNCHANGED <<vars, trafficVars, adoptionVars, limitVars, orphanVars, part>>
    \/ part = "limit" /\ LimitNext /\ UNCHANGED <<vars, trafficVars, adoptionVars, ipsVars, orphanVars, part>>
    \/ part = "orphans" /\ OrphansNext /\ UNCHANGED <<vars, trafficVars, adoptionVars, ipsVars, limitVars, part>>

MCSpec == MCInit /\ [][MCNext]_mcVars
=============================================================================
