----------------------------- MODULE ClientIps -----------------------------
(* The addresses one client uses, as a master and its node know them. Each panel *)
(* keeps a row of all addresses it heard of (inbound_client_ips) and, per panel  *)
(* GUID, those that panel's own core saw (node_client_ips). The scan of each     *)
(* panel writes both, the sync of the master copies the row in both directions   *)
(* and the attribution upwards, and the prune ages both. Nothing orders them.    *)
(* Times are relative: 0 is now, and what is too old to matter is Expired. The   *)
(* clocks of the panels agree. A row without entries and no row are alike. The    *)
(* limit itself is in IpLimit; here no address is over it.                       *)
EXTENDS IpEntries

CONSTANTS
    Addresses,   \* addresses of the client
    StaleAfter   \* clientIpStaleAfterSeconds

ASSUME StaleAssumption == StaleAfter \in Nat

VARIABLES
    cloned,    \* the node runs on a copy of the master's disk: equal GUIDs
    reach,     \* which addresses can connect to which panel's core
    conns,     \* core: lastSeen of the connected addresses, per panel
    heard,     \* inbound_client_ips
    sights,    \* node_client_ips: the entries a panel keeps per GUID
    scan,      \* CheckClientIpJob: its place, the entries it read and the new ones
    sync,      \* the address part of syncOne: the same
    everSeen,  \* ghost: what the scans of a panel observed, ever
    dropped    \* ghost: addresses a panel pruned that nobody used since

ghostIps == <<everSeen, dropped>>
ipsVars == <<cloned, reach, conns, heard, sights, scan, sync, ghostIps>>

Panels == {"master", "node"}
Keys == {"guid1", "guid2", "synth"}
Expired == -(StaleAfter + 1)
Cutoff == -StaleAfter

Guid(p) == IF p = "node" /\ ~cloned THEN "guid2" ELSE "guid1"

(* Faulty variant: the GUID as the node reports it.                              *)
ReportedKey == Guid("node")

(* effectiveNodeKey: a GUID that is not unique is replaced.                      *)
EffectiveNodeKey == IF Guid("node") = Guid("master") THEN "synth" ELSE Guid("node")

At(place, base, new) == [at |-> place, base |-> base, new |-> new]
Idle == At("idle", NoEntries, NoEntries)

ClientIpsInit ==
    /\ cloned \in BOOLEAN /\ reach \in SUBSET (Panels \X Addresses)
    /\ conns = [p \in Panels |-> NoEntries] /\ heard = [p \in Panels |-> NoEntries]
    /\ sights = [p \in Panels |-> [g \in Keys |-> NoEntries]]
    /\ scan = [p \in Panels |-> Idle] /\ sync = Idle
    /\ everSeen = [p \in Panels |-> {}] /\ dropped = [p \in Panels |-> {}]

(* A stored list after it was read as base and is written as new: an insert that  *)
(* loses to another one, an update that finds no row or has nothing to change     *)
(* leaves what is there.                                                         *)
Written(base, current, new) ==
    IF new = base \/ (base = NoEntries) # (current = NoEntries) THEN current ELSE new

-----------------------------------------------------------------------------
(* Time passes for everything that carries a time.                               *)
Older(e) == [ip \in DOMAIN e |-> IF e[ip] = Expired THEN Expired ELSE e[ip] - 1]
OlderAt(j) == At(j.at, Older(j.base), Older(j.new))

Ages ==
    /\ conns' = [p \in Panels |-> Older(conns[p])]
    /\ heard' = [p \in Panels |-> Older(heard[p])]
    /\ sights' = [p \in Panels |-> [g \in Keys |-> Older(sights[p][g])]]
    /\ scan' = [p \in Panels |-> OlderAt(scan[p])] /\ sync' = OlderAt(sync)
    /\ UNCHANGED <<cloned, reach, ghostIps>>

(* The core of panel p: a dispatch, and the end of the last connection.          *)
Dispatches(p, ip) ==
    /\ <<p, ip>> \in reach
    /\ conns' = [conns EXCEPT ![p] = Latest([x \in {ip} |-> 0], @)]
    /\ dropped' = [q \in Panels |-> dropped[q] \ {ip}]
    /\ UNCHANGED <<cloned, reach, heard, sights, scan, sync, everSeen>>

Disconnects(p, ip) ==
    /\ ip \in DOMAIN conns[p]
    /\ conns' = [conns EXCEPT ![p] = Restrict(@, DOMAIN @ \ {ip})]
    /\ UNCHANGED <<cloned, reach, heard, sights, scan, sync, ghostIps>>
-----------------------------------------------------------------------------
ScanAt(p, place) == scan[p].at = place
ScanGoes(p, j) == scan' = [scan EXCEPT ![p] = j]

(* CheckClientIpJob.Run begins with pruneStaleIpRows, when it is due: the row is   *)
(* read, then written back or deleted; after it the attribution.                 *)
PruneReads(p) ==
    /\ ScanAt(p, "idle")
    /\ ScanGoes(p, At("prune", heard[p], FreshEntries(heard[p], Cutoff)))
    /\ UNCHANGED <<cloned, reach, conns, heard, sights, sync, ghostIps>>

(* Nobody is connected from the address, every copy of it that is stored, fetched  *)
(* or read is too old, and no write that is to come holds it.                      *)
IsFresh(ip, entries) == ip \in DOMAIN FreshEntries(entries, Cutoff)

Spent(ip) ==
    /\ \A p \in Panels :
         /\ ip \notin DOMAIN conns[p] /\ ~IsFresh(ip, heard[p])
         /\ \A g \in Keys : ~IsFresh(ip, sights[p][g])
         /\ ~IsFresh(ip, scan[p].base) /\ ~IsFresh(ip, scan[p].new)
         /\ scan[p].at \in {"read", "written"} => ip \notin DOMAIN scan[p].new
    /\ ~IsFresh(ip, sync.new)
    /\ sync.at \in {"merging", "storing"} => ip \notin DOMAIN sync.new

(* pruneStaleNodeClientIps.                                                      *)
PrunedSights(p) == [g \in Keys |-> FreshEntries(sights[p][g], Cutoff)]

PruneWrites(p) ==
    /\ ScanAt(p, "prune")
    /\ heard' = [heard EXCEPT ![p] = Written(scan[p].base, @, scan[p].new)]
    /\ sights' = [sights EXCEPT ![p] = PrunedSights(p)]
    /\ dropped' = [dropped EXCEPT ![p] = @ \cup {ip \in Addresses : Spent(ip) /\ ip \notin DOMAIN heard'[p]}]
    /\ ScanGoes(p, Idle)
    /\ UNCHANGED <<cloned, reach, conns, sync, everSeen>>

(* The scan: GetOnlineUsers, then the stored row; nothing for a client that is     *)
(* not connected.                                                                *)
ScanReads(p) ==
    /\ ScanAt(p, "idle")
    /\ conns[p] # NoEntries
    /\ ScanGoes(p, At("read", heard[p], conns[p]))
    /\ everSeen' = [everSeen EXCEPT ![p] = @ \cup DOMAIN conns[p]]
    /\ UNCHANGED <<cloned, reach, conns, heard, sights, sync, dropped>>

(* The transaction of processObserved: without a limit the row becomes what was    *)
(* observed, with one it is merged. The save also restores a row deleted since.   *)
ScanWrites(p, limited) ==
    /\ ScanAt(p, "read")
    /\ LET base == scan[p].base
           new == IF limited THEN MergeScan(base, scan[p].new, Cutoff) ELSE scan[p].new
       IN  heard' = [heard EXCEPT ![p] = IF base = NoEntries /\ @ # NoEntries THEN @ ELSE new]
    /\ ScanGoes(p, At("written", NoEntries, scan[p].new))
    /\ UNCHANGED <<cloned, reach, conns, sights, sync, ghostIps>>

(* What recordLocalAttribution records: the observations, as of now.               *)
Attributed(p) == [ip \in DOMAIN scan[p].new |-> 0]

ScanRecords(p) ==
    /\ ScanAt(p, "written")
    /\ sights' = [sights EXCEPT ![p][Guid(p)] = MergeEntries(@, Attributed(p), Cutoff)]
    /\ ScanGoes(p, Idle)
    /\ UNCHANGED <<cloned, reach, conns, heard, sync, ghostIps>>

(* It is skipped after an error, and without a GUID.                              *)
ScanRecordsFails(p) ==
    /\ ScanAt(p, "written")
    /\ ScanGoes(p, Idle)
    /\ UNCHANGED <<cloned, reach, conns, heard, sights, sync, ghostIps>>
-----------------------------------------------------------------------------
(* The address part of syncOne: the node's row is merged into the master's, the    *)
(* master's pushed to the node, which merges it too, and the attribution fetched.  *)
(* A call that fails or brings nothing is skipped.                                *)
SyncGoes(from, j) == sync.at = from /\ sync' = j

SyncFetches ==
    /\ heard["node"] # NoEntries
    /\ SyncGoes("idle", At("fetched", NoEntries, heard["node"]))
    /\ UNCHANGED <<cloned, reach, conns, heard, sights, scan, ghostIps>>

(* MergeInboundClientIps on panel p: read, then a transaction.                     *)
MergeReads(p, from, to) ==
    /\ SyncGoes(from, At(to, heard[p], MergeEntries(heard[p], sync.new, Cutoff)))
    /\ UNCHANGED <<cloned, reach, conns, heard, sights, scan, ghostIps>>

MergeWrites(p, from, to) ==
    /\ SyncGoes(from, At(to, NoEntries, NoEntries))
    /\ heard' = [heard EXCEPT ![p] = Written(sync.base, @, sync.new)]
    /\ UNCHANGED <<cloned, reach, conns, sights, scan, ghostIps>>

MasterMerges == MergeReads("master", "fetched", "merging") \/ MergeWrites("master", "merging", "merged")

(* GetNodeInboundClientIps and PushAllClientIps.                                  *)
SyncPushes ==
    /\ heard["master"] # NoEntries
    /\ SyncGoes("merged", At("pushing", NoEntries, heard["master"]))
    /\ UNCHANGED <<cloned, reach, conns, heard, sights, scan, ghostIps>>

NodeMerges == MergeReads("node", "pushing", "storing") \/ MergeWrites("node", "storing", "pushed")

(* FetchClientIpsByGuid, which GetClientIpsByGuid answers with what is fresh.      *)
SyncFetchesSights ==
    /\ SyncGoes("pushed", At("sights", NoEntries, FreshEntries(sights["node"][Guid("node")], Cutoff)))
    /\ UNCHANGED <<cloned, reach, conns, heard, sights, scan, ghostIps>>

(* MergeClientIpsByGuid: the node's own entries are stored under its key.          *)
MergeClientIpsByGuid ==
    /\ SyncGoes("sights", Idle)
    /\ sights' = [sights EXCEPT !["master"][EffectiveNodeKey] = MergeEntries(@, sync.new, Cutoff)]
    /\ UNCHANGED <<cloned, reach, conns, heard, scan, ghostIps>>

(* A call failed, or there was nothing to send.                                   *)
SyncSkips ==
    /\ \/ SyncGoes("idle", At("merged", NoEntries, NoEntries))
       \/ SyncGoes("merged", At("pushed", NoEntries, NoEntries))
       \/ SyncGoes("pushing", At("pushed", NoEntries, NoEntries))
       \/ SyncGoes("pushed", Idle)
    /\ UNCHANGED <<cloned, reach, conns, heard, sights, scan, ghostIps>>
-----------------------------------------------------------------------------
PruneSteps(p) == PruneReads(p) \/ PruneWrites(p)

ScanSteps(p) ==
    \/ ScanReads(p) \/ ScanRecords(p) \/ ScanRecordsFails(p)
    \/ \E limited \in BOOLEAN : ScanWrites(p, limited)

SyncMerges == MasterMerges \/ NodeMerges \/ MergeClientIpsByGuid

CoreSteps(p) == \E ip \in Addresses : Dispatches(p, ip) \/ Disconnects(p, ip)

ClientIpsNext ==
    \/ Ages
    \/ \E p \in Panels : CoreSteps(p) \/ PruneSteps(p) \/ ScanSteps(p)
    \/ SyncFetches \/ SyncPushes \/ SyncFetchesSights \/ SyncMerges \/ SyncSkips

ClientIpsSpec == ClientIpsInit /\ [][ClientIpsNext]_ipsVars
-----------------------------------------------------------------------------
(* Types of the address rows, the attribution and the jobs that copy them.         *)
ClientIpsTypeOK ==
    /\ cloned \in BOOLEAN
    /\ \A p \in Panels :
         /\ DOMAIN conns[p] \cup DOMAIN heard[p] \subseteq Addresses
         /\ \A ip \in DOMAIN heard[p] : heard[p][ip] \in Expired..0
         /\ scan[p].at \in {"idle", "prune", "read", "written"}

(* An address is attributed to the panel whose core really saw it, never to one     *)
(* that was only told of it by the push of its master or shares its GUID with the   *)
(* other one (inbound_node_ips.go:13, MergeClientIpsByGuid).                        *)
AttributionIsTrue ==
    /\ DOMAIN sights["master"][Guid("master")] \subseteq everSeen["master"]
    /\ DOMAIN sights["master"][EffectiveNodeKey] \subseteq everSeen["node"]
    /\ DOMAIN sights["node"][Guid("node")] \subseteq everSeen["node"]

(* An address that a panel has pruned while nobody used it does not come back       *)
(* before it is used again: neither the push of the master nor the fetch from the   *)
(* node, however late, brings back a copy the other panel has not pruned yet        *)
(* (inbound_client_ips.go:49), in the rows or in the attribution.                   *)
NotResurrected ==
    \A p \in Panels : \A ip \in dropped[p] :
        ip \notin DOMAIN heard[p] /\ \A g \in Keys : ip \notin DOMAIN sights[p][g]
=============================================================================
