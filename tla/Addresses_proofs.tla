-------------------------- MODULE Addresses_proofs --------------------------
(* Proofs about the addresses of a client, for any addresses, retention and limit.   *)
(* ClientIps: an address is attributed only to the panel that saw it, and what was    *)
(* pruned stays away until it is used again. IpLimit: the momentary removal of a      *)
(* client leaves the core as the database wants it, and whoever is over the limit     *)
(* has its line in the log, but for the named exceptions.                            *)
EXTENDS ClientIps, IpLimit, TLAPS

Entries(f) == \A ip \in DOMAIN f : f[ip] \in Int

JobEntries(j) == Entries(j.base) /\ Entries(j.new)

ScanPlaces == {"idle", "prune", "read", "written"}

EntryTypes ==
    /\ DOMAIN conns = Panels /\ DOMAIN heard = Panels /\ DOMAIN sights = Panels /\ DOMAIN scan = Panels
    /\ DOMAIN everSeen = Panels /\ DOMAIN dropped = Panels
    /\ \A p \in Panels : /\ Entries(conns[p]) /\ Entries(heard[p]) /\ JobEntries(scan[p])
                         /\ scan[p].at \in ScanPlaces
                         /\ DOMAIN sights[p] = Keys /\ \A g \in Keys : Entries(sights[p][g])
    /\ JobEntries(sync)

(* What is on its way into the attribution was seen by the panel it is for.         *)
SeenInv ==
    /\ \A p \in Panels :
         /\ scan[p].at \in {"read", "written"} => DOMAIN scan[p].new \subseteq everSeen[p]
         /\ DOMAIN sights[p][Guid(p)] \subseteq everSeen[p]
    /\ sync.at = "sights" => DOMAIN sync.new \subseteq everSeen["node"]
    /\ DOMAIN sights["master"][EffectiveNodeKey] \subseteq everSeen["node"]

(* What a panel dropped is spent everywhere and gone from this panel.               *)
Away(p, ip) ==
    /\ ip \notin DOMAIN heard[p] /\ \A g \in Keys : ip \notin DOMAIN sights[p][g]
    /\ scan[p].at = "prune" => ip \notin DOMAIN scan[p].new

DroppedInv == \A p \in Panels : \A ip \in dropped[p] : Spent(ip) /\ Away(p, ip)
-----------------------------------------------------------------------------
(* The domain of the list operators: only what is fresh is kept, nothing is added.  *)
LEMMA ListDomains ==
    /\ NoEntries = [ip \in {} |-> 0] /\ DOMAIN NoEntries = {}
    /\ \A f, ip : IsFresh(ip, f) <=> ip \in DOMAIN f /\ f[ip] >= Cutoff
    /\ \A f, ip : ip \in DOMAIN FreshEntries(f, Cutoff) <=> IsFresh(ip, f)
    /\ \A f, g : DOMAIN Latest(f, g) = DOMAIN f \cup DOMAIN g
    /\ \A f, g, ip : ip \in DOMAIN MergeEntries(f, g, Cutoff) <=> IsFresh(ip, f) \/ IsFresh(ip, g)
    /\ \A f, g, ip : ip \in DOMAIN MergeScan(f, g, Cutoff) <=> IsFresh(ip, f) \/ ip \in DOMAIN g
    /\ \A f : DOMAIN Older(f) = DOMAIN f
BY DEF NoEntries, IsFresh, FreshEntries, Restrict, Latest, MergeEntries, MergeScan, Older

(* The list operators keep lists of integers.                                       *)
LEMMA ListTypes ==
    /\ Entries(NoEntries)
    /\ \A f : Entries(f) => Entries(FreshEntries(f, Cutoff)) /\ Entries(Older(f))
    /\ \A f, S : Entries(f) /\ S \subseteq DOMAIN f => Entries(Restrict(f, S))
    /\ \A f, g : Entries(f) /\ Entries(g) => Entries(Latest(f, g))
    /\ \A f, g : Entries(f) /\ Entries(g) => Entries(MergeEntries(f, g, Cutoff)) /\ Entries(MergeScan(f, g, Cutoff))
<1>1. Entries(NoEntries)
    BY DEF Entries, NoEntries
<1>2. ASSUME NEW f, NEW S, Entries(f), S \subseteq DOMAIN f PROVE Entries(Restrict(f, S))
    BY <1>2 DEF Entries, Restrict
<1>3. ASSUME NEW f, Entries(f) PROVE Entries(FreshEntries(f, Cutoff))
    BY <1>3, <1>2 DEF FreshEntries
<1>4. ASSUME NEW f, Entries(f) PROVE Entries(Older(f))
    BY <1>4, StaleAssumption DEF Entries, Older, Expired
<1>5. ASSUME NEW f, NEW g, Entries(f), Entries(g) PROVE Entries(Latest(f, g))
    BY <1>5 DEF Entries, Latest
<1>6. ASSUME NEW f, NEW g, Entries(f), Entries(g)
      PROVE  Entries(MergeEntries(f, g, Cutoff)) /\ Entries(MergeScan(f, g, Cutoff))
    BY <1>3, <1>5, <1>6 DEF MergeEntries, MergeScan
<1>7. QED
    BY <1>1, <1>2, <1>3, <1>4, <1>5, <1>6

(* Time makes nothing fresh.                                                        *)
LEMMA OlderNotFresh == \A f, ip : Entries(f) /\ IsFresh(ip, Older(f)) => IsFresh(ip, f)
<1> SUFFICES ASSUME NEW f, NEW ip, Entries(f), IsFresh(ip, Older(f)) PROVE IsFresh(ip, f)
    OBVIOUS
<1>1. ip \in DOMAIN f /\ f[ip] \in Int /\ Older(f)[ip] >= Cutoff
    BY ListDomains DEF Entries
<1>2. Older(f)[ip] = IF f[ip] = Expired THEN Expired ELSE f[ip] - 1
    BY <1>1 DEF Older
<1>3. f[ip] >= Cutoff
    BY <1>1, <1>2, StaleAssumption DEF Cutoff, Expired
<1>4. QED
    BY <1>1, <1>3, ListDomains

(* What is written is the list there was or the new one.                             *)
LEMMA WrittenIs == \A b, c, n : Written(b, c, n) \in {c, n}
BY DEF Written

(* The keys of the two panels differ, whatever was cloned.                          *)
LEMMA KeysDiffer ==
    /\ Guid("master") = "guid1" /\ EffectiveNodeKey # "guid1"
    /\ EffectiveNodeKey \in Keys /\ \A p \in Panels : Guid(p) \in Keys
BY DEF Guid, EffectiveNodeKey, Keys, Panels
-----------------------------------------------------------------------------
IpsIInv == EntryTypes /\ SeenInv /\ DroppedInv

(* Nothing has been seen or dropped at first.                                       *)
LEMMA IpsInitial == ClientIpsInit => IpsIInv
<1> SUFFICES ASSUME ClientIpsInit PROVE IpsIInv
    OBVIOUS
<1>1. EntryTypes
    BY ListTypes DEF ClientIpsInit, EntryTypes, JobEntries, ScanPlaces, Idle, At
<1>2. SeenInv
    BY ListDomains, KeysDiffer DEF ClientIpsInit, SeenInv, Idle, At, Panels
<1>3. DroppedInv
    BY DEF ClientIpsInit, DroppedInv
<1>4. QED
    BY <1>1, <1>2, <1>3 DEF IpsIInv

(* Time passes.                                                                      *)
LEMMA AgesKeeps ==
    ASSUME IpsIInv, Ages
    PROVE  IpsIInv'
<1> USE DEF IpsIInv
<1>1. /\ DOMAIN conns' = Panels /\ DOMAIN heard' = Panels /\ DOMAIN sights' = Panels /\ DOMAIN scan' = Panels
      /\ UNCHANGED <<cloned, everSeen, dropped>>
    BY DEF Ages, ghostIps
<1>2. \A p \in Panels :
        /\ conns'[p] = Older(conns[p]) /\ heard'[p] = Older(heard[p])
        /\ DOMAIN sights'[p] = Keys /\ \A g \in Keys : sights'[p][g] = Older(sights[p][g])
    BY DEF Ages
<1>3. \A p \in Panels : /\ scan'[p].at = scan[p].at
                        /\ scan'[p].base = Older(scan[p].base) /\ scan'[p].new = Older(scan[p].new)
    BY DEF Ages, OlderAt, At
<1>4. sync'.at = sync.at /\ sync'.base = Older(sync.base) /\ sync'.new = Older(sync.new)
    BY DEF Ages, OlderAt, At
<1>5. EntryTypes'
    BY <1>1, <1>2, <1>3, <1>4, ListTypes DEF EntryTypes, JobEntries
<1>6. SeenInv'
    <2>1. EffectiveNodeKey' = EffectiveNodeKey /\ \A p \in Panels : Guid(p)' = Guid(p)
        BY <1>1 DEF Guid, EffectiveNodeKey
    <2>2. \A p \in Panels, g \in Keys : DOMAIN sights'[p][g] = DOMAIN sights[p][g]
        BY <1>2, ListDomains
    <2>3. DOMAIN sync'.new = DOMAIN sync.new /\ \A p \in Panels : DOMAIN scan'[p].new = DOMAIN scan[p].new
        BY <1>3, <1>4, ListDomains
    <2>4. QED
        BY <1>1, <1>3, <1>4, <2>1, <2>2, <2>3, KeysDiffer DEF SeenInv, Panels
<1>7. ASSUME NEW ip, Spent(ip) PROVE Spent(ip)'
    <2>1. \A p \in Panels :
            /\ ip \notin DOMAIN conns'[p] /\ ~IsFresh(ip, heard'[p])
            /\ \A g \in Keys : ~IsFresh(ip, sights'[p][g])
        BY <1>2, <1>7, ListDomains, OlderNotFresh DEF Spent, EntryTypes
    <2>2. ASSUME NEW p \in Panels
          PROVE  /\ ~IsFresh(ip, scan'[p].base) /\ ~IsFresh(ip, scan'[p].new)
                 /\ scan'[p].at \in {"read", "written"} => ip \notin DOMAIN scan'[p].new
        <3>1. Entries(scan[p].base) /\ Entries(scan[p].new)
            BY DEF EntryTypes, JobEntries
        <3>2. /\ ~IsFresh(ip, scan[p].base) /\ ~IsFresh(ip, scan[p].new)
              /\ scan[p].at \in {"read", "written"} => ip \notin DOMAIN scan[p].new
            BY <1>7 DEF Spent
        <3>3. DOMAIN Older(scan[p].new) = DOMAIN scan[p].new
            BY ListDomains
        <3>4. QED
            BY <1>3, <3>1, <3>2, <3>3, OlderNotFresh
    <2>3. /\ ~IsFresh(ip, sync'.new)
          /\ sync'.at \in {"merging", "storing"} => ip \notin DOMAIN sync'.new
        BY <1>4, <1>7, ListDomains, OlderNotFresh DEF Spent, EntryTypes, JobEntries
    <2>4. QED
        BY <2>1, <2>2, <2>3 DEF Spent, IsFresh, Cutoff
<1>8. ASSUME NEW p \in Panels, NEW ip, Away(p, ip) PROVE Away(p, ip)'
    BY <1>2, <1>3, <1>8, ListDomains DEF Away
<1>9. DroppedInv'
    BY <1>1, <1>7, <1>8 DEF DroppedInv
<1>10. QED
    BY <1>5, <1>6, <1>9

(* A connection through a core.                                                      *)
LEMMA DispatchesKeeps ==
    ASSUME IpsIInv, NEW p \in Panels, NEW ip \in Addresses, Dispatches(p, ip)
    PROVE  IpsIInv'
<1> USE DEF IpsIInv
<1> DEFINE one == [x \in {ip} |-> 0]
<1>1. Entries(one) /\ DOMAIN one = {ip}
    BY DEF Entries
<1>2. conns' = [conns EXCEPT ![p] = Latest(one, conns[p])]
    BY DEF Dispatches
<1> HIDE DEF one
<1>3. UNCHANGED <<cloned, heard, sights, scan, sync, everSeen>>
    BY DEF Dispatches
<1>4. DOMAIN dropped' = Panels /\ \A q \in Panels : dropped'[q] = dropped[q] \ {ip}
    BY DEF Dispatches
<1>5. EntryTypes'
    BY <1>1, <1>2, <1>3, <1>4, ListTypes DEF EntryTypes, JobEntries
<1>6. SeenInv'
    BY <1>3 DEF SeenInv, Guid, EffectiveNodeKey
<1>7. ASSUME NEW other, other # ip, Spent(other) PROVE Spent(other)'
    <2>1. \A q \in Panels : conns'[q] = IF q = p THEN Latest(one, conns[p]) ELSE conns[q]
        BY <1>2 DEF EntryTypes
    <2>2. \A q \in Panels : other \notin DOMAIN conns[q]
        BY <1>7 DEF Spent
    <2>3. other \notin DOMAIN Latest(one, conns[p])
        <3>1. DOMAIN Latest(one, conns[p]) = DOMAIN one \cup DOMAIN conns[p]
            BY Zenon DEF Latest
        <3>2. QED
            BY <1>1, <1>7, <2>2, <3>1
    <2>4. \A q \in Panels : other \notin DOMAIN conns'[q]
        BY <2>1, <2>2, <2>3
    <2>5. QED
        BY <1>3, <1>7, <2>4 DEF Spent, IsFresh, Cutoff
<1>8. ASSUME NEW q \in Panels, NEW other, Away(q, other) PROVE Away(q, other)'
    BY <1>3, <1>8 DEF Away
<1>9. DroppedInv'
    BY <1>4, <1>7, <1>8 DEF DroppedInv
<1>10. QED
    BY <1>5, <1>6, <1>9

(* The last connection of an address ends.                                           *)
LEMMA DisconnectsKeeps ==
    ASSUME IpsIInv, NEW p \in Panels, NEW ip \in Addresses, Disconnects(p, ip)
    PROVE  IpsIInv'
<1> USE DEF IpsIInv
<1>1. EntryTypes'
    BY ListTypes DEF EntryTypes, JobEntries, ScanPlaces, At, Disconnects, ghostIps, Restrict
<1>2. SeenInv'
    BY ListDomains, KeysDiffer DEF EntryTypes, SeenInv, Guid, EffectiveNodeKey, Panels, At, Disconnects, ghostIps, Restrict
<1>3. DroppedInv'
    BY ListDomains DEF EntryTypes, DroppedInv, Spent, Away, At, Disconnects, ghostIps, Restrict
<1>4. QED
    BY <1>1, <1>2, <1>3

(* The prune reads the row.                                                          *)
LEMMA PruneReadsKeeps ==
    ASSUME IpsIInv, NEW p \in Panels, PruneReads(p)
    PROVE  IpsIInv'
<1> USE DEF IpsIInv
<1>1. EntryTypes'
    BY ListTypes DEF EntryTypes, JobEntries, ScanPlaces, At, PruneReads, ScanAt, ScanGoes, ghostIps
<1>2. SeenInv'
    BY ListDomains, KeysDiffer DEF EntryTypes, SeenInv, Guid, EffectiveNodeKey, Panels, At, PruneReads, ScanAt, ScanGoes, ghostIps
<1>3. DroppedInv'
    BY ListDomains DEF EntryTypes, DroppedInv, Spent, Away, At, PruneReads, ScanAt, ScanGoes, ghostIps
<1>4. QED
    BY <1>1, <1>2, <1>3

(* The prune writes the row and the attribution, and drops what is spent.             *)
LEMMA PruneWritesKeeps ==
    ASSUME IpsIInv, NEW p \in Panels, PruneWrites(p)
    PROVE  IpsIInv'
<1> USE DEF IpsIInv
<1>1. EntryTypes'
    BY ListTypes, WrittenIs DEF EntryTypes, JobEntries, ScanPlaces, At, PruneWrites, ScanAt, ScanGoes, PrunedSights, Idle
<1>2. SeenInv'
    BY ListDomains, KeysDiffer DEF EntryTypes, SeenInv, Guid, EffectiveNodeKey, Panels, At, PruneWrites, ScanAt,
       ScanGoes, PrunedSights, Idle
<1>3. \A q \in Panels : heard'[q] = heard[q] \/ (q = p /\ heard'[q] = scan[q].new)
    BY WrittenIs DEF PruneWrites, EntryTypes
<1>4. \A q \in Panels, g \in Keys :
        sights'[q][g] = IF q = p THEN FreshEntries(sights[q][g], Cutoff) ELSE sights[q][g]
    BY DEF PruneWrites, PrunedSights, EntryTypes
<1>5. scan[p].at = "prune" /\ UNCHANGED <<conns, sync>>
    BY DEF PruneWrites, ScanAt
<1>6. \A q \in Panels : scan'[q] = scan[q] \/ (q = p /\ scan'[q] = Idle)
    BY DEF PruneWrites, ScanGoes, EntryTypes
<1>7. Idle.at = "idle" /\ Idle.base = NoEntries /\ Idle.new = NoEntries
    BY DEF Idle, At
<1>8. \A ip, f : IsFresh(ip, FreshEntries(f, Cutoff)) => IsFresh(ip, f)
    BY ListDomains
<1>9. ASSUME NEW ip, Spent(ip) PROVE Spent(ip)'
    BY <1>3, <1>4, <1>5, <1>6, <1>7, <1>8, <1>9, ListDomains DEF Spent, IsFresh, Cutoff
<1>10. ASSUME NEW q \in Panels, NEW ip, Away(q, ip), Spent(ip) PROVE Away(q, ip)'
    <2>1. ip \notin DOMAIN heard'[q]
        BY <1>3, <1>5, <1>10 DEF Away
    <2>2. \A g \in Keys : ip \notin DOMAIN sights'[q][g]
        BY <1>4, <1>10, ListDomains DEF Away
    <2>3. scan'[q].at = "prune" => ip \notin DOMAIN scan'[q].new
        BY <1>6, <1>7, <1>10 DEF Away
    <2>4. QED
        BY <2>1, <2>2, <2>3 DEF Away
<1>11. ASSUME NEW ip, Spent(ip), ip \notin DOMAIN heard'[p] PROVE Away(p, ip)'
    <2>1. \A g \in Keys : ip \notin DOMAIN sights'[p][g]
        BY <1>4, <1>11, ListDomains DEF Spent
    <2>2. scan'[p].at # "prune"
        BY <1>7 DEF PruneWrites, ScanGoes, EntryTypes
    <2>3. QED
        BY <1>11, <2>1, <2>2 DEF Away
<1>12. \A q \in Panels : \A ip \in dropped'[q] :
         ip \in dropped[q] \/ (q = p /\ Spent(ip) /\ ip \notin DOMAIN heard'[p])
    BY DEF PruneWrites, EntryTypes
<1>13. DroppedInv'
    BY <1>9, <1>10, <1>11, <1>12 DEF DroppedInv
<1>14. QED
    BY <1>1, <1>2, <1>13

(* The scan reads the core and the row.                                              *)
LEMMA ScanReadsKeeps ==
    ASSUME IpsIInv, NEW p \in Panels, ScanReads(p)
    PROVE  IpsIInv'
<1> USE DEF IpsIInv
<1>1. EntryTypes'
    BY ListTypes DEF EntryTypes, JobEntries, ScanPlaces, At, ScanReads, ScanAt, ScanGoes, ghostIps
<1>2. SeenInv'
    BY ListDomains, KeysDiffer DEF EntryTypes, SeenInv, Guid, EffectiveNodeKey, Panels, At, ScanReads, ScanAt, ScanGoes, ghostIps
<1>3. DroppedInv'
    BY ListDomains DEF EntryTypes, DroppedInv, Spent, Away, At, ScanReads, ScanAt, ScanGoes, ghostIps
<1>4. QED
    BY <1>1, <1>2, <1>3

(* The scan writes the row.                                                          *)
LEMMA ScanWritesKeeps ==
    ASSUME IpsIInv, NEW p \in Panels, NEW limited \in BOOLEAN, ScanWrites(p, limited)
    PROVE  IpsIInv'
<1> USE DEF IpsIInv
<1>1. EntryTypes'
    BY ListTypes DEF EntryTypes, JobEntries, ScanPlaces, At, ScanWrites, ScanAt, ScanGoes, ghostIps
<1>2. SeenInv'
    BY ListDomains, KeysDiffer DEF EntryTypes, SeenInv, Guid, EffectiveNodeKey, Panels, At, ScanWrites, ScanAt, ScanGoes, ghostIps
<1>3. DroppedInv'
    BY ListDomains DEF EntryTypes, DroppedInv, Spent, Away, At, ScanWrites, ScanAt, ScanGoes, ghostIps
<1>4. QED
    BY <1>1, <1>2, <1>3

(* The scan records its attribution, or fails to.                                    *)
LEMMA ScanRecordsKeeps ==
    ASSUME IpsIInv, NEW p \in Panels, ScanRecords(p) \/ ScanRecordsFails(p)
    PROVE  IpsIInv'
<1> USE DEF IpsIInv
<1>1. scan[p].at = "written" /\ UNCHANGED <<cloned, conns, heard, sync, everSeen, dropped>>
    BY DEF ScanRecords, ScanRecordsFails, ScanAt, ghostIps
<1>2. \A q \in Panels : scan'[q] = scan[q] \/ (q = p /\ scan'[q] = Idle)
    BY DEF ScanRecords, ScanRecordsFails, ScanGoes, EntryTypes
<1>3. DOMAIN scan' = Panels /\ Idle.at = "idle" /\ Idle.base = NoEntries /\ Idle.new = NoEntries
    BY DEF ScanRecords, ScanRecordsFails, ScanGoes, EntryTypes, Idle, At
<1>4. Entries(Attributed(p)) /\ DOMAIN Attributed(p) = DOMAIN scan[p].new
    BY DEF Attributed, Entries
<1>5. DOMAIN sights' = Panels /\ \A q \in Panels : DOMAIN sights'[q] = Keys
    BY DEF ScanRecords, ScanRecordsFails, EntryTypes
<1>6. \A q \in Panels, g \in Keys :
        \/ sights'[q][g] = sights[q][g]
        \/ /\ q = p /\ g = Guid(p)
           /\ sights'[q][g] = MergeEntries(sights[q][g], Attributed(p), Cutoff)
    BY KeysDiffer DEF ScanRecords, ScanRecordsFails, EntryTypes
<1>7. \A ip \in DOMAIN Attributed(p) : ip \in everSeen[p]
    BY <1>1, <1>4 DEF SeenInv
<1>8. \A q \in Panels, g \in Keys : \A ip \in DOMAIN sights'[q][g] :
        ip \in DOMAIN sights[q][g] \/ (q = p /\ g = Guid(p) /\ ip \in DOMAIN scan[p].new)
    BY <1>4, <1>6, ListDomains
<1>9. EntryTypes'
    BY <1>1, <1>2, <1>3, <1>4, <1>5, <1>6, ListTypes DEF EntryTypes, JobEntries, ScanPlaces
<1>10. SeenInv'
    BY <1>1, <1>2, <1>3, <1>4, <1>7, <1>8, KeysDiffer, ListDomains DEF SeenInv, Guid, EffectiveNodeKey, Panels
<1>11. ASSUME NEW ip, Spent(ip), NEW q \in Panels, NEW g \in Keys PROVE ~IsFresh(ip, sights'[q][g])
    <2>1. ip \notin DOMAIN Attributed(p)
        BY <1>1, <1>4, <1>11 DEF Spent
    <2>2. CASE sights'[q][g] = sights[q][g]
        BY <1>11, <2>2 DEF Spent
    <2>3. CASE sights'[q][g] = MergeEntries(sights[q][g], Attributed(p), Cutoff)
        BY <1>11, <2>1, <2>3, ListDomains DEF Spent
    <2>4. QED
        BY <1>6, <2>2, <2>3
<1>12. ASSUME NEW ip, Spent(ip) PROVE Spent(ip)'
    <2>1. \A q \in Panels, g \in Keys : ~IsFresh(ip, sights'[q][g])
        BY <1>11, <1>12
    <2>2. QED
        BY <1>1, <1>2, <1>3, <1>12, <2>1, ListDomains DEF Spent, IsFresh, Cutoff
<1>13. ASSUME NEW q \in Panels, NEW ip, Away(q, ip), Spent(ip) PROVE Away(q, ip)'
    BY <1>1, <1>2, <1>3, <1>8, <1>13 DEF Away, Spent
<1>14. DroppedInv'
    BY <1>1, <1>12, <1>13 DEF DroppedInv
<1>15. QED
    BY <1>9, <1>10, <1>14

(* The sync fetches, pushes or skips.                                                *)
LEMMA SyncReadsKeeps ==
    ASSUME IpsIInv, SyncFetches \/ SyncPushes \/ SyncFetchesSights \/ SyncSkips
    PROVE  IpsIInv'
<1> USE DEF IpsIInv
<1>1. UNCHANGED <<cloned, conns, heard, sights, scan, everSeen, dropped>>
    BY DEF SyncFetches, SyncPushes, SyncFetchesSights, SyncSkips, ghostIps
<1>2. /\ sync'.at \notin {"merging", "storing"} /\ sync'.base = NoEntries
      /\ \/ sync'.at # "sights" /\ sync'.new \in {NoEntries, heard["node"], heard["master"]}
         \/ sync'.new = FreshEntries(sights["node"][Guid("node")], Cutoff)
    <2>1. CASE SyncFetches
        BY <2>1 DEF SyncFetches, SyncGoes, At
    <2>2. CASE SyncPushes
        BY <2>2 DEF SyncPushes, SyncGoes, At
    <2>3. CASE SyncFetchesSights
        BY <2>3 DEF SyncFetchesSights, SyncGoes, At
    <2>4. CASE SyncSkips
        BY <2>4 DEF SyncSkips, SyncGoes, Idle, At
    <2>5. QED
        BY <2>1, <2>2, <2>3, <2>4
<1>3. EntryTypes'
    BY <1>1, <1>2, ListTypes, KeysDiffer DEF EntryTypes, JobEntries, Panels
<1>4. \A ip \in DOMAIN FreshEntries(sights["node"][Guid("node")], Cutoff) : ip \in everSeen["node"]
    BY ListDomains DEF SeenInv, Panels
<1>5. SeenInv'
    BY <1>1, <1>2, <1>4 DEF SeenInv, Guid, EffectiveNodeKey
<1>6. ASSUME NEW ip, Spent(ip) PROVE ~IsFresh(ip, sync'.new)
    BY <1>2, <1>6, ListDomains, KeysDiffer DEF Spent, Panels
<1>7. ASSUME NEW ip, Spent(ip) PROVE Spent(ip)'
    BY <1>1, <1>2, <1>6, <1>7 DEF Spent, IsFresh, Cutoff
<1>8. DroppedInv'
    BY <1>1, <1>7 DEF DroppedInv, Away
<1>9. QED
    BY <1>3, <1>5, <1>8

(* A panel reads its row for a merge.                                                *)
LEMMA MergeReadsKeeps ==
    ASSUME IpsIInv, NEW p \in Panels, NEW from, NEW to \in {"merging", "storing"}, MergeReads(p, from, to)
    PROVE  IpsIInv'
<1> USE DEF IpsIInv
<1>1. EntryTypes'
    BY ListTypes DEF EntryTypes, JobEntries, ScanPlaces, At, MergeReads, SyncGoes, ghostIps
<1>2. SeenInv'
    BY ListDomains, KeysDiffer DEF EntryTypes, SeenInv, Guid, EffectiveNodeKey, Panels, At, MergeReads, SyncGoes, ghostIps
<1>3. DroppedInv'
    BY ListDomains DEF EntryTypes, DroppedInv, Spent, Away, At, MergeReads, SyncGoes, ghostIps
<1>4. QED
    BY <1>1, <1>2, <1>3

(* A panel writes the merged row.                                                    *)
LEMMA MergeWritesKeeps ==
    ASSUME IpsIInv, NEW p \in Panels, NEW from \in {"merging", "storing"}, NEW to \in {"merged", "pushed"}, MergeWrites(p, from, to)
    PROVE  IpsIInv'
<1> USE DEF IpsIInv
<1>1. EntryTypes'
    BY ListTypes, WrittenIs DEF EntryTypes, JobEntries, ScanPlaces, At, MergeWrites, SyncGoes, ghostIps
<1>2. SeenInv'
    BY ListDomains, KeysDiffer DEF EntryTypes, SeenInv, Guid, EffectiveNodeKey, Panels, At, MergeWrites, SyncGoes, ghostIps
<1>3. DroppedInv'
    BY ListDomains, WrittenIs DEF EntryTypes, DroppedInv, Spent, Away, At, MergeWrites, SyncGoes, ghostIps
<1>4. QED
    BY <1>1, <1>2, <1>3

(* The master stores the attribution of the node.                                    *)
LEMMA MergeByGuidKeeps ==
    ASSUME IpsIInv, MergeClientIpsByGuid
    PROVE  IpsIInv'
<1> USE DEF IpsIInv
<1>1. EntryTypes'
    BY ListTypes DEF EntryTypes, JobEntries, ScanPlaces, At, MergeClientIpsByGuid, SyncGoes, Idle, ghostIps
<1>2. SeenInv'
    BY ListDomains, KeysDiffer DEF EntryTypes, SeenInv, Guid, EffectiveNodeKey, Panels, At, MergeClientIpsByGuid, SyncGoes, Idle, ghostIps
<1>3. DroppedInv'
    BY ListDomains DEF EntryTypes, DroppedInv, Spent, Away, At, MergeClientIpsByGuid, SyncGoes, Idle, ghostIps
<1>4. QED
    BY <1>1, <1>2, <1>3

(* Every step keeps the invariant.                                                   *)
LEMMA IpsStep == IpsIInv /\ [ClientIpsNext]_ipsVars => IpsIInv'
<1> SUFFICES ASSUME IpsIInv, [ClientIpsNext]_ipsVars PROVE IpsIInv'
    OBVIOUS
<1>1. ASSUME NEW p \in Panels, CoreSteps(p) \/ PruneSteps(p) \/ ScanSteps(p) PROVE IpsIInv'
    BY <1>1, DispatchesKeeps, DisconnectsKeeps, PruneReadsKeeps, PruneWritesKeeps, ScanReadsKeeps,
       ScanWritesKeeps, ScanRecordsKeeps DEF CoreSteps, PruneSteps, ScanSteps
<1>2. CASE SyncMerges
    <2>1. "master" \in Panels /\ "node" \in Panels
        BY DEF Panels
    <2>2. CASE MasterMerges
        BY <2>1, <2>2, MergeReadsKeeps, MergeWritesKeeps DEF MasterMerges
    <2>3. CASE NodeMerges
        BY <2>1, <2>3, MergeReadsKeeps, MergeWritesKeeps DEF NodeMerges
    <2>4. QED
        BY <1>2, <2>2, <2>3, MergeByGuidKeeps DEF SyncMerges
<1>3. CASE UNCHANGED ipsVars
    BY <1>3 DEF ipsVars, ghostIps, IpsIInv, EntryTypes, SeenInv, DroppedInv, Spent, Away, Guid, EffectiveNodeKey,
       IsFresh, Cutoff
<1>4. QED
    BY <1>1, <1>2, <1>3, AgesKeeps, SyncReadsKeeps DEF ClientIpsNext

(* The invariant of the address rows and of the jobs that copy them.                 *)
THEOREM IpsInvariance == ClientIpsSpec => []IpsIInv
<1>1. QED
    BY IpsInitial, IpsStep, PTL DEF ClientIpsSpec

(* MergeClientIpsByGuid and recordLocalAttribution attribute an address only to the   *)
(* panel whose own core saw it, also if one panel is a clone of the other.            *)
THEOREM AttributionTheorem == ClientIpsSpec => []AttributionIsTrue
<1>1. IpsIInv => AttributionIsTrue
    BY DEF IpsIInv, SeenInv, AttributionIsTrue, Panels
<1>2. QED
    BY <1>1, IpsInvariance, PTL

(* The cutoff of MergeInboundClientIps, the prune and the attribution together keep a *)
(* pruned address away until it is used again, in whatever order panels scan, prune,   *)
(* fetch and push.                                                                   *)
THEOREM NotResurrectedTheorem == ClientIpsSpec => []NotResurrected
<1>1. IpsIInv => NotResurrected
    BY DEF IpsIInv, DroppedInv, Away, NotResurrected
<1>2. QED
    BY <1>1, IpsInvariance, PTL

-----------------------------------------------------------------------------
Places == {"idle", "read", "disconnect", "removed"}

CoreTypes ==
    /\ user \in BOOLEAN /\ enabled \in BOOLEAN /\ change \in {"none", "on", "off"}
    /\ DOMAIN check = {"at", "seen", "base", "had", "enforce"} /\ check.at \in Places

(* A change that has not reached the core yet is what the database says.           *)
ChangeInv == (change = "on" => enabled) /\ (change = "off" => ~enabled)

(* Between the removal and the second AddUser the core differs from the database   *)
(* anyway; what matters is what AddUser will find.                                 *)
RemovedInv == change = "none" /\ check.at = "removed" /\ ~enabled => "outrun" \in astray

LimitIInv == CoreTypes /\ ChangeInv /\ RemovedInv /\ CoreFollowsRecord

(* The panel starts with a client that is on and known to the core.                *)
LEMMA LimitInitial == LimitInit => LimitIInv
BY DEF LimitInit, Resting, LimitIInv, CoreTypes, Places, ChangeInv, RemovedInv, CoreFollowsRecord

(* A step that leaves the core and the client alone, and neither begins nor ends    *)
(* a removal.                                                                      *)
LEMMA CoreUntouched ==
    ASSUME LimitIInv, UNCHANGED <<user, clientVars, astray>>, check.at # "removed",
           DOMAIN check' = {"at", "seen", "base", "had", "enforce"},
           check'.at \in {"idle", "read", "disconnect"}
    PROVE  LimitIInv'
BY DEF LimitIInv, CoreTypes, Places, ChangeInv, RemovedInv, CoreFollowsRecord, clientVars

(* Where the job goes when it rests, and after it banned somebody.                 *)
LEMMA RestingPlace ==
    /\ DOMAIN Resting = {"at", "seen", "base", "had", "enforce"} /\ Resting.at = "idle"
    /\ \A b : /\ DOMAIN AfterBan(b) = {"at", "seen", "base", "had", "enforce"}
              /\ AfterBan(b).at \in {"idle", "disconnect"}
BY DEF Resting, AfterBan

(* Steps of time, of connections and of the row.                                   *)
LEMMA OtherPartsStep ==
    ASSUME LimitIInv, UNCHANGED <<user, clientVars, astray, check>>
    PROVE  LimitIInv'
BY DEF LimitIInv, CoreTypes, ChangeInv, RemovedInv, CoreFollowsRecord, clientVars

(* The scan and the transaction of the job.                                        *)
LEMMA ScanStep ==
    ASSUME LimitIInv,
           \/ \E prune, enforce \in BOOLEAN : CheckBegins(prune, enforce)
           \/ CheckCreates \/ CheckCollects
           \/ \E b \in SUBSET Ips : CheckEnforces(b) \/ CheckRollsBack(b) \/ LogFails(b)
    PROVE  LimitIInv'
<1>1. ASSUME NEW prune \in BOOLEAN, NEW enforce \in BOOLEAN, CheckBegins(prune, enforce)
      PROVE  LimitIInv'
    BY <1>1, CoreUntouched, RestingPlace DEF CheckBegins
<1>2. CASE CheckCreates \/ CheckCollects
    BY <1>2, CoreUntouched, RestingPlace DEF CheckCreates, CheckCollects
<1>3. ASSUME NEW b \in SUBSET Ips, CheckEnforces(b) \/ CheckRollsBack(b) \/ LogFails(b)
      PROVE  LimitIInv'
    <2>1. Judges(b) /\ check' \in {Resting, AfterBan(b)}
        BY <1>3 DEF CheckEnforces, CheckRollsBack, LogFails
    <2>2. check.at = "read" /\ UNCHANGED <<user, clientVars, astray>>
        BY <2>1 DEF Judges
    <2>3. QED
        BY <2>1, <2>2, CoreUntouched, RestingPlace
<1>4. QED
    BY <1>1, <1>2, <1>3

(* The momentary removal.                                                          *)
LEMMA DisconnectStep ==
    ASSUME LimitIInv, DisconnectRemoves \/ DisconnectFails \/ DisconnectAdds \/ DisconnectAddFails
    PROVE  LimitIInv'
<1> USE DEF LimitIInv, CoreTypes, Places, ChangeInv, RemovedInv, CoreFollowsRecord, clientVars
<1>1. CASE DisconnectRemoves
    <2>1. CASE user
        <3>1. check' = [check EXCEPT !.at = "removed"]
            BY <1>1, <2>1 DEF DisconnectRemoves, RemovalFails
        <3>2. DOMAIN check' = DOMAIN check /\ check'.at = "removed"
            BY <3>1
        <3>3. QED
            BY <1>1, <2>1, <3>2 DEF DisconnectRemoves
    <2>2. CASE ~user
        <3>1. check' = Resting /\ user' = user
            BY <1>1, <2>2 DEF DisconnectRemoves, RemovalFails
        <3>2. QED
            BY <1>1, <3>1, CoreUntouched, RestingPlace DEF DisconnectRemoves
    <2>3. QED
        BY <2>1, <2>2
<1>2. CASE DisconnectFails
    BY <1>2, CoreUntouched, RestingPlace DEF DisconnectFails
<1>3. CASE DisconnectAdds
    BY <1>3, RestingPlace DEF DisconnectAdds
<1>4. CASE DisconnectAddFails
    BY <1>4, RestingPlace DEF DisconnectAddFails
<1>5. QED
    BY <1>1, <1>2, <1>3, <1>4

(* The client is switched, and the core replaced.                                  *)
LEMMA SwitchStep ==
    ASSUME LimitIInv, RestartCore \/ SwitchApplies \/ (\E on \in BOOLEAN : SwitchCommits(on))
    PROVE  LimitIInv'
<1> USE DEF LimitIInv, CoreTypes, Places, ChangeInv, RemovedInv, CoreFollowsRecord, clientVars
<1>1. CASE RestartCore
    BY <1>1 DEF RestartCore
<1>2. CASE SwitchApplies
    BY <1>2 DEF SwitchApplies
<1>3. ASSUME NEW on \in BOOLEAN, SwitchCommits(on)
      PROVE  LimitIInv'
    BY <1>3 DEF SwitchCommits
<1>4. QED
    BY <1>1, <1>2, <1>3

(* Every step keeps the invariant.                                                 *)
LEMMA LimitStep == LimitIInv /\ [LimitNext]_limitVars => LimitIInv'
<1> SUFFICES ASSUME LimitIInv, [LimitNext]_limitVars PROVE LimitIInv'
    OBVIOUS
<1>1. CASE TimeGoes \/ ClearClientIps
    BY <1>1, OtherPartsStep DEF TimeGoes, ClearClientIps
<1>2. ASSUME NEW ip \in Ips, OnlineSteps(ip)
      PROVE  LimitIInv'
    BY <1>2, OtherPartsStep DEF OnlineSteps, Connects, Leaves
<1>3. ASSUME NEW ip \in Ips, NEW t \in 1..MaxClock, MergeArrives(ip, t)
      PROVE  LimitIInv'
    BY <1>3, OtherPartsStep DEF MergeArrives
<1>4. CASE RestartCore \/ SwitchApplies \/ (\E on \in BOOLEAN : SwitchCommits(on))
    BY <1>4, SwitchStep
<1>5. CASE CheckSteps
    BY <1>5, ScanStep, DisconnectStep DEF CheckSteps
<1>6. CASE UNCHANGED limitVars
    BY <1>6, OtherPartsStep DEF limitVars
<1>7. QED
    BY <1>1, <1>2, <1>3, <1>4, <1>5, <1>6 DEF LimitNext, OtherSteps

(* disconnectClientTemporarily does not change whom the core serves, whatever polls, *)
(* operators, restarts and failures come between its two calls, but for the two      *)
(* exceptions CoreFollowsRecord names.                                              *)
THEOREM CoreFollowsTheorem == LimitSpec => []CoreFollowsRecord
<1>1. LimitIInv => CoreFollowsRecord
    BY DEF LimitIInv
<1>2. QED
    BY <1>1, LimitInitial, LimitStep, PTL DEF LimitSpec
-----------------------------------------------------------------------------
(* Lists of addresses with times.                                                  *)
Times(f) == DOMAIN f \subseteq Ips /\ \A ip \in DOMAIN f : f[ip] \in Nat

TimeTypes ==
    /\ time \in Nat /\ Times(online) /\ Times(stored) /\ Times(bannedSeen) /\ Times(over)
    /\ Times(check.seen) /\ Times(check.base) /\ logged \in [Ips -> Int]
    /\ DOMAIN check = {"at", "seen", "base", "had", "enforce"}

(* bannedSeen and the log tell the same story, except for lost lines, and bannedSeen *)
(* is as new as what the last run found over the limit.                            *)
BannedInv ==
    /\ \A ip \in Ips \ DOMAIN bannedSeen : logged[ip] = -1
    /\ \A ip \in DOMAIN bannedSeen :
         logged[ip] <= bannedSeen[ip] /\ (ip \notin unlogged => logged[ip] = bannedSeen[ip])
    /\ \A ip \in DOMAIN over : ip \in DOMAIN bannedSeen /\ over[ip] <= bannedSeen[ip]
    /\ repeated = {}

LogIInv == TimeTypes /\ BannedInv

(* What the list operators do to times.                                            *)
LEMMA EntriesAreTimes ==
    /\ Times(NoEntries)
    /\ \A ip \in Ips, t \in Nat : Times(Only(ip, t))
    /\ \A f, S : Times(f) /\ S \subseteq DOMAIN f => Times(Restrict(f, S))
    /\ \A f, c : Times(f) => Times(FreshEntries(f, c))
    /\ \A f, g : Times(f) /\ Times(g) => Times(Latest(f, g))
<1>1. Times(NoEntries) /\ \A ip \in Ips, t \in Nat : Times(Only(ip, t))
    BY DEF Times, NoEntries, Only
<1>2. ASSUME NEW f, NEW S, Times(f), S \subseteq DOMAIN f
      PROVE  Times(Restrict(f, S))
    BY <1>2 DEF Times, Restrict
<1>3. ASSUME NEW f, NEW c, Times(f)
      PROVE  Times(FreshEntries(f, c))
    BY <1>3, <1>2 DEF FreshEntries
<1>4. ASSUME NEW f, NEW g, Times(f), Times(g)
      PROVE  Times(Latest(f, g))
    BY <1>4 DEF Times, Latest
<1>5. QED
    BY <1>1, <1>2, <1>3, <1>4

(* Merging keeps times.                                                            *)
LEMMA MergesAreTimes ==
    /\ \A f, g, c : Times(f) /\ Times(g) => Times(MergeEntries(f, g, c)) /\ Times(MergeScan(f, g, c))
    /\ TimeTypes => Times(Merged)
BY EntriesAreTimes DEF MergeEntries, MergeScan, Merged, TimeTypes

(* The panel starts with an empty log.                                              *)
LEMMA LogInitial == LimitInit => LogIInv
<1> SUFFICES ASSUME LimitInit PROVE LogIInv
    OBVIOUS
<1>1. TimeTypes
    BY EntriesAreTimes DEF LimitInit, Resting, TimeTypes
<1>2. BannedInv
    BY DEF LimitInit, BannedInv, NoEntries
<1>3. QED
    BY <1>1, <1>2 DEF LogIInv

(* A step that judges nobody only has to keep the times; over is kept or emptied.     *)
LEMMA NobodyJudged ==
    ASSUME LogIInv, TimeTypes', UNCHANGED <<bannedSeen, logged, repeated, unlogged>>,
           over' \in {over, NoEntries}
    PROVE  LogIInv'
BY DEF LogIInv, BannedInv, NoEntries

(* What filterAdvancedSinceLastBan leaves in bannedSeen.                             *)
LEMMA JudgesKeeps ==
    ASSUME LogIInv, NEW b \in SUBSET Ips, Judges(b), check' \in {Resting, AfterBan(b)},
           stored' = stored \/ stored' = Restrict(Merged, DOMAIN Merged \ b),
           logged' \in [Ips -> Int]
    PROVE  TimeTypes' /\ b \subseteq DOMAIN Merged /\ \A ip \in b : over'[ip] <= bannedSeen'[ip]
<1>1. b \subseteq DOMAIN Merged
    BY DEF Judges, Bans, Counted
<1>2. Times(Merged) /\ Times(stored')
    BY MergesAreTimes, EntriesAreTimes DEF LogIInv, TimeTypes
<1>3. DOMAIN over' = b /\ \A ip \in b : over'[ip] = Merged[ip]
    BY <1>1 DEF Judges, Restrict
<1>4. DOMAIN bannedSeen' = b /\ \A ip \in b : bannedSeen'[ip] = IF Advanced(ip) THEN Merged[ip] ELSE bannedSeen[ip]
    BY DEF Judges
<1>5. \A ip \in b : Merged[ip] \in Nat /\ (~Advanced(ip) => ip \in DOMAIN bannedSeen /\ bannedSeen[ip] \in Nat
                                                          /\ Merged[ip] <= bannedSeen[ip])
    BY <1>1, <1>2 DEF Times, Advanced, LogIInv, TimeTypes
<1>6. Times(over') /\ Times(bannedSeen')
    BY <1>3, <1>4, <1>5 DEF Times
<1>7. /\ DOMAIN check' = {"at", "seen", "base", "had", "enforce"}
      /\ check'.seen = NoEntries /\ check'.base = NoEntries
    BY DEF Resting, AfterBan
<1>8. TimeTypes'
    BY <1>2, <1>6, <1>7, EntriesAreTimes DEF TimeTypes, LogIInv, Judges
<1>9. QED
    BY <1>1, <1>3, <1>4, <1>5, <1>8

(* A run that judges, with or without the log file.                                 *)
LEMMA JudgingStep ==
    ASSUME LogIInv, NEW b \in SUBSET Ips, CheckEnforces(b) \/ CheckRollsBack(b) \/ LogFails(b)
    PROVE  LogIInv'
<1>1. /\ Judges(b) /\ check' \in {Resting, AfterBan(b)}
      /\ stored' = stored \/ stored' = Restrict(Merged, DOMAIN Merged \ b)
    BY DEF CheckEnforces, CheckRollsBack, LogFails, listVars
<1>2. Times(Merged)
    BY MergesAreTimes DEF LogIInv
<1>3. b \subseteq DOMAIN Merged
    BY <1>1 DEF Judges, Bans, Counted
<1>4. DOMAIN bannedSeen' = b /\ \A ip \in b : bannedSeen'[ip] = IF Advanced(ip) THEN Merged[ip] ELSE bannedSeen[ip]
    BY <1>1 DEF Judges
<1>5. DOMAIN over' = b
    BY <1>1 DEF Judges, Restrict
<1>6. \A ip \in b : /\ Merged[ip] \in Nat /\ logged[ip] \in Int
                    /\ Advanced(ip) => logged[ip] < Merged[ip]
                    /\ ~Advanced(ip) => ip \in DOMAIN bannedSeen
    BY <1>2, <1>3 DEF Times, Advanced, LogIInv, TimeTypes, BannedInv
<1>7. CASE Logs(b)
    <2>1. \A ip \in Ips : /\ ip \notin b => logged'[ip] = -1
                          /\ ip \in b => logged'[ip] = IF Advanced(ip) THEN Merged[ip] ELSE logged[ip]
        BY <1>7 DEF Logs, Actionable
    <2>2. logged' \in [Ips -> Int]
        BY <1>7, <1>6 DEF Logs, Actionable, LogIInv, TimeTypes
    <2>3. repeated' = {}
        BY <1>7, <1>6 DEF Logs, Actionable, LogIInv, BannedInv
    <2>4. \A ip \in b : ip \notin unlogged' /\ ~Advanced(ip) => ip \notin unlogged
        BY <1>7 DEF Logs, Actionable
    <2>5. TimeTypes' /\ \A ip \in b : over'[ip] <= bannedSeen'[ip]
        BY <1>1, <2>2, JudgesKeeps
    <2>6. \A ip \in b : logged'[ip] <= bannedSeen'[ip] /\ (ip \notin unlogged' => logged'[ip] = bannedSeen'[ip])
        BY <1>4, <1>6, <2>1, <2>4 DEF LogIInv, BannedInv
    <2>7. QED
        BY <1>4, <1>5, <2>1, <2>3, <2>5, <2>6 DEF LogIInv, BannedInv
<1>8. CASE LogFails(b)
    <2>1. \A ip \in Ips : logged'[ip] = IF ip \in b THEN logged[ip] ELSE -1
        BY <1>8 DEF LogFails
    <2>2. logged' \in [Ips -> Int] /\ repeated' = {}
        BY <1>8, <1>6 DEF LogFails, LogIInv, BannedInv
    <2>3. \A ip \in b : ip \notin unlogged' => ~Advanced(ip) /\ ip \notin unlogged
        BY <1>8 DEF LogFails, Actionable
    <2>4. TimeTypes' /\ \A ip \in b : over'[ip] <= bannedSeen'[ip]
        BY <1>1, <2>2, JudgesKeeps
    <2>5. \A ip \in b : logged'[ip] <= bannedSeen'[ip] /\ (ip \notin unlogged' => logged'[ip] = bannedSeen'[ip])
        BY <1>4, <1>6, <2>1, <2>3 DEF LogIInv, BannedInv
    <2>6. QED
        BY <1>4, <1>5, <2>1, <2>2, <2>4, <2>5 DEF LogIInv, BannedInv
<1>9. QED
    BY <1>7, <1>8 DEF CheckEnforces, CheckRollsBack

(* Every step keeps the log invariant.                                              *)
LEMMA LogStep == LogIInv /\ [LimitNext]_limitVars => LogIInv'
<1> SUFFICES ASSUME LogIInv, [LimitNext]_limitVars PROVE LogIInv'
    OBVIOUS
<1> USE EntriesAreTimes, NobodyJudged, TimeAssumption DEF toldVars, listVars
<1>1. CASE TimeGoes \/ ClearClientIps
    BY <1>1 DEF TimeGoes, ClearClientIps, LogIInv, TimeTypes
<1>2. ASSUME NEW ip \in Ips, OnlineSteps(ip)
      PROVE  LogIInv'
    <2>1. Times(online')
        BY <1>2 DEF OnlineSteps, Connects, Leaves, LogIInv, TimeTypes
    <2>2. QED
        BY <1>2, <2>1 DEF OnlineSteps, Connects, Leaves, LogIInv, TimeTypes
<1>3. ASSUME NEW ip \in Ips, NEW t \in 1..MaxClock, MergeArrives(ip, t)
      PROVE  LogIInv'
    <2>1. Times(stored')
        BY <1>3, MergesAreTimes DEF MergeArrives, LogIInv, TimeTypes
    <2>2. QED
        BY <1>3, <2>1 DEF MergeArrives, LogIInv, TimeTypes
<1>4. CASE RestartCore \/ SwitchApplies \/ (\E on \in BOOLEAN : SwitchCommits(on))
    BY <1>4 DEF RestartCore, SwitchApplies, SwitchCommits, LogIInv, TimeTypes
<1>5. ASSUME NEW prune \in BOOLEAN, NEW enforce \in BOOLEAN, CheckBegins(prune, enforce)
      PROVE  LogIInv'
    <2>1. Times(stored')
        BY <1>5 DEF CheckBegins, LogIInv, TimeTypes
    <2>2. QED
        BY <1>5, <2>1 DEF CheckBegins, Resting, LogIInv, TimeTypes
<1>6. CASE CheckCreates \/ CheckCollects
    BY <1>6 DEF CheckCreates, CheckCollects, Resting, LogIInv, TimeTypes
<1>7. CASE DisconnectRemoves \/ DisconnectFails \/ DisconnectAdds \/ DisconnectAddFails
    <2>1. check' = Resting \/ check' = [check EXCEPT !.at = "removed"]
        BY <1>7 DEF DisconnectRemoves, DisconnectFails, DisconnectAdds, DisconnectAddFails
    <2>2. /\ DOMAIN check' = {"at", "seen", "base", "had", "enforce"}
          /\ Times(check'.seen) /\ Times(check'.base)
        BY <2>1 DEF Resting, LogIInv, TimeTypes
    <2>3. QED
        BY <1>7, <2>2 DEF DisconnectRemoves, DisconnectFails, DisconnectAdds, DisconnectAddFails, LogIInv, TimeTypes
<1>8. CASE UNCHANGED limitVars
    BY <1>8 DEF limitVars, LogIInv, TimeTypes
<1>9. QED
    BY <1>1, <1>2, <1>3, <1>4, <1>5, <1>6, <1>7, <1>8, JudgingStep DEF LimitNext, OtherSteps, CheckSteps

(* Whoever a run finds over the limit has its line in the log, for the connection it   *)
(* has now, and no connection has two, unless the log file could not be opened          *)
(* (updateInboundClientIps, filterAdvancedSinceLastBan).                              *)
THEOREM LoggedTheorem == LimitSpec => []OverLimitIsLogged
<1>1. LogIInv => OverLimitIsLogged
    BY DEF LogIInv, BannedInv, OverLimitIsLogged
<1>2. QED
    BY <1>1, LogInitial, LogStep, PTL DEF LimitSpec
=============================================================================
