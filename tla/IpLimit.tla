------------------------------ MODULE IpLimit ------------------------------
(* CheckClientIpJob on one panel, for one client with an IP limit: which of its   *)
(* addresses are written to the log fail2ban reads, and how the client is taken   *)
(* out of the core for a moment, beside the poll and the operator who switch the  *)
(* client on and off in the same core. The client has one local inbound with a    *)
(* protocol the job supports and no reverse config. Rows that other panels sync    *)
(* here arrive as merges of one address (ClientIps has the sync itself).          *)
EXTENDS IpEntries, FiniteSets

CONSTANTS
    Ips,         \* addresses of the client
    Allowed,     \* the allowlist: addresses neither counted nor banned
    LimitIp,     \* clients.limit_ip
    LiveFor,     \* how long a synced address counts as live: 120 seconds
    ForgetAfter, \* ipStaleAfterSeconds
    MaxClock,    \* bound: time
    MaxSwitches  \* bound: switches on or off, merges, restarts and faults

ASSUME LimitAssumption == LimitIp \in Nat \ {0} /\ Allowed \subseteq Ips /\ IsFiniteSet(Ips)
ASSUME TimeAssumption == LiveFor \in Nat /\ ForgetAfter \in Nat /\ MaxClock \in Nat /\ MaxSwitches \in Nat

VARIABLES
    time,        \* the clock
    online,      \* core: lastSeen of the addresses in its online map
    user,        \* core: it knows the client's credential
    enabled,     \* database: the client is on
    change,      \* committed, not yet told the core: "none", "on" or "off"
    rowed,       \* there is a row in inbound_client_ips
    stored,      \* the addresses in it
    bannedSeen,  \* CheckClientIpJob.bannedSeen
    check,       \* the run: its place, what it observed, the row it read, and enforce
    switches,    \* bound: events so far
    logged,      \* ghost: the time of an address's last line since it was within the limit, or -1
    repeated,    \* ghost: addresses logged twice for one connection
    over,        \* ghost: the addresses the last run found over the limit, until the next one
    unlogged,    \* ghost: addresses whose line was lost with the log file
    astray       \* ghost: ways in which the core came to differ from the record

listVars == <<rowed, stored>>
clientVars == <<enabled, change>>
toldVars == <<logged, repeated, over, unlogged>>
limitVars == <<time, online, user, clientVars, listVars, bannedSeen, check, switches, toldVars, astray>>

Only(ip, t) == [x \in {ip} |-> t]
Resting == [at |-> "idle", seen |-> NoEntries, base |-> NoEntries, had |-> FALSE, enforce |-> FALSE]

(* A panel that has just started; the client may have a row from before.         *)
LimitInit ==
    /\ time = 1 /\ online = NoEntries /\ user = TRUE /\ enabled = TRUE /\ change = "none"
    /\ stored \in {NoEntries} \cup {Only(ip, 0) : ip \in Ips} /\ rowed = (stored # NoEntries)
    /\ bannedSeen = NoEntries /\ check = Resting /\ switches = 0
    /\ logged = [ip \in Ips |-> -1] /\ repeated = {} /\ over = NoEntries /\ unlogged = {} /\ astray = {}

Happens == switches < MaxSwitches /\ switches' = switches + 1

-----------------------------------------------------------------------------
TimeGoes ==
    /\ time < MaxClock /\ time' = time + 1
    /\ UNCHANGED <<online, user, clientVars, listVars, bannedSeen, check, switches, toldVars, astray>>

(* The core: a handshake needs the credential, a session that is up does not; an    *)
(* entry leaves the online map with its last connection.                          *)
Connects(ip) ==
    /\ user \/ ip \in DOMAIN online
    /\ online' = Latest(Only(ip, time), online)
    /\ UNCHANGED <<time, user, clientVars, listVars, bannedSeen, check, switches, toldVars, astray>>

Leaves(ip) ==
    /\ ip \in DOMAIN online
    /\ online' = Restrict(online, DOMAIN online \ {ip})
    /\ UNCHANGED <<time, user, clientVars, listVars, bannedSeen, check, switches, toldVars, astray>>

(* The core is replaced: full restart with the users of the database.              *)
RestartCore ==
    /\ Happens
    /\ user' = enabled /\ online' = NoEntries
    /\ astray' = IF check.at = "removed" /\ ~enabled THEN {"outrun"} ELSE {}
    /\ UNCHANGED <<time, clientVars, listVars, bannedSeen, check, toldVars>>

(* The poll or the operator switches the client: the commit, then the API call. A   *)
(* removal that finds no user counts as done (applyTrafficMutationBatch). A call    *)
(* that fails asks for a restart, which is XrayLifecycle's matter.                 *)
SwitchCommits(on) ==
    /\ Happens
    /\ change = "none" /\ enabled # on
    /\ enabled' = on /\ change' = IF on THEN "on" ELSE "off"
    /\ UNCHANGED <<time, online, user, listVars, bannedSeen, check, toldVars, astray>>

SwitchApplies ==
    /\ change # "none"
    /\ user' = (change = "on") /\ change' = "none"
    /\ astray' = IF change = "off" /\ check.at = "removed" THEN {"outrun"} ELSE {}
    /\ UNCHANGED <<time, online, enabled, listVars, bannedSeen, check, switches, toldVars>>

(* The row changes under the job: a merge of what another panel saw, and             *)
(* ClearClientIps, which leaves an empty row.                                      *)
MergeArrives(ip, t) ==
    /\ Happens
    /\ t \in time - ForgetAfter .. time
    /\ rowed' = TRUE /\ stored' = MergeEntries(stored, Only(ip, t), time - ForgetAfter)
    /\ UNCHANGED <<time, online, user, clientVars, bannedSeen, check, toldVars, astray>>

ClearClientIps ==
    /\ Happens
    /\ stored # NoEntries /\ stored' = NoEntries
    /\ UNCHANGED <<time, online, user, clientVars, rowed, bannedSeen, check, toldVars, astray>>
-----------------------------------------------------------------------------
(* Run: pruneStaleIpRows when it is due, the addresses from the online API, then      *)
(* the row. Nothing more for a client that is not connected, and without the API or   *)
(* fail2ban for none.                                                              *)
CheckBegins(prune, enforce) ==
    /\ check.at = "idle"
    /\ stored' = IF prune THEN FreshEntries(stored, time - ForgetAfter) ELSE stored
    /\ rowed' = (rowed /\ (prune => stored' # NoEntries))
    /\ \/ check' = Resting
       \/ /\ online # NoEntries
          /\ check' = [at |-> "read", seen |-> online, base |-> stored', had |-> rowed', enforce |-> enforce]
    /\ over' = NoEntries
    /\ UNCHANGED <<time, online, user, clientVars, bannedSeen, switches, logged, repeated, unlogged, astray>>

(* The transaction of processObserved. The first run for a client only creates its   *)
(* row, and loses to a merge that was faster.                                      *)
CheckCreates ==
    /\ check.at = "read" /\ ~check.had
    /\ stored' = IF rowed THEN stored ELSE check.seen
    /\ rowed' = TRUE /\ check' = Resting
    /\ UNCHANGED <<time, online, user, clientVars, bannedSeen, switches, toldVars, astray>>

(* Nothing to enforce: no limit, no fail2ban or the inbound is off.                  *)
CheckCollects ==
    /\ check.at = "read" /\ check.had /\ ~check.enforce
    /\ rowed' = TRUE /\ stored' = check.seen /\ check' = Resting
    /\ UNCHANGED <<time, online, user, clientVars, bannedSeen, switches, toldVars, astray>>

Merged == MergeScan(check.base, check.seen, time - ForgetAfter)

(* partitionLiveIps and the allowlist: the addresses that count.                     *)
Counted ==
    {ip \in DOMAIN Merged : ip \in DOMAIN check.seen \/ time - Merged[ip] < LiveFor} \ Allowed

(* selectIpsToBan: all but the LimitIp newest; the sort leaves ties in any order.     *)
Bans ==
    {b \in SUBSET Counted :
        /\ Cardinality(b) = IF Cardinality(Counted) > LimitIp THEN Cardinality(Counted) - LimitIp ELSE 0
        /\ \A ip \in b, kept \in Counted \ b : Merged[ip] <= Merged[kept]}

(* Faulty variant: an address is logged once and never again.                        *)
NotBannedYet(ip) == ip \notin DOMAIN bannedSeen

(* filterAdvancedSinceLastBan: a time that stands still is a dead connection.         *)
Advanced(ip) == ip \in DOMAIN bannedSeen => Merged[ip] > bannedSeen[ip]

Actionable(b) == {ip \in b : Advanced(ip)}

(* bannedSeen moves before the log file is opened, and forgets who is within the      *)
(* limit.                                                                          *)
Judges(b) ==
    /\ check.at = "read" /\ check.had /\ check.enforce
    /\ b \in Bans
    /\ bannedSeen' = [ip \in b |-> IF Advanced(ip) THEN Merged[ip] ELSE bannedSeen[ip]]
    /\ over' = Restrict(Merged, b)
    /\ UNCHANGED <<time, online, user, clientVars, astray>>

Logs(b) ==
    /\ logged' = [ip \in Ips |-> CASE ip \notin b -> -1
                                 [] ip \in Actionable(b) -> Merged[ip]
                                 [] OTHER -> logged[ip]]
    /\ repeated' = repeated \cup {ip \in Actionable(b) : Merged[ip] <= logged[ip]}
    /\ unlogged' = (unlogged \cap b) \ Actionable(b)

AfterBan(b) == IF Actionable(b) = {} THEN Resting ELSE [Resting EXCEPT !.at = "disconnect"]

CheckEnforces(b) ==
    /\ Judges(b) /\ Logs(b)
    /\ rowed' = TRUE /\ stored' = Restrict(Merged, DOMAIN Merged \ b)
    /\ check' = AfterBan(b)
    /\ UNCHANGED switches

(* The save or the commit fails: the lines are written, and after a failed save the    *)
(* client is disconnected all the same.                                             *)
CheckRollsBack(b) ==
    /\ Happens
    /\ Judges(b) /\ Logs(b)
    /\ check' \in {Resting, AfterBan(b)}
    /\ UNCHANGED listVars

(* The log file cannot be opened: the row is not saved either.                        *)
LogFails(b) ==
    /\ Happens
    /\ Judges(b) /\ Actionable(b) # {}
    /\ logged' = [ip \in Ips |-> IF ip \in b THEN logged[ip] ELSE -1]
    /\ unlogged' = (unlogged \cap b) \cup Actionable(b)
    /\ check' = Resting
    /\ UNCHANGED <<repeated, listVars>>
-----------------------------------------------------------------------------
(* Faulty variant: the error of RemoveUser is only logged.                            *)
RemovalIgnored == FALSE

RemovalFails == ~user

(* disconnectClientTemporarily, after the commit and with the settings read before    *)
(* it: the user is removed and 100 ms later added again. A user who is not there is    *)
(* left alone.                                                                     *)
DisconnectRemoves ==
    /\ check.at = "disconnect"
    /\ user' = FALSE
    /\ check' = IF RemovalFails THEN Resting ELSE [check EXCEPT !.at = "removed"]
    /\ UNCHANGED <<time, online, clientVars, listVars, bannedSeen, switches, toldVars, astray>>

(* The API is not reachable.                                                        *)
DisconnectFails ==
    /\ Happens
    /\ check.at = "disconnect" /\ check' = Resting
    /\ UNCHANGED <<time, online, user, clientVars, listVars, bannedSeen, toldVars, astray>>

DisconnectAdds ==
    /\ check.at = "removed" /\ check' = Resting
    /\ user' = TRUE
    /\ UNCHANGED <<time, online, clientVars, listVars, bannedSeen, switches, toldVars, astray>>

(* AddUser fails; nothing asks for a restart.                                        *)
DisconnectAddFails ==
    /\ Happens
    /\ check.at = "removed" /\ check' = Resting
    /\ astray' = astray \cup {"readd"}
    /\ UNCHANGED <<time, online, user, clientVars, listVars, bannedSeen, toldVars>>
-----------------------------------------------------------------------------
OnlineSteps(ip) == Connects(ip) \/ Leaves(ip)

OtherSteps ==
    \/ RestartCore \/ SwitchApplies \/ ClearClientIps
    \/ \E on \in BOOLEAN : SwitchCommits(on)
    \/ \E ip \in Ips, t \in 1..MaxClock : MergeArrives(ip, t)

CheckSteps ==
    \/ \E prune, enforce \in BOOLEAN : CheckBegins(prune, enforce)
    \/ CheckCreates \/ CheckCollects
    \/ \E b \in SUBSET Ips : CheckEnforces(b) \/ CheckRollsBack(b) \/ LogFails(b)
    \/ DisconnectRemoves \/ DisconnectFails \/ DisconnectAdds \/ DisconnectAddFails

LimitNext == TimeGoes \/ OtherSteps \/ CheckSteps \/ \E ip \in Ips : OnlineSteps(ip)

LimitSpec == LimitInit /\ [][LimitNext]_limitVars
-----------------------------------------------------------------------------
(* Types of the state of CheckClientIpJob and of what it shares with the core.        *)
LimitTypeOK ==
    /\ DOMAIN online \cup DOMAIN stored \cup DOMAIN bannedSeen \subseteq Ips
    /\ user \in BOOLEAN /\ enabled \in BOOLEAN /\ change \in {"none", "on", "off"}
    /\ check.at \in {"idle", "read", "disconnect", "removed"}
    /\ stored # NoEntries => rowed

(* Every address a run found over the limit has its line in the log of fail2ban, for   *)
(* the connection it has now and not only for one before, and no connection has two    *)
(* while it stays over the limit (filterAdvancedSinceLastBan). Only a log file that     *)
(* could not be opened loses one: bannedSeen has moved by then.                        *)
OverLimitIsLogged ==
    /\ \A ip \in DOMAIN over \ unlogged : over[ip] <= logged[ip]
    /\ repeated = {}

(* The momentary removal does not change who the core serves: when no job is in the     *)
(* middle of it, the core knows the client exactly if it is on. The exceptions are a    *)
(* client that was switched off between the removal and the second AddUser, which       *)
(* brings it back, and an AddUser that failed (disconnectClientTemporarily).            *)
CoreFollowsRecord ==
    change = "none" /\ check.at # "removed" =>
        /\ user /\ ~enabled => "outrun" \in astray
        /\ enabled /\ ~user => "readd" \in astray
=============================================================================
