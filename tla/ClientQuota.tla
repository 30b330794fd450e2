---------------------------- MODULE ClientQuota ----------------------------
(* Quota, expiry and renewal of one client. Whether it is on and until when is  *)
(* stored three times: in its client_traffics row, in its clients record and in *)
(* the settings of every inbound it is attached to. The poll (AddTraffic) keeps *)
(* them in step on the serial writer; edits read the settings before they get   *)
(* there. All inbounds are local; other clients of an inbound appear as edits    *)
(* that save its settings as they read them. One call of the operator at a time. *)
EXTENDS Integers, FiniteSets, FiniteSetsExt

CONSTANTS
    Homes,       \* inbounds the client is attached to
    Period,      \* reset: length of a renewal period, 0 without renewal
    Allowance,   \* reset_max: renewals that were paid, 0 without a limit
    Quota,       \* total, 0 without a limit
    Terms,       \* expiries an operator sets: a deadline, 0 never, < 0 from first use
    MaxTime,     \* bound: the clock
    MaxDeeds       \* bound: calls, edits of other clients, failed polls

ASSUME HomesAssumption == IsFiniteSet(Homes) /\ Homes # {}
ASSUME QuotaAssumption == Period \in Nat /\ Allowance \in Nat /\ Quota \in Nat
ASSUME TermsAssumption == Terms \subseteq Int /\ MaxTime \in Nat /\ MaxDeeds \in Nat

VARIABLES
    clock,    \* time, in half seconds
    stat,     \* client_traffics: on, until, used, count (reset_count)
    rec,      \* clients: on, until
    conf,     \* inbounds.settings: on, until, per inbound
    work,     \* who holds lockInbound, and the settings it read
    call,     \* the operator's call: what it sets, inbounds to do, no failure so far
    polling,  \* the writer is between the two transactions of addTrafficLocked
    deeds,      \* bound: operations so far
    paid,     \* ghost: until and count when the term was last set
    spoiled   \* ghost: situations in which the copies drift apart, see CopiesAgree

copyVars == <<stat, rec, conf>>
quotaVars == <<clock, copyVars, work, call, polling, deeds, paid, spoiled>>

Copies == [on : BOOLEAN, until : Int]
Free == [kind |-> "free", base |-> [on |-> FALSE, until |-> 0]]
NoCall == [kind |-> "none", to |-> Free.base, todo |-> {}, ok |-> TRUE]

QuotaInit ==
    /\ clock = 1
    /\ \E t \in Terms : rec = [on |-> TRUE, until |-> t]
    /\ conf = [i \in Homes |-> rec]
    /\ stat = [on |-> TRUE, until |-> rec.until, used |-> 0, count |-> 0]
    /\ work = [i \in Homes |-> Free] /\ call = NoCall /\ polling = FALSE /\ deeds = 0
    /\ paid = [until |-> rec.until, count |-> 0] /\ spoiled = {}

Deed == deeds < MaxDeeds /\ deeds' = deeds + 1

(* Time passes; the clock of a bounded instance stops at MaxTime.               *)
TimePasses ==
    /\ clock < MaxTime
    /\ clock' = clock + 1
    /\ UNCHANGED <<copyVars, work, call, polling, deeds, paid, spoiled>>

(* An edit is between its read and its commit, or has inbounds left.            *)
Editing == call.kind \in {"update", "bulk", "reset"} \/ \E i \in Homes : work[i] # Free

(* The term was set to t when c renewals had been spent.                        *)
TermSet(t, c) == paid' = [until |-> t, count |-> c]

-----------------------------------------------------------------------------
(* The poll. Its first transaction adds the usage and, at the first use, turns  *)
(* a term that starts then into a deadline, in every copy; SyncInbound copies    *)
(* the settings of each inbound to the record, so the last one stays. Usage is   *)
(* bounded by the quota.                                                        *)
Converted == IF stat.until < 0 THEN clock - stat.until ELSE stat.until

PollCounts(k, last) ==
    /\ ~polling /\ polling' = TRUE
    /\ stat.used + k <= Quota
    /\ IF k > 0 /\ stat.until < 0
         THEN /\ conf' = [i \in Homes |-> [on |-> conf[i].on, until |-> Converted]]
              /\ rec' = conf'[last]
              /\ TermSet(Converted, stat.count)
              /\ spoiled' = spoiled \cup (IF Editing THEN {"overlap"} ELSE {})
              /\ stat' = [stat EXCEPT !.used = @ + k, !.until = Converted]
         ELSE /\ stat' = [stat EXCEPT !.used = @ + k]
              /\ UNCHANGED <<conf, rec, paid, spoiled>>
    /\ UNCHANGED <<clock, work, call, deeds>>

(* Faulty variant: every inbound of the client spends an allowance.             *)
SpentPerInbound(k) == k * Cardinality(Homes)

(* Renewals charged for k periods: the inbounds after the first one find the     *)
(* term already extended.                                                       *)
Spent(k) == k

MayRenew(s) == Period > 0 /\ (Allowance = 0 \/ s.count < Allowance)

(* Faulty variant: a client that was switched off is not looked at.              *)
SelectedIfOn(s, sec) == MayRenew(s) /\ s.on /\ s.until > 0 /\ s.until <= sec

(* autoRenewClients selects the terms that ended, at the second the poll is in.  *)
Selected(s, sec) == MayRenew(s) /\ s.until > 0 /\ s.until <= sec

(* Periods added: until the term reaches the clock or the allowance is used up.  *)
Periods(s, sec) ==
    Min({k \in 0 .. MaxTime : s.until + k * Period >= sec \/ (Allowance > 0 /\ s.count + k >= Allowance)})

(* The row after the renewal. A term that is still over is only moved; a client  *)
(* that was off is switched on.                                                 *)
Renewed(s, sec) ==
    LET k == Periods(s, sec)
        t == s.until + k * Period
    IN  [on |-> s.on \/ t > sec, until |-> t, used |-> IF t > sec THEN 0 ELSE s.used,
         count |-> s.count + Spent(k)]

AfterRenewal(s, sec) == IF Selected(s, sec) THEN Renewed(s, sec) ELSE s

(* Faulty variant: the settings of the inbounds keep the old term.               *)
SettingsKept(c, s, sec) == c

(* The settings of an inbound after the renewal. An inbound whose client is off  *)
(* while the row was on stays as it is.                                         *)
SettingsRenewed(c, s, sec) ==
    IF Selected(s, sec)
      THEN [on |-> IF Renewed(s, sec).until > sec /\ ~s.on THEN TRUE ELSE c.on,
            until |-> Renewed(s, sec).until]
      ELSE c

(* depletedClientsCond, without totals of other panels.                         *)
Exhausted(s) == (Quota > 0 /\ s.used >= Quota) \/ (s.until > 0 /\ s.until <= clock)

(* Faulty variant: only the quota is looked at.                                 *)
CutOffOverQuota(s) == s.on /\ Quota > 0 /\ s.used >= Quota

(* disableInvalidClients takes the rows that are on: a client goes off in the    *)
(* row, the record and every inbound.                                           *)
CutOff(s) == s.on /\ Exhausted(s)

(* Renewal works with whole seconds, so it lags behind the expiry check.        *)
WholeSecond == clock - (clock % 2)

(* The second transaction.                                                      *)
PollMaintains(last) ==
    /\ polling /\ polling' = FALSE
    /\ LET sec == WholeSecond
           s == AfterRenewal(stat, sec)
           c == [i \in Homes |-> SettingsRenewed(conf[i], stat, sec)]
           r == IF Selected(stat, sec) THEN c[last] ELSE rec
       IN  IF CutOff(s)
             THEN /\ stat' = [s EXCEPT !.on = FALSE]
                  /\ rec' = [r EXCEPT !.on = FALSE]
                  /\ conf' = [i \in Homes |-> [on |-> FALSE, until |-> c[i].until]]
             ELSE stat' = s /\ rec' = r /\ conf' = c
    /\ spoiled' = spoiled \cup (IF Editing /\ <<conf', stat'>> # <<conf, stat>> THEN {"overlap"} ELSE {})
    /\ UNCHANGED <<clock, work, call, deeds, paid>>

(* It fails and is rolled back; what was counted stays.                         *)
MaintenanceFails ==
    /\ polling /\ polling' = FALSE
    /\ Deed
    /\ UNCHANGED <<clock, copyVars, work, call, paid, spoiled>>

-----------------------------------------------------------------------------
(* Update with the on and until of copy p, BulkSetEnable with the on of p, and   *)
(* ResetTrafficByEmail, which updates a client whose record is off.             *)
Begins(kind, p, todo) ==
    /\ call = NoCall
    /\ Deed
    /\ call' = [kind |-> kind, to |-> p, todo |-> todo, ok |-> TRUE]
    /\ UNCHANGED <<clock, copyVars, work, polling, paid, spoiled>>

UpdateBegins(p) == Begins("update", p, Homes)
BulkBegins(on) == Begins("bulk", [on |-> on, until |-> 0], Homes)
ResetBegins ==
    IF rec.on THEN Begins("zero", rec, {}) ELSE Begins("reset", [on |-> TRUE, until |-> rec.until], Homes)

(* UpdateInboundClient or bulkSetEnableInboundClients locks inbound i and reads  *)
(* its settings; without a change it is done.                                   *)
NoChange(i) == IF call.kind = "bulk" THEN conf[i].on = call.to.on ELSE conf[i] = call.to

ApplyReads(i) ==
    /\ i \in call.todo /\ work[i] = Free
    /\ call' = [call EXCEPT !.todo = @ \ {i}]
    /\ work' = [work EXCEPT ![i] = IF NoChange(i) THEN Free ELSE [kind |-> "ours", base |-> conf[i]]]
    /\ UNCHANGED <<clock, copyVars, polling, deeds, paid, spoiled>>

(* Its transaction, on the writer. An update writes the row, the settings and    *)
(* the record, the bulk call the settings and, by SyncInbound, the record.      *)
ApplyCommits(i) ==
    /\ work[i].kind = "ours" /\ ~polling
    /\ LET c == IF call.kind = "bulk" THEN [on |-> call.to.on, until |-> work[i].base.until] ELSE call.to
       IN  /\ conf' = [conf EXCEPT ![i] = c]
           /\ rec' = c
    /\ IF call.kind = "bulk"
         THEN UNCHANGED <<stat, paid>>
         ELSE /\ stat' = [stat EXCEPT !.on = call.to.on, !.until = call.to.until]
              /\ TermSet(call.to.until, stat.count)
    /\ work' = [work EXCEPT ![i] = Free]
    /\ UNCHANGED <<clock, call, polling, deeds, spoiled>>

ApplyFails(i) ==
    /\ work[i].kind = "ours" /\ ~polling
    /\ call' = [call EXCEPT !.ok = FALSE]
    /\ work' = [work EXCEPT ![i] = Free]
    /\ spoiled' = spoiled \cup {"partial"}
    /\ UNCHANGED <<clock, copyVars, polling, deeds, paid>>

Applied == call.todo = {} /\ \A i \in Homes : work[i].kind # "ours"

(* The end of Update writes the record's on once more, not on the writer; a      *)
(* reset goes on even if its update failed.                                     *)
UpdateEnds ==
    /\ call.kind \in {"update", "reset"} /\ Applied
    /\ rec' = IF call.ok THEN [rec EXCEPT !.on = call.to.on] ELSE rec
    /\ call' = IF call.kind = "reset" THEN [call EXCEPT !.kind = "zero"] ELSE NoCall
    /\ UNCHANGED <<clock, stat, conf, work, polling, deeds, paid, spoiled>>

BulkEnds ==
    /\ call.kind = "bulk" /\ Applied /\ ~polling
    /\ IF call.ok
         THEN /\ stat' = [stat EXCEPT !.on = call.to.on]
              /\ rec' = [rec EXCEPT !.on = call.to.on]
         ELSE UNCHANGED <<stat, rec>>
    /\ call' = NoCall
    /\ UNCHANGED <<clock, conf, work, polling, deeds, paid, spoiled>>

(* The row is switched on whatever the other copies say.                        *)
ZeroRow ==
    /\ stat' = [stat EXCEPT !.used = 0, !.on = TRUE]
    /\ spoiled' = spoiled \cup (IF ~rec.on \/ \E i \in Homes : ~conf[i].on THEN {"zeroed"} ELSE {})

(* resetClientTrafficLocked, the end of ResetTrafficByEmail.                    *)
ResetClient ==
    /\ call.kind = "zero" /\ ~polling
    /\ ZeroRow
    /\ call' = NoCall
    /\ UNCHANGED <<clock, rec, conf, work, polling, deeds, paid>>

(* ResetAllTraffics, ResetAllClientTraffics: nothing but the row.                *)
ResetAll ==
    /\ Deed
    /\ ~polling
    /\ ZeroRow
    /\ UNCHANGED <<clock, rec, conf, work, call, polling, paid>>

(* An edit of another client of inbound i saves the settings it read; a bulk     *)
(* edit also syncs the records from them.                                       *)
OtherReads(i) ==
    /\ Deed
    /\ work[i] = Free
    /\ work' = [work EXCEPT ![i] = [kind |-> "other", base |-> conf[i]]]
    /\ UNCHANGED <<clock, copyVars, call, polling, paid, spoiled>>

OtherCommits(i, sync) ==
    /\ work[i].kind = "other" /\ ~polling
    /\ conf' = [conf EXCEPT ![i] = work[i].base]
    /\ rec' = IF sync THEN work[i].base ELSE rec
    /\ work' = [work EXCEPT ![i] = Free]
    /\ UNCHANGED <<clock, stat, call, polling, deeds, paid, spoiled>>

-----------------------------------------------------------------------------
PollSteps ==
    \/ \E last \in Homes : PollMaintains(last) \/ \E k \in {0, 1} : PollCounts(k, last)
    \/ MaintenanceFails

CallSteps ==
    \/ \E on \in BOOLEAN : BulkBegins(on) \/ \E t \in Terms : UpdateBegins([on |-> on, until |-> t])
    \/ ResetBegins \/ UpdateEnds \/ BulkEnds \/ ResetClient \/ ResetAll

HomeSteps(i) ==
    \/ ApplyReads(i) \/ ApplyCommits(i) \/ ApplyFails(i) \/ OtherReads(i)
    \/ \E sync \in BOOLEAN : OtherCommits(i, sync)

QuotaNext == TimePasses \/ PollSteps \/ CallSteps \/ \E i \in Homes : HomeSteps(i)

(* Time passes, cron starts the poll again and again and the writer executes it. *)
QuotaFairness ==
    /\ WF_quotaVars(TimePasses)
    /\ WF_quotaVars(\E last \in Homes : PollCounts(0, last) \/ PollMaintains(last))

QuotaSpec == QuotaInit /\ [][QuotaNext]_quotaVars /\ QuotaFairness

-----------------------------------------------------------------------------
(* Types of the three copies and of the calls that change them.                 *)
QuotaTypeOK ==
    /\ clock \in Nat /\ rec \in Copies /\ conf \in [Homes -> Copies]
    /\ stat \in [on : BOOLEAN, until : Int, used : Nat, count : Nat]
    /\ work \in [Homes -> [kind : {"free", "ours", "other"}, base : Copies]]
    /\ call \in [kind : {"none", "update", "bulk", "reset", "zero"}, to : Copies,
                 todo : SUBSET Homes, ok : BOOLEAN]
    /\ polling \in BOOLEAN /\ deeds \in Nat
    /\ paid \in [until : Int, count : Nat]
    /\ spoiled \subseteq {"overlap", "partial", "zeroed"}

(* Between two calls of the operator the row, the record and the settings of     *)
(* every inbound agree on whether the client is on and until when. They drift    *)
(* apart only if the poll changed the client while an edit was at work, if one   *)
(* inbound of a call failed, or if a reset met a client that is off elsewhere.   *)
CopiesAgree ==
    call.kind \in {"none", "zero"} /\ spoiled = {} =>
        \A i \in Homes : conf[i] = rec /\ rec = [on |-> stat.on, until |-> stat.until]

(* Every renewal that was charged bought one period, however many inbounds the   *)
(* client has, whatever failed and was polled again, and never more renewals     *)
(* were charged than paid (autoRenewClients).                                   *)
RenewalsPaid ==
    /\ stat.until = paid.until + Period * (stat.count - paid.count)
    /\ Allowance > 0 => stat.count <= Allowance

(* A client that has used up its quota or its term is switched off by a later    *)
(* poll, whichever edits, resets and failures come between (disableInvalidClients). *)
ExhaustedIsCutOff == (stat.on /\ Exhausted(stat)) ~> (~stat.on \/ ~Exhausted(stat))

(* A paid renewal arrives: a client whose term ended is extended as long as the  *)
(* allowance lasts, also after it was switched off in between.                  *)
RenewalArrives ==
    (MayRenew(stat) /\ stat.until > 0 /\ stat.until < clock)
        ~> (stat.until <= 0 \/ stat.until >= clock \/ ~MayRenew(stat))
=============================================================================
