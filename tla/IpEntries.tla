----------------------------- MODULE IpEntries -----------------------------
(* The list of addresses of a client as the panels store it: each address with  *)
(* the time it was last seen. Order and JSON form are left out.                  *)
EXTENDS Integers, Functions

NoEntries == [ip \in {} |-> 0]

(* Entries not older than the cutoff.                                           *)
FreshEntries(entries, cutoff) == Restrict(entries, {ip \in DOMAIN entries : entries[ip] >= cutoff})

(* Both lists, with the later of two times.                                     *)
Latest(old, new) ==
    [ip \in DOMAIN old \cup DOMAIN new |->
        IF ip \in DOMAIN old /\ (ip \in DOMAIN new => old[ip] >= new[ip]) THEN old[ip] ELSE new[ip]]

(* Faulty variant: the age of what is merged is not looked at.                  *)
MergeAll(old, incoming, cutoff) == Latest(old, incoming)

(* mergeClientIpEntries and its twin for the attribution rows.                  *)
MergeEntries(old, incoming, cutoff) == Latest(FreshEntries(old, cutoff), FreshEntries(incoming, cutoff))

(* mergeClientIps of the scan: what the core reports is connected, however old  *)
(* the time it carries.                                                         *)
MergeScan(old, observed, cutoff) == Latest(FreshEntries(old, cutoff), observed)
=============================================================================
