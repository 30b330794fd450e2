-------------------------- MODULE MCTrafficWriter --------------------------
(* TrafficWriter on small instances. *)
EXTENDS TrafficWriter, TLC

\* Calls, goroutines and stoppers are only compared for equality.
Symmetry == Permutations(Requests) \cup Permutations(Writers) \cup Permutations(Stoppers)

\* The panel once Server.start (internal/web/web.go) has called
\* StartTrafficWriter, before which nothing submits a write.
PanelInit ==
    /\ mu = None
    /\ \E w \in Writers :
        /\ cur = w
        /\ wpc = [v \in Writers |-> IF v = w THEN "select" ELSE "unborn"]
    /\ cancelled = {}
    /\ queue = [w \in Writers |-> <<>>]
    /\ writing = [w \in Writers |-> None]
    /\ rpc = [r \in Requests |-> "new"]
    /\ at = [r \in Requests |-> None]
    /\ replied = {}
    /\ applied = [r \in Requests |-> 0]
    /\ result = [r \in Requests |-> "none"]
    /\ stopping = [p \in Stoppers |-> None]

PanelSpec == PanelInit /\ [][Next]_vars
=============================================================================
