---------------------------- MODULE SerialWriter ----------------------------
(***************************************************************************)
(* What a caller of submitTrafficWrite (internal/web/service/              *)
(* traffic_writer.go) is promised, with no queue, goroutine or lock: a     *)
(* write it hands in takes effect exactly once or is refused without ever  *)
(* taking effect, and the caller is told which only after it happened.     *)
(***************************************************************************)
CONSTANT Requests   \* the calls of submitTrafficWrite

VARIABLE promise    \* what has become of each call

Stages == {"new", "open", "applied", "told_applied", "told_refused"}

Move(r, from, to) ==
    /\ promise[r] = from
    /\ promise' = [promise EXCEPT ![r] = to]

Init == promise = [r \in Requests |-> "new"]

Next == \E r \in Requests :
    \/ Move(r, "new", "open")               \* the call begins
    \/ Move(r, "open", "applied")           \* the write takes effect
    \/ Move(r, "open", "told_refused")      \* the queue stayed full
    \/ Move(r, "applied", "told_applied")   \* the call returns

Spec == Init /\ [][Next]_promise
=============================================================================
