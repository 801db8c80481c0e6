--------------------------- MODULE ThrottledFuture ---------------------------
(***************************************************************************)
(* What wrapping a future in a PendingFuture (src/src/pending_future/)     *)
(* promises to the future inside and to the task that awaits it, whatever  *)
(* the throttling mode:                                                    *)
(*                                                                         *)
(*   - the inner future only ever moves because its event happened or      *)
(*     because it was polled, and it is polled only while the gate of its  *)
(*     throttle is open;                                                   *)
(*   - a gate that closed opens again, and a future that has something to  *)
(*     do is polled, however often the gate closes in between: no wake-up  *)
(*     is lost to the throttle.                                            *)
(***************************************************************************)
CONSTANT Tasks

VARIABLES
    inner,   \* "new", "waiting" for its event, "fired", "done"
    gate     \* "open" or "closed"

vars == <<inner, gate>>

Init ==
    /\ inner = [t \in Tasks |-> "new"]
    /\ gate = [t \in Tasks |-> "open"]

\* The event the future waits for.
Event(t) ==
    /\ inner[t] = "waiting"
    /\ inner' = [inner EXCEPT ![t] = "fired"]
    /\ UNCHANGED gate

Poll(t) ==
    /\ gate[t] = "open"
    /\ inner[t] # "done"
    /\ \E r \in {"waiting", "done"} : inner' = [inner EXCEPT ![t] = r]
    /\ UNCHANGED gate

Close(t) ==
    /\ gate[t] = "open"
    /\ inner[t] # "done"
    /\ gate' = [gate EXCEPT ![t] = "closed"]
    /\ UNCHANGED inner

Open(t) ==
    /\ gate[t] = "closed"
    /\ gate' = [gate EXCEPT ![t] = "open"]
    /\ UNCHANGED inner

Next == \E t \in Tasks : Event(t) \/ Poll(t) \/ Close(t) \/ Open(t)

Spec == Init /\ [][Next]_vars

HasWork(t) == inner[t] \in {"new", "fired"}

\* The gate opens again, and a future with something to do is polled while it is
\* open, if not this time then another.
Fairness(t) == WF_vars(Open(t)) /\ SF_vars(HasWork(t) /\ Poll(t))

FairSpec == Spec /\ \A t \in Tasks : Fairness(t)
=============================================================================
