----------------------------- MODULE OneShotTask -----------------------------
(***************************************************************************)
(* What a RepeatedTask (src/src/repeated_task.rs) promises to the code     *)
(* that owns it, without locks, tokens or loops:                           *)
(*                                                                         *)
(*   - it runs one background task, once;                                  *)
(*   - that task is asked to stop at most once, and ends only when asked   *)
(*     to, or because it crashed (a panic, or its runtime went away);      *)
(*   - its outcome is owned by the object, then by at most one stop(),     *)
(*     and nobody lets go of the outcome of a task that was not asked to   *)
(*     stop;                                                               *)
(*   - a task asked to stop ends.                                          *)
(***************************************************************************)

VARIABLES
    phase,   \* "new", "running", "stopping" or "ended"
    owner    \* who holds the outcome: "nobody", "object", "stopper", "gone"

vars == <<phase, owner>>

Init == phase = "new" /\ owner = "nobody"

Launch ==
    /\ phase = "new"
    /\ phase' = "running"
    /\ UNCHANGED owner

\* The object keeps the outcome; the task may already have ended by then.
Keep ==
    /\ phase # "new"
    /\ owner = "nobody"
    /\ owner' = "object"
    /\ UNCHANGED phase

AskToStop ==
    /\ phase = "running"
    /\ owner = "object"
    /\ phase' = "stopping"
    /\ UNCHANGED owner

\* A stop() takes the outcome over to wait for it.
Claim ==
    /\ phase \in {"stopping", "ended"}
    /\ owner = "object"
    /\ owner' = "stopper"
    /\ UNCHANGED phase

\* The waiting stop() returns, or is itself given up while it waits.
LetGo ==
    /\ owner = "stopper"
    /\ owner' = "gone"
    /\ UNCHANGED phase

\* The object is dropped with the outcome: the task is asked to stop.
Discard ==
    /\ owner = "object"
    /\ owner' = "gone"
    /\ phase' = IF phase = "running" THEN "stopping" ELSE phase

End ==
    /\ phase \in {"running", "stopping"}
    /\ phase' = "ended"
    /\ UNCHANGED owner

Next ==
    \/ Launch \/ Keep \/ AskToStop \/ Claim \/ LetGo
    \/ Discard \/ End

Spec == Init /\ [][Next]_vars

FairSpec == Spec /\ WF_vars(phase = "stopping" /\ End)
=============================================================================
