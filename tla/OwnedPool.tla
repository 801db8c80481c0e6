----------------------------- MODULE OwnedPool -----------------------------
(***************************************************************************)
(* What a Runtime (src/src/runtime.rs) promises to those who hold one,     *)
(* without threads, queues or signals:                                     *)
(*                                                                         *)
(*   - it stays up as long as anybody holds a clone of it, a job that runs *)
(*     on it included, and no job is given up before that;                 *)
(*   - it is down only when no job is left;                                *)
(*   - once the last clone is gone it goes down.                           *)
(***************************************************************************)
CONSTANTS
    Clients,   \* who may hold a clone without running on the pool
    Jobs       \* the futures and functions given to the pool

Owners == Clients \cup Jobs

VARIABLES
    phase,     \* "unbuilt", "up", "closing" or "down"
    owners,    \* who holds a clone
    job        \* "new", "accepted", "done" or "dropped"

vars == <<phase, owners, job>>

Init ==
    /\ phase = "unbuilt"
    /\ owners = {}
    /\ job = [j \in Jobs |-> "new"]

Open ==
    /\ phase = "unbuilt"
    /\ phase' = "up"
    /\ \E c \in Clients : owners' = {c}
    /\ UNCHANGED job

\* build() returns a pool that runs nothing.
OpenBroken ==
    /\ phase = "unbuilt"
    /\ phase' = "down"
    /\ \E c \in Clients : owners' = {c}
    /\ UNCHANGED job

Share ==
    /\ owners # {}
    /\ \E o \in Owners : owners' = owners \cup {o}
    /\ UNCHANGED <<phase, job>>

Release ==
    /\ \E o \in owners : owners' = owners \ {o}
    /\ UNCHANGED <<phase, job>>

\* Only an owner gives the pool a job, and the job may take a clone along.
Submit(j) ==
    /\ job[j] = "new"
    /\ owners # {}
    /\ \/ phase = "up" /\ job' = [job EXCEPT ![j] = "accepted"]
       \/ phase = "down" /\ job' = [job EXCEPT ![j] = "dropped"]
    /\ owners' \in {owners, owners \cup {j}}
    /\ UNCHANGED phase

\* A job that is over lets go of its clone.
Finish(j) ==
    /\ job[j] = "accepted"
    /\ job' = [job EXCEPT ![j] = "done"]
    /\ owners' = owners \ {j}
    /\ UNCHANGED phase

Close ==
    /\ phase = "up"
    /\ owners = {}
    /\ phase' = "closing"
    /\ UNCHANGED <<owners, job>>

Accepted == {j \in Jobs : job[j] = "accepted"}

DropJobs ==
    /\ phase = "closing"
    /\ \E S \in SUBSET Accepted :
          job' = [j \in Jobs |-> IF j \in S THEN "dropped" ELSE job[j]]
    /\ UNCHANGED <<phase, owners>>

GoDown ==
    /\ phase = "closing"
    /\ Accepted = {}
    /\ phase' = "down"
    /\ UNCHANGED <<owners, job>>

Next ==
    \/ Open \/ OpenBroken \/ Share \/ Release
    \/ \E j \in Jobs : Submit(j) \/ Finish(j)
    \/ Close \/ DropJobs \/ GoDown

Spec == Init /\ [][Next]_vars

\* Nobody has to let go of a clone; when all have, the pool goes down.
FairSpec ==
    /\ Spec
    /\ WF_vars(Close)
    /\ WF_vars(DropJobs \/ (phase = "closing" /\ \E j \in Jobs : Finish(j)))
    /\ WF_vars(GoDown)
=============================================================================
