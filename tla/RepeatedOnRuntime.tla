------------------------- MODULE RepeatedOnRuntime -------------------------
(***************************************************************************)
(* A RepeatedTask (src/src/repeated_task.rs) on the Runtime it is started  *)
(* on (src/src/runtime.rs), from the making of that runtime to its end.    *)
(*                                                                         *)
(* start() takes a clone of the Runtime by value, the callers keep clones  *)
(* of their own, and the task function may have captured one.  The         *)
(* function may also hold the RepeatedTask itself and call stop() on it.   *)
(* The runtime goes down when the last clone is gone, and takes the task   *)
(* with it.                                                                *)
(*                                                                         *)
(* Every step of the object or of the loop is a step of RepeatedTask, so   *)
(* what is proved of that module holds here.  Of the Runtime this module   *)
(* keeps what OwnedPool promises.                                          *)
(***************************************************************************)
EXTENDS RepeatedTaskProps

CONSTANT Fn   \* the task function, in its role as one of the callers

ASSUME FnAssumption == Fn \in Callers

VARIABLES
    owners,   \* who holds a clone of the Runtime
    phase     \* "unbuilt", "up", "closing" or "down"

pool == <<owners, phase>>
all == <<vars, pool>>

PoolTypeOK ==
    /\ TypeOK
    /\ owners \subseteq Callers
    /\ phase \in {"unbuilt", "up", "closing", "down"}

RInit ==
    /\ Init
    /\ owners = {}
    /\ phase = "unbuilt"

\* The function acts only while the loop calls it.
Acts(c) == c = Fn => task = "call"

----------------------------------------------------------------------------
(* The clones                                                              *)

BuildRuntime(c) ==
    /\ c # Fn
    /\ phase = "unbuilt"
    /\ phase' = "up"
    /\ owners' = {c}
    /\ UNCHANGED vars

\* A clone for another caller, or for a function not yet given to new().
CloneRuntime(c) ==
    /\ c \in owners
    /\ Acts(c)
    /\ pc[c] = "idle"
    /\ \E d \in Callers :
          /\ d = Fn => taskFn /\ \A e \in Callers : pc[e] = "idle"
          /\ owners' = owners \cup {d}
    /\ UNCHANGED <<vars, phase>>

DropRuntime(c) ==
    /\ c \in owners
    /\ Acts(c)
    /\ pc[c] = "idle"
    /\ owners' = owners \ {c}
    /\ UNCHANGED <<vars, phase>>

Closes_Early ==
    /\ phase = "up"
    /\ owners \subseteq {Fn}
    /\ phase' = "closing"
    /\ IF task = "unspawned" THEN UNCHANGED vars ELSE RuntimeShutdown
    /\ UNCHANGED owners

\* The last clone is gone: the blocker thread drops the tokio runtime.
Closes ==
    /\ phase = "up"
    /\ owners = {}
    /\ phase' = "closing"
    /\ IF task = "unspawned" THEN UNCHANGED vars ELSE RuntimeShutdown
    /\ UNCHANGED owners

GoesDown ==
    /\ phase = "closing"
    /\ task \notin Live
    /\ phase' = "down"
    /\ UNCHANGED <<vars, owners>>

----------------------------------------------------------------------------
(* The object and the loop                                                 *)

\* start() gets a clone, which it drops when it returns.
RStart(c) ==
    /\ Start(c)
    /\ Acts(c)
    /\ c \in owners
    /\ UNCHANGED pool

RStop(c) == Stop(c) /\ Acts(c) /\ UNCHANGED pool

\* The function lets go of the object when it is dropped with its task.  Where
\* it was never spawned it is dropped with the object, and its clone, too.
RRelease(c) ==
    /\ Release(c)
    /\ c = Fn => task \in {"call"} \cup Ended
    /\ owners' = IF refs' = {} /\ taskFn THEN owners \ {Fn} ELSE owners
    /\ UNCHANGED phase

FunctionDropped_Leaked == UNCHANGED pool

\* A task that ends drops its function, with the clone that captured.
FunctionDropped ==
    /\ owners' = owners \ {Fn}
    /\ UNCHANGED phase

\* task_fn.call() comes back, panics or is dropped only when it is not inside a
\* start() or stop() of its own; a stop() it waits for is dropped with it.
RLoop ==
    \/ LoopTop /\ UNCHANGED pool
    \/ SleepElapses /\ UNCHANGED pool
    \/ pc[Fn] = "idle" /\ CallReturns /\ UNCHANGED pool
    \/ SeesCancel /\ FunctionDropped
    \/ pc[Fn] = "idle" /\ CallPanics /\ FunctionDropped
    \/ pc[Fn] = "idle" /\ Aborted /\ FunctionDropped

RNext ==
    \/ \E c \in Callers :
          \/ BuildRuntime(c) \/ CloneRuntime(c) \/ DropRuntime(c)
          \/ RStart(c) \/ RStop(c) \/ RRelease(c)
    \/ Closes \/ GoesDown
    \/ RLoop

RSpec == RInit /\ [][RNext]_all

(***************************************************************************)
(* As in RepeatedTask and in Runtime.  A call of the function that does    *)
(* not wait for itself comes back.  A task on a closed runtime is dropped  *)
(* when it sleeps, or where it waits for itself.                           *)
(***************************************************************************)
RFairSpec ==
    /\ RSpec
    /\ \A c \in Callers : WF_all(CallerGoesOn(c) /\ UNCHANGED pool)
    /\ WF_all(LoopTop /\ UNCHANGED pool)
    /\ WF_all(SleepElapses /\ UNCHANGED pool)
    /\ SF_all(pc[Fn] = "idle" /\ CallReturns /\ UNCHANGED pool)
    /\ SF_all(SeesCancel /\ FunctionDropped)
    /\ SF_all(task = "select" /\ Aborted /\ FunctionDropped)
    /\ WF_all(~runtimeUp /\ StopGivenUp(Fn) /\ UNCHANGED pool)
    /\ WF_all(task \in Ended /\ RRelease(Fn))
    /\ WF_all(Closes)
    /\ WF_all(GoesDown)

----------------------------------------------------------------------------

\* A task that was told to end ends, unless its own function waits for it: the
\* function that awaits the stop() of its own task is the only deadlock
\* (repeated_task.rs:119-131 and 159).
OnlyASelfStopHangs ==
    interval > 0 /\ <>cancelled
        => <>(task \in Ended) \/ <>[](pc[Fn] = "stop_join")

\* Once every caller but the function has let go of the Runtime, and everybody
\* of the RepeatedTask, the runtime goes down, although the function that runs on
\* it may hold a clone of it: Drop cancels the task, and the task drops the clone
\* (repeated_task.rs:67-75 and 107-131, runtime.rs:46-51).
ForgottenRuntimeGoesDown ==
    interval > 0 /\ <>[](phase # "unbuilt" /\ refs = {} /\ owners \subseteq {Fn})
        => <>(phase = "down")

----------------------------------------------------------------------------

PhaseOfJob ==
    CASE task = "unspawned" -> "new"
      [] task \in Live -> "accepted"
      [] task \in {"returned", "panicked"} -> "done"
      [] task = "aborted" -> "dropped"

Pool == INSTANCE OwnedPool
    WITH Clients <- Callers \ {Fn}, Jobs <- {Fn},
         job <- [j \in {Fn} |-> PhaseOfJob]

\* A RepeatedTask is a job like any other to its runtime: the task is dropped by
\* the runtime only after the last clone is gone, the one its own function holds
\* included, and none that start() still holds is gone too early
\* (repeated_task.rs:104-142, runtime.rs:46-66).
ImplementsOwnedPool == Pool!Spec
=============================================================================
