---------------------------- MODULE RepeatedTask ----------------------------
(***************************************************************************)
(* src/src/repeated_task.rs: a task function run again and again in the    *)
(* background until it is stopped.                                         *)
(*                                                                         *)
(* Callers share one RepeatedTask (an Arc) and run start(), stop() and     *)
(* started() concurrently; the last one to let go of it runs Drop.  The    *)
(* background task is the future that start() spawns on a Runtime; it      *)
(* shares nothing with the callers but the cancellation token.             *)
(*                                                                         *)
(* A step is the code between two points another thread can observe:       *)
(* start() and stop() are cut at every store another thread can read.      *)
(* started() only reads the variable of that name, so an invariant about   *)
(* `started' speaks of every value a caller can get from it.               *)
(*                                                                         *)
(* An operator named X_... just before X is a plausible slip in the code   *)
(* of X; no specification uses it.  It shows which property notices it.    *)
(***************************************************************************)
EXTENDS Naturals

CONSTANTS
    Callers,        \* threads and futures that share the RepeatedTask
    NoCaller,       \* the owner of the free `inner' mutex
    Intervals,      \* values for RepeatedTask::interval
    InitialDelays,  \* values for with_initial_delay()
    NoDelay         \* the None of initial_delay

ASSUME ConstantsAssumption ==
    /\ NoCaller \notin Callers
    /\ Intervals \subseteq Nat
    /\ InitialDelays \subseteq Nat \cup {NoDelay}

VARIABLES
    interval,       \* RepeatedTask::interval, fixed by new()
    initialDelay,   \* the loop's initial_delay: Some until its first turn
    mutex,          \* who holds the lock of `inner'
    taskFn,         \* inner.task_fn.is_some()
    handle,         \* inner.task_handle.is_some()
    cancelled,      \* cancel_token.is_cancelled()
    started,        \* the AtomicBool `started'
    refs,           \* callers that still hold a reference
    pc,             \* where each caller is
    ret,            \* what each caller's last call returned
    task,           \* where the background task is
    runtimeUp       \* FALSE once the runtime of the task has shut down

object == <<mutex, taskFn, handle, started, refs>>
background == <<initialDelay, task>>
vars == <<interval, object, cancelled, pc, ret, background, runtimeUp>>

----------------------------------------------------------------------------

(***************************************************************************)
(* "top" is the head of the loop, "select" the wait for the interval or    *)
(* for the token, "call" is task_fn.call().await.                          *)
(***************************************************************************)
Live  == {"spawned", "top", "select", "call"}
Ended == {"returned", "panicked", "aborted"}

Starting == {"start_check", "start_handle", "start_flag"}
Stopping == {"stop_check", "stop_flag", "stop_take"}
Critical == Starting \cup Stopping

Results == {"none", "ok", "illegal_state", "wait_failed", "given_up"}

TypeOK ==
    /\ interval \in Intervals
    /\ initialDelay \in InitialDelays \cup {NoDelay}
    /\ mutex \in Callers \cup {NoCaller}
    /\ taskFn \in BOOLEAN
    /\ handle \in BOOLEAN
    /\ cancelled \in BOOLEAN
    /\ started \in BOOLEAN
    /\ refs \subseteq Callers
    /\ pc \in [Callers -> {"idle", "stop_join"} \cup Critical]
    /\ ret \in [Callers -> Results]
    /\ task \in {"unspawned"} \cup Live \cup Ended
    /\ runtimeUp \in BOOLEAN

\* RepeatedTask::new() and with_initial_delay().
Init ==
    /\ interval \in Intervals
    /\ initialDelay \in InitialDelays
    /\ mutex = NoCaller
    /\ taskFn = TRUE
    /\ handle = FALSE
    /\ cancelled = FALSE
    /\ started = FALSE
    /\ refs \in (SUBSET Callers) \ {{}}
    /\ pc = [c \in Callers |-> "idle"]
    /\ ret = [c \in Callers |-> "none"]
    /\ task = "unspawned"
    /\ runtimeUp = TRUE

Goto(c, from, to) == pc[c] = from /\ pc' = [pc EXCEPT ![c] = to]

Return(c, from, result) ==
    /\ Goto(c, from, "idle")
    /\ ret' = [ret EXCEPT ![c] = result]

\* A caller with a reference enters a method and gets the lock of `inner'.
Enter(c, to) ==
    /\ c \in refs
    /\ mutex = NoCaller
    /\ mutex' = c
    /\ Goto(c, "idle", to)
    /\ ret' = [ret EXCEPT ![c] = "none"]
    /\ UNCHANGED <<interval, taskFn, handle, started, refs, cancelled,
                   background, runtimeUp>>

----------------------------------------------------------------------------
(* start(runtime)                                                          *)

StartLock(c) == Enter(c, "start_check")

\* ensure!(inner.task_fn.is_some(), ..): the call fails and unlocks.
StartRejected(c) ==
    /\ ~taskFn
    /\ Return(c, "start_check", "illegal_state")
    /\ mutex' = NoCaller
    /\ UNCHANGED <<interval, taskFn, handle, started, refs, cancelled,
                   background, runtimeUp>>

\* The function is taken and the loop spawned: from here on it runs.
StartSpawn(c) ==
    /\ taskFn
    /\ taskFn' = FALSE
    /\ task' = "spawned"
    /\ Goto(c, "start_check", "start_handle")
    /\ UNCHANGED <<interval, mutex, handle, started, refs, cancelled, ret,
                   initialDelay, runtimeUp>>

StartHandle_EarlyUnlock(c) ==
    /\ Goto(c, "start_handle", "start_flag")
    /\ handle' = TRUE
    /\ mutex' = NoCaller
    /\ UNCHANGED <<interval, taskFn, started, refs, cancelled, ret,
                   background, runtimeUp>>

StartHandle(c) ==
    /\ Goto(c, "start_handle", "start_flag")
    /\ handle' = TRUE
    /\ UNCHANGED <<interval, mutex, taskFn, started, refs, cancelled, ret,
                   background, runtimeUp>>

\* The flag is set before the lock guard goes out of scope.
StartFlag(c) ==
    /\ Return(c, "start_flag", "ok")
    /\ started' = TRUE
    /\ mutex' = NoCaller
    /\ UNCHANGED <<interval, taskFn, handle, refs, cancelled, background,
                   runtimeUp>>

----------------------------------------------------------------------------
(* stop()                                                                  *)

StopLock(c) == Enter(c, "stop_check")

\* "We allow stop the task multiple times": nothing to stop, or to wait for.
StopNothing(c) ==
    /\ ~handle
    /\ Return(c, "stop_check", "ok")
    /\ mutex' = NoCaller
    /\ UNCHANGED <<interval, taskFn, handle, started, refs, cancelled,
                   background, runtimeUp>>

StopCancel_NoCancel(c) ==
    /\ handle
    /\ Goto(c, "stop_check", "stop_flag")
    /\ UNCHANGED <<interval, object, cancelled, ret, background, runtimeUp>>

StopCancel(c) ==
    /\ handle
    /\ cancelled' = TRUE
    /\ Goto(c, "stop_check", "stop_flag")
    /\ UNCHANGED <<interval, object, ret, background, runtimeUp>>

StopFlag_NotCleared(c) ==
    /\ Goto(c, "stop_flag", "stop_take")
    /\ UNCHANGED <<interval, object, cancelled, ret, background, runtimeUp>>

StopFlag(c) ==
    /\ Goto(c, "stop_flag", "stop_take")
    /\ started' = FALSE
    /\ UNCHANGED <<interval, mutex, taskFn, handle, refs, cancelled, ret,
                   background, runtimeUp>>

StopTake_Kept(c) ==
    /\ Goto(c, "stop_take", "stop_join")
    /\ mutex' = NoCaller
    /\ UNCHANGED <<interval, taskFn, handle, started, refs, cancelled, ret,
                   background, runtimeUp>>

\* The handle leaves `inner' and the lock is released before the await.
StopTake(c) ==
    /\ Goto(c, "stop_take", "stop_join")
    /\ handle' = FALSE
    /\ mutex' = NoCaller
    /\ UNCHANGED <<interval, taskFn, started, refs, cancelled, ret,
                   background, runtimeUp>>

\* handle.await: Ok if the loop returned, a JoinError otherwise.
StopJoined(c) ==
    /\ task \in Ended
    /\ Return(c, "stop_join", IF task = "returned" THEN "ok" ELSE "wait_failed")
    /\ UNCHANGED <<interval, object, cancelled, background, runtimeUp>>

\* The caller drops the future of stop() while it waits; the task is detached.
StopGivenUp(c) ==
    /\ Return(c, "stop_join", "given_up")
    /\ UNCHANGED <<interval, object, cancelled, background, runtimeUp>>

----------------------------------------------------------------------------
(* Drop                                                                    *)

Release_NoCancel(c) ==
    /\ c \in refs
    /\ pc[c] = "idle"
    /\ refs' = refs \ {c}
    /\ handle' = (handle /\ refs' # {})
    /\ taskFn' = (taskFn /\ refs' # {})
    /\ UNCHANGED <<interval, mutex, started, cancelled, pc, ret, background,
                   runtimeUp>>

\* A caller lets go of its reference; the last one runs Drop::drop, which
\* cancels a task whose handle is still there, and then drops the fields.
Release(c) ==
    /\ c \in refs
    /\ pc[c] = "idle"
    /\ refs' = refs \ {c}
    /\ cancelled' = (cancelled \/ (refs' = {} /\ handle))
    /\ handle' = (handle /\ refs' # {})
    /\ taskFn' = (taskFn /\ refs' # {})
    /\ UNCHANGED <<interval, mutex, started, pc, ret, background, runtimeUp>>

----------------------------------------------------------------------------
(* The spawned loop                                                        *)

SleepTime == IF initialDelay = NoDelay THEN interval ELSE initialDelay

LoopTop_NeverSelects ==
    /\ task \in {"spawned", "top"}
    /\ task' = "call"
    /\ initialDelay' = NoDelay
    /\ UNCHANGED <<interval, object, cancelled, pc, ret, runtimeUp>>

LoopTop_DelayReplaced ==
    /\ task \in {"spawned", "top"}
    /\ task' = IF SleepTime > 0 THEN "select" ELSE "call"
    /\ initialDelay' = interval
    /\ UNCHANGED <<interval, object, cancelled, pc, ret, runtimeUp>>

\* initial_delay.take().unwrap_or(interval); only a positive sleep selects.
LoopTop ==
    /\ task \in {"spawned", "top"}
    /\ task' = IF SleepTime > 0 THEN "select" ELSE "call"
    /\ initialDelay' = NoDelay
    /\ UNCHANGED <<interval, object, cancelled, pc, ret, runtimeUp>>

\* The background task moves on without touching anything else.
TaskGoes(from, to) ==
    /\ task = from
    /\ task' = to
    /\ UNCHANGED <<interval, object, cancelled, pc, ret, initialDelay,
                   runtimeUp>>

SleepElapses_GoesRound == TaskGoes("select", "top")

\* select!: both branches may be ready, and then either one may be taken.
SleepElapses == TaskGoes("select", "call")

SeesCancel == cancelled /\ TaskGoes("select", "returned")

\* Ok, or an Err that is only logged.
CallReturns == TaskGoes("call", "top")

CallPanics == TaskGoes("call", "panicked")

\* The last clone of the runtime the task was spawned on goes away.  start()
\* holds a clone of its own until it returns.
RuntimeShutdown ==
    /\ runtimeUp
    /\ task # "unspawned"
    /\ \A c \in Callers : pc[c] \notin {"start_handle", "start_flag"}
    /\ runtimeUp' = FALSE
    /\ UNCHANGED <<interval, object, cancelled, pc, ret, background>>

\* A runtime that is down drops its tasks at an await.
Aborted ==
    /\ ~runtimeUp
    /\ \E from \in {"spawned", "select", "call"} : TaskGoes(from, "aborted")

----------------------------------------------------------------------------

Start(c) ==
    \/ StartLock(c) \/ StartRejected(c) \/ StartSpawn(c)
    \/ StartHandle(c) \/ StartFlag(c)

Stop(c) ==
    \/ StopLock(c) \/ StopNothing(c) \/ StopCancel(c) \/ StopFlag(c)
    \/ StopTake(c) \/ StopJoined(c) \/ StopGivenUp(c)

Loop == LoopTop \/ SleepElapses \/ SeesCancel \/ CallReturns \/ CallPanics

Next ==
    \/ \E c \in Callers : Start(c) \/ Stop(c) \/ Release(c)
    \/ Loop
    \/ RuntimeShutdown \/ Aborted

Spec == Init /\ [][Next]_vars

(***************************************************************************)
(* A caller that holds the lock goes on, and a stop() that waits sees the  *)
(* task end.  The loop runs, its timer fires and task_fn.call() comes      *)
(* back.  select! polls its branches in a random order, so a token that    *)
(* stays cancelled is not passed over for ever.  Nothing obliges a caller  *)
(* to call anything, a stop() to be given up or a runtime to shut down.    *)
(***************************************************************************)
CallerGoesOn(c) ==
    \/ StartRejected(c) \/ StartSpawn(c) \/ StartHandle(c) \/ StartFlag(c)
    \/ StopNothing(c) \/ StopCancel(c) \/ StopFlag(c) \/ StopTake(c)
    \/ StopJoined(c)

FairSpec ==
    /\ Spec
    /\ \A c \in Callers : WF_vars(CallerGoesOn(c))
    /\ WF_vars(LoopTop)
    /\ WF_vars(SleepElapses)
    /\ WF_vars(CallReturns \/ CallPanics)
    /\ SF_vars(SeesCancel)
=============================================================================
