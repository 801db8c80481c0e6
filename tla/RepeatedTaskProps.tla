-------------------------- MODULE RepeatedTaskProps --------------------------
(***************************************************************************)
(* The properties of RepeatedTask, and the abstract life cycle it          *)
(* implements.                                                             *)
(***************************************************************************)
EXTENDS RepeatedTask

\* The flag never announces a task that stop() could not find: in every state
\* any thread can observe, started() is true only while inner.task_handle is
\* Some, although the flag is read without the lock (repeated_task.rs:39,
\* 133-134 and 152-155).
StartedHasHandle == started /\ refs # {} => handle

\* started() goes stale only when the task crashed: with no start() or stop() in
\* between its stores, a flag that is up means that the task is live, or that it
\* panicked or lost its runtime, which nobody tells the flag; never that the
\* loop returned (repeated_task.rs:117-134 and 152-153).
StaleOnlyAfterACrash ==
    started /\ mutex = NoCaller /\ refs # {} =>
        task \in Live \cup {"panicked", "aborted"}

\* The two unwrap() calls that comments call safe never panic: the function is
\* there when start() takes it and the handle is there when stop() takes it,
\* however calls interleave (repeated_task.rs:112-113 and 154-155).
UnwrapsAreSafe ==
    \A c \in Callers :
        /\ pc[c] = "start_handle" => ~taskFn
        /\ pc[c] \in {"stop_flag", "stop_take"} => handle

\* The JoinHandle is in one place: in `inner', or in the one stop() that waits
\* for the task; two stops racing never both wait (repeated_task.rs:145-156).
JoinHandleIsUnique ==
    \A c \in Callers : pc[c] = "stop_join" =>
        /\ ~handle
        /\ \A d \in Callers : pc[d] = "stop_join" => d = c

\* No background task is left running that nobody can stop: when the handle is
\* in neither `inner' nor a start() about to store it, the token of a live
\* task is cancelled.  This is what stop(), a stop() given up half-way and
\* Drop owe the runtime (repeated_task.rs:67-75 and 144-156).
NoOrphan ==
    task \in Live /\ ~handle /\ (\A c \in Callers : pc[c] # "start_handle")
        => cancelled

\* The function is spawned once in the object's life, whatever starts and stops
\* race (repeated_task.rs:105-113).
SpawnedOnce == [][task' = "spawned" => task \in {"unspawned", "spawned"}]_vars

\* Once a stop() has cancelled the task no start() can raise the flag again, not
\* even one that had already spawned the task (repeated_task.rs:134 and 153).
StartedStaysDown == [][cancelled /\ started' => started]_vars

\* A stop() that returns Ok, early or after the wait, leaves no live task that
\* was not told to end (repeated_task.rs:147-164).
StopOkMeansToldToEnd ==
    [][\A c \in Callers :
          /\ pc[c] \in Stopping \cup {"stop_join"}
          /\ pc'[c] = "idle"
          /\ ret'[c] = "ok"
          => (task' \in Live => cancelled')]_vars

\* "Cancel the background task.": a task whose token is cancelled, by stop() or
\* by Drop, ends (repeated_task.rs:71).
CancelEndsTheTask == cancelled ~> task \in Ended

\* The same of a loop that sleeps between its calls, however the delays of its
\* first and its later turns differ and whoever cancels it: the loop looks at
\* the token only while it sleeps (repeated_task.rs:119-127).
CancelEndsASleeper == interval > 0 /\ cancelled ~> task \in Ended

\* The function is called again and again: a loop that is not asked to stop and
\* whose runtime is there comes to call it, from every point of its turn
\* (repeated_task.rs:117-132).
KeepsCalling ==
    task \in Live ~> cancelled \/ ~runtimeUp \/ task \in {"call"} \cup Ended

\* Every call of start() and stop() that got the lock gives it back and returns;
\* only a stop() of a loop that never sleeps may wait for ever
\* (repeated_task.rs:104-165).
CallsReturn ==
    \A c \in Callers :
        pc[c] # "idle" ~> \/ pc[c] = "idle"
                          \/ interval = 0 /\ pc[c] = "stop_join"

\* A start() is rejected with "Repeated task {} is already started" only if the
\* task is started (error.rs:33-34).
RejectedOnlyIfStarted ==
    [][\A c \in Callers :
          pc[c] = "start_check" /\ pc'[c] = "idle" => started]_vars

----------------------------------------------------------------------------
(* The abstract life cycle.                                                *)

Phase ==
    CASE task = "unspawned" -> "new"
      [] task \in Live /\ ~cancelled -> "running"
      [] task \in Live /\ cancelled -> "stopping"
      [] task \in Ended -> "ended"

Owner ==
    IF handle THEN "object"
    ELSE IF \E c \in Callers : pc[c] = "stop_join" THEN "stopper"
    ELSE IF cancelled THEN "gone"
    ELSE "nobody"

Abstract == INSTANCE OneShotTask WITH phase <- Phase, owner <- Owner

\* Every behaviour is one of the abstract life cycle: one launch, at most one
\* request to stop, and an outcome with one owner at a time.
ImplementsOneShotTask == Abstract!Spec
=============================================================================
