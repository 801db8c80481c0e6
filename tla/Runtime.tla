------------------------------ MODULE Runtime ------------------------------
(***************************************************************************)
(* src/src/runtime.rs and metrics.rs: one Runtime, from build() to the     *)
(* exit of the blocker thread that owns the tokio runtime behind it.       *)
(*                                                                         *)
(* Whoever holds a clone gives the runtime tasks (spawn) and functions     *)
(* (spawn_blocking), waits for them (block_on) and lets go of the clone;   *)
(* a job may hold one, too.  The last clone to go sends the oneshot that   *)
(* the blocker thread waits for, and that thread then drops the tokio      *)
(* runtime and waits for its threads.                                      *)
(*                                                                         *)
(* What is behind the tokio Handle is no code of this repository: its      *)
(* threads are modelled as far as the Runtime, its users and the four      *)
(* thread hooks can see them.  A worker is a thread of the blocking pool   *)
(* that runs the scheduler first and functions after it.                   *)
(*                                                                         *)
(* An operator named X_... just before X is a plausible slip in the code   *)
(* of X; no specification uses it.  It shows which property notices it.    *)
(***************************************************************************)
EXTENDS Naturals, FiniteSets

CONSTANTS
    Users,      \* threads and futures outside the runtime
    Tasks,      \* futures given to spawn()
    Functions,  \* functions given to spawn_blocking()
    Workers,    \* worker_threads()
    Extra,      \* max_blocking_threads()
    Nobody      \* the owner of a detached job, the work of an idle thread

ASSUME JobsAssumption ==
    /\ Tasks \cap Functions = {}
    /\ Users \cap (Tasks \cup Functions) = {}
    /\ Workers \cap Extra = {}
    /\ Nobody \notin Users \cup Tasks \cup Functions

\* tokio rejects worker_threads(0) with a panic, before there is a Runtime.
ASSUME ThreadsAssumption ==
    /\ IsFiniteSet(Workers) /\ Workers # {}
    /\ IsFiniteSet(Extra)

Jobs == Tasks \cup Functions
Threads == Workers \cup Extra

VARIABLES
    holders,   \* who holds a clone of the Runtime
    signal     \* the Dropper has sent its oneshot

VARIABLES
    blocker,   \* the blocker thread, see Closed and Down
    thread,    \* where each thread of the tokio runtime is
    work,      \* the job it polls or runs
    job,       \* how far each job is
    handleOf,  \* who keeps the JoinHandle of a job
    blocked,   \* the jobs whose JoinHandle is in a block_on()
    alive,     \* METRIC_RUNTIME_THREADS_ALIVE
    idle       \* METRIC_RUNTIME_THREADS_IDLE

clones == <<holders, signal>>
joins == <<handleOf, blocked>>
gauges == <<alive, idle>>
vars == <<clones, blocker, thread, work, job, joins, gauges>>

----------------------------------------------------------------------------

Scheduling == {"launched", "searching", "parked", "polling"}
Pooled == {"none", "launched", "busy", "running", "notified", "idle"}
Ended == {"done", "cancelled"}

TypeOK ==
    /\ holders \subseteq Users \cup Jobs
    /\ signal \in BOOLEAN
    /\ blocker \in {"none", "waiting", "dropping", "exited",
                    "refused", "returned"}
    /\ thread \in [Threads -> Scheduling \cup Pooled]
    /\ work \in [Threads -> Jobs \cup {Nobody}]
    /\ job \in [Jobs -> {"new", "queued", "running", "waiting"} \cup Ended]
    /\ handleOf \in [Jobs -> Users \cup Functions \cup {Nobody}]
    /\ blocked \subseteq Jobs
    /\ alive \in 0 .. Cardinality(Threads)
    /\ idle \in 0 .. Cardinality(Workers)

Init ==
    /\ holders = {}
    /\ signal = FALSE
    /\ blocker = "none"
    /\ thread = [th \in Threads |-> "none"]
    /\ work = [th \in Threads |-> Nobody]
    /\ job = [j \in Jobs |-> "new"]
    /\ handleOf = [j \in Jobs |-> Nobody]
    /\ blocked = {}
    /\ alive = 0
    /\ idle = 0

\* The tokio runtime is being dropped, by the blocker thread or, if that could
\* not be started, inside build() by whoever called it.
Closed == blocker \in {"dropping", "refused"}

\* It is gone: its threads have ended.
Down == blocker \in {"exited", "returned"}

AllThreadsEnded == \A th \in Threads : thread[th] = "none"

\* The first worker to leave the scheduler closes its list of tasks.
SchedulerStopped ==
    blocker # "none" /\ \E w \in Workers : thread[w] \notin Scheduling

Queued(S) == {j \in S : job[j] = "queued"}

\* These holders lose their clones; if none is left the Dropper is dropped.
LetGo_AnySends(S) ==
    /\ holders' = holders \ S
    /\ signal' = (signal \/ holders \cap S # {})

LetGo_NeverSends(S) ==
    /\ holders' = holders \ S
    /\ UNCHANGED signal

LetGo(S) ==
    /\ holders' = holders \ S
    /\ signal' = (signal \/ (holders \cap S # {} /\ holders' = {}))

----------------------------------------------------------------------------
(* Builder::build()                                                        *)

Launch == thread' = [th \in Threads |->
                        IF th \in Workers THEN "launched" ELSE "none"]

Build(u) ==
    /\ blocker = "none"
    /\ blocker' = "waiting"
    /\ Launch
    /\ holders' = {u}
    /\ UNCHANGED <<signal, work, job, joins, gauges>>

\* The system refuses the blocker thread.  Its closure is dropped, with the
\* tokio runtime and the receiver, and nobody looks at the io::Error.
BuildRefused ==
    /\ blocker = "none"
    /\ blocker' = "refused"
    /\ Launch
    /\ UNCHANGED <<clones, work, job, joins, gauges>>

\* The drop waits for the workers, and then build() returns Ok(Runtime).
BuildReturns(u) ==
    /\ blocker = "refused"
    /\ AllThreadsEnded
    /\ blocker' = "returned"
    /\ holders' = {u}
    /\ UNCHANGED <<signal, thread, work, job, joins, gauges>>

----------------------------------------------------------------------------
(* What a holder does: a user, a task in its poll or a running function    *)

CanAct(a) ==
    /\ a \in holders
    /\ a \in Jobs => job[a] = "running"
    /\ \A j \in blocked : handleOf[j] # a

Clone(a) ==
    /\ CanAct(a)
    /\ \E u \in Users : holders' = holders \cup {u}
    /\ UNCHANGED <<signal, blocker, thread, work, job, joins, gauges>>

Drop(a) ==
    /\ CanAct(a)
    /\ LetGo({a})
    /\ UNCHANGED <<blocker, thread, work, job, joins, gauges>>

\* The JoinHandle is kept for a block_on(), or not.  A task may only await it.
KeepHandle(a, j) ==
    \E h \in {a, Nobody} \ Tasks : handleOf' = [handleOf EXCEPT ![j] = h]

\* The job may take a clone along.
Accepted(a, j) ==
    /\ CanAct(a)
    /\ job[j] = "new"
    /\ job' = [job EXCEPT ![j] = "queued"]
    /\ holders' \in {holders, holders \cup {j}}
    /\ KeepHandle(a, j)
    /\ UNCHANGED <<signal, blocker, work, blocked, gauges>>

\* The job is dropped at once, with its clone; the JoinHandle says cancelled.
Rejected(a, j) ==
    /\ CanAct(a)
    /\ job[j] = "new"
    /\ job' = [job EXCEPT ![j] = "cancelled"]
    /\ KeepHandle(a, j)
    /\ UNCHANGED <<clones, blocker, thread, work, blocked, gauges>>

Spawn(a, t) ==
    IF SchedulerStopped THEN Rejected(a, t)
    ELSE Accepted(a, t) /\ UNCHANGED thread

\* An idle thread of the pool is notified.  Without one a new thread is
\* launched, and if there are as many as may be the function waits.
Recruit_OnlyIdle ==
    IF \E th \in Threads : thread[th] = "idle"
    THEN \E th \in Threads :
            /\ thread[th] = "idle"
            /\ thread' = [thread EXCEPT ![th] = "notified"]
    ELSE UNCHANGED thread

Recruit ==
    IF \E th \in Threads : thread[th] = "idle"
    THEN \E th \in Threads :
            /\ thread[th] = "idle"
            /\ thread' = [thread EXCEPT ![th] = "notified"]
    ELSE IF \E th \in Threads : thread[th] = "none"
    THEN \E th \in Threads :
            /\ thread[th] = "none"
            /\ thread' = [thread EXCEPT ![th] = "launched"]
    ELSE UNCHANGED thread

SpawnBlocking(a, f) ==
    IF Closed \/ Down THEN Rejected(a, f) ELSE Accepted(a, f) /\ Recruit

\* block_on() of a JoinHandle.  A thread that polls a task may not block_on().
BlockOn(a, j) ==
    /\ CanAct(a)
    /\ handleOf[j] = a
    /\ blocked' = blocked \cup {j}
    /\ UNCHANGED <<clones, blocker, thread, work, job, handleOf, gauges>>

BlockOnReturns(j) ==
    /\ j \in blocked
    /\ job[j] \in Ended
    /\ blocked' = blocked \ {j}
    /\ handleOf' = [handleOf EXCEPT ![j] = Nobody]
    /\ UNCHANGED <<clones, blocker, thread, work, job, gauges>>

----------------------------------------------------------------------------
(* The threads, with the hooks that keep the gauges                        *)

Moves(th, from, to) ==
    thread[th] = from /\ thread' = [thread EXCEPT ![th] = to]

\* on_thread_start.
ThreadStarts(th) ==
    /\ Moves(th, "launched", IF th \in Workers THEN "searching" ELSE "busy")
    /\ alive' = alive + 1
    /\ UNCHANGED <<clones, blocker, work, job, joins, idle>>

\* on_thread_park.  A worker that parks just as the runtime closes is woken by
\* the close, as if it had parked before.
Park(w) ==
    /\ ~Closed
    /\ Queued(Tasks) = {}
    /\ Moves(w, "searching", "parked")
    /\ idle' = idle + 1
    /\ UNCHANGED <<clones, blocker, work, job, joins, alive>>

Unpark_WrongGauge(w) ==
    /\ Moves(w, "parked", "searching")
    /\ alive' = alive - 1
    /\ UNCHANGED <<clones, blocker, work, job, joins, idle>>

\* on_thread_unpark, for a task, for the close or for nothing.
Unpark(w) ==
    /\ Moves(w, "parked", "searching")
    /\ idle' = idle - 1
    /\ UNCHANGED <<clones, blocker, work, job, joins, alive>>

TakeTask(w, t) ==
    /\ job[t] = "queued"
    /\ Moves(w, "searching", "polling")
    /\ work' = [work EXCEPT ![w] = t]
    /\ job' = [job EXCEPT ![t] = "running"]
    /\ UNCHANGED <<clones, blocker, joins, gauges>>

\* A job is over, and lets go of its clone.
Finishes(th, from, to, outcome) ==
    /\ Moves(th, from, to)
    /\ job' = [job EXCEPT ![work[th]] = outcome]
    /\ work' = [work EXCEPT ![th] = Nobody]
    /\ LetGo({work[th]})
    /\ UNCHANGED <<blocker, joins, gauges>>

\* Ready, or a panic, which the JoinHandle reports.
PollReady(w) == Finishes(w, "polling", "searching", "done")

\* Pending.  A task that was cancelled during its poll is dropped after it.
PollPending(w) ==
    IF SchedulerStopped
    THEN Finishes(w, "polling", "searching", "cancelled")
    ELSE /\ Moves(w, "polling", "searching")
         /\ job' = [job EXCEPT ![work[w]] = "waiting"]
         /\ work' = [work EXCEPT ![w] = Nobody]
         /\ UNCHANGED <<clones, blocker, joins, gauges>>

TaskWakes(t) ==
    /\ job[t] = "waiting"
    /\ job' = [job EXCEPT ![t] = "queued"]
    /\ UNCHANGED <<clones, blocker, thread, work, joins, gauges>>

Cancel(S) ==
    /\ job' = [j \in Jobs |-> IF j \in S THEN "cancelled" ELSE job[j]]
    /\ LetGo(S)

\* A worker sees that the runtime is closed.  The first one cancels every task
\* that is not being polled.
WorkerStops(w) ==
    /\ Closed
    /\ Moves(w, "searching", "busy")
    /\ Cancel({t \in Tasks : job[t] \in {"queued", "waiting"}})
    /\ UNCHANGED <<blocker, work, joins, gauges>>

\* A busy thread empties the queue, even of a runtime that is closed.
TakeFunction(th, f) ==
    /\ job[f] = "queued"
    /\ Moves(th, "busy", "running")
    /\ work' = [work EXCEPT ![th] = f]
    /\ job' = [job EXCEPT ![f] = "running"]
    /\ UNCHANGED <<clones, blocker, joins, gauges>>

FunctionReturns(th) ==
    /\ \A j \in blocked : handleOf[j] # work[th]
    /\ Finishes(th, "running", "busy", "done")

\* The wait for the next function has no hook.
Rest(th) ==
    /\ ~Closed
    /\ Queued(Functions) = {}
    /\ Moves(th, "busy", "idle")
    /\ UNCHANGED <<clones, blocker, work, job, joins, gauges>>

Notified(th) ==
    /\ ~Closed
    /\ Moves(th, "notified", "busy")
    /\ UNCHANGED <<clones, blocker, work, job, joins, gauges>>

\* on_thread_stop, after thread_keep_alive().
KeepAliveEnds(th) ==
    /\ ~Closed
    /\ Moves(th, "idle", "none")
    /\ alive' = alive - 1
    /\ UNCHANGED <<clones, blocker, work, job, joins, idle>>

\* on_thread_stop, at the close.  A thread that was not busy drops the queue.
ThreadStops(th) ==
    /\ Closed
    /\ \/ Queued(Functions) = {} /\ Moves(th, "busy", "none")
       \/ Moves(th, "idle", "none")
       \/ Moves(th, "notified", "none")
    /\ Cancel(Queued(Functions))
    /\ alive' = alive - 1
    /\ UNCHANGED <<blocker, work, joins, idle>>

----------------------------------------------------------------------------
(* The blocker thread                                                      *)

\* block_on(recv_stop) returns and the closure drops the tokio runtime.
BlockerWakes ==
    /\ signal
    /\ blocker = "waiting"
    /\ blocker' = "dropping"
    /\ UNCHANGED <<clones, thread, work, job, joins, gauges>>

BlockerExits_NoWait ==
    /\ blocker = "dropping"
    /\ blocker' = "exited"
    /\ UNCHANGED <<clones, thread, work, job, joins, gauges>>

\* The drop waits for every thread, however long its function runs.
BlockerExits ==
    /\ blocker = "dropping"
    /\ AllThreadsEnded
    /\ blocker' = "exited"
    /\ UNCHANGED <<clones, thread, work, job, joins, gauges>>

----------------------------------------------------------------------------

Building == BuildRefused \/ \E u \in Users : Build(u) \/ BuildReturns(u)

Holding(a) ==
    \/ Clone(a) \/ Drop(a)
    \/ \E t \in Tasks : Spawn(a, t)
    \/ \E f \in Functions : SpawnBlocking(a, f)
    \/ a \notin Tasks /\ \E j \in Jobs : BlockOn(a, j)

Scheduler(w) ==
    \/ Park(w) \/ Unpark(w)
    \/ \E t \in Tasks : TakeTask(w, t)
    \/ PollReady(w) \/ PollPending(w) \/ WorkerStops(w)

Pool(th) ==
    \/ ThreadStarts(th)
    \/ \E f \in Functions : TakeFunction(th, f)
    \/ FunctionReturns(th) \/ Rest(th) \/ Notified(th)
    \/ KeepAliveEnds(th) \/ ThreadStops(th)

Next ==
    \/ Building
    \/ \E a \in Users \cup Jobs : Holding(a)
    \/ \E j \in Jobs : BlockOnReturns(j)
    \/ \E t \in Tasks : TaskWakes(t)
    \/ \E w \in Workers : Scheduler(w)
    \/ \E th \in Threads : Pool(th)
    \/ BlockerWakes \/ BlockerExits

Spec == Init /\ [][Next]_vars

(***************************************************************************)
(* The system runs its threads.  tokio unparks a worker when there is      *)
(* something to do, takes queued tasks in the order they come, and looks   *)
(* at the close between any two tasks.  A poll and a function return       *)
(* unless they block_on() something.  A task that waits may wait for ever, *)
(* and nobody has to let go of a clone.                                    *)
(***************************************************************************)
FairSpec ==
    /\ Spec
    /\ \A th \in Threads :
          /\ WF_vars(ThreadStarts(th))
          /\ WF_vars(\E f \in Functions : TakeFunction(th, f))
          /\ WF_vars(FunctionReturns(th))
          /\ WF_vars(Notified(th))
          /\ WF_vars(ThreadStops(th))
    /\ \A w \in Workers :
          /\ WF_vars((Closed \/ Queued(Tasks) # {}) /\ Unpark(w))
          /\ WF_vars(PollReady(w) \/ PollPending(w))
          /\ SF_vars(WorkerStops(w))
    /\ \A t \in Tasks : SF_vars(\E w \in Workers : TakeTask(w, t))
    /\ \A j \in Jobs : WF_vars(BlockOnReturns(j))
    /\ WF_vars(BlockerWakes)
    /\ WF_vars(BlockerExits \/ \E u \in Users : BuildReturns(u))

----------------------------------------------------------------------------

\* No job is given up while anybody, a job that captured a clone included, still
\* holds the Runtime, unless the blocker thread could not be started
\* (runtime.rs:46-51 and 158-171).
NothingCancelledWhileOwned ==
    blocker # "returned" /\ (\E j \in Jobs : job[j] = "cancelled")
        => holders = {}

\* When the runtime is down nothing of it is left: every job that was given to
\* it is done or cancelled, no worker or pooled thread runs, and the gauges are
\* back at zero, whatever the order in which threads parked, stopped or timed
\* out (runtime.rs:161 and 184-214).
DownIsClean ==
    Down => /\ \A j \in Jobs : job[j] \in {"new"} \cup Ended
            /\ AllThreadsEnded
            /\ alive = 0 /\ idle = 0

\* A job stays in its queue for ever only if it is a function and every thread
\* of the pool waits, for ever, in a block_on() of its own
\* (runtime.rs:61-82 and 119-122).
Stuck(f) ==
    /\ f \in Functions
    /\ \A th \in Extra :
          /\ thread[th] = "running"
          /\ \E j \in blocked : handleOf[j] = work[th]

QueuedIsTaken ==
    \A j \in Jobs : <>[](job[j] = "queued") => <>[]Stuck(j)

\* "Spawn a future and execute it in this thread pool": a job given to a Runtime
\* that somebody still holds is executed (runtime.rs:58).
SpawnedIsExecuted ==
    (\E j \in Jobs : job[j] = "cancelled") => holders = {}

----------------------------------------------------------------------------
(* The abstract pool                                                       *)

Phase ==
    IF Down THEN "down"
    ELSE IF blocker = "waiting" THEN "up"
    ELSE IF blocker = "dropping" THEN "closing"
    ELSE "unbuilt"

Progress == [j \in Jobs |->
    IF job[j] \in {"queued", "running", "waiting"} THEN "accepted"
    ELSE IF job[j] = "cancelled" THEN "dropped"
    ELSE job[j]]

Abstract == INSTANCE OwnedPool
    WITH Clients <- Users, phase <- Phase, owners <- holders, job <- Progress

\* Every behaviour is one of the abstract pool, and the pool goes down once
\* nobody holds it, even if the last clone goes away on a thread of its own
\* (runtime.rs:46-51 and 161).
ImplementsFairOwnedPool == Abstract!FairSpec

\* The same without fairness: what a step of the Runtime may do to it.
ImplementsOwnedPool == Abstract!Spec
=============================================================================
