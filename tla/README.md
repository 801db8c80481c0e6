# rs-run in TLA+

`rs-run` is a small Rust crate around tokio: runtimes with a name and a
priority, a set of process-wide runtimes, futures that are throttled according
to their priority, and functions that are repeated in the background. This
directory models it in TLA+, checks the models with TLC on small instances and
proves the main results with TLAPS for all instances. All paths below are paths
in this repository; `src/src/` is the crate.

## 1. The system

### Components

| Component | Code | State | Operations |
|---|---|---|---|
| RepeatedTask | `repeated_task.rs`, `error.rs` | `inner: Mutex<{task_fn, task_handle}>`, the `AtomicBool` `started`, a `CancellationToken`, interval and initial delay; the spawned loop | `new`, `with_initial_delay`, `start`, `stop`, `started`, `Drop`; the loop's turn |
| PendingFuture, count mode | `pending_future/mode_count.rs` | `state` (Common or Backoff with its Sleep), `pend_cnt: u32`, poll and schedule times; the global `EACH_FUTURE_RECORD` | `new`, `poll` |
| PendingFuture, time mode | `pending_future/mode_time.rs` | `state`, `adding_up_time`, two counters for tests | `new`, `poll` |
| PendingFuture, rate-limiter mode | `pending_future/mode_ratelimiter.rs`, `runtime_handle.rs` | `state`, `pend_cnt`; the handle's `Ratelimiter`, stop flag, sender and counters, shared by all clones | `new`, `poll`; `RateLimiterRuntimeHandle::new`, `Drop` |
| Global runtimes | `global.rs` | `GLOBAL_RUNTIMES` (Lazy), `CONFIG_RUNTIMES` (Mutex), `START` (Once) | `init_global_runtimes`, four runtime accessors and their spawn functions |
| Runtime, Builder, Dropper | `runtime.rs` | `RUNTIME_ID`, the tokio `Handle`, an `Arc<Dropper>` with the sender of a oneshot; a blocker thread that owns the tokio runtime | `Builder::build`, `clone`, `drop`, `spawn`, `spawn_blocking`, `block_on` |
| Metrics | `metrics.rs`, `runtime.rs:184-214` | the gauges of alive and idle threads | four thread hooks |
| Priority | `priority.rs` | none | the backoff interval of a priority in two modes |
| Error | `error.rs` | none | the failures of the above |

`tests.rs` (load tests that print measurements), the `.bak` drafts (not
compiled), `lib.rs` and `mod.rs` (re-exports) and the plotting script under
`scripts/` have no behaviour to model.

### How they interact

* Callers share a RepeatedTask through an `Arc`. `start()` spawns the loop on a
  `Runtime`; the callers and the loop then share only the token. `stop()`
  cancels the token under the lock and awaits the `JoinHandle` without it.
* A `Runtime` is a handle. The tokio runtime lives on a blocker thread, which
  waits for a oneshot; dropping the last clone sends it, and the tokio runtime is
  dropped there, with every task at its next await.
* tokio's scheduler polls a PendingFuture, which polls the future it wraps or a
  Sleep. Wake-ups come from the timer driver, from the wrapped future's events
  and from wakers that earlier polls left behind.
* All count-mode futures of one type share one history behind a `RwLock`. All
  rate-limited futures of one handle share one token bucket.
* `init_global_runtimes` and the accessors meet in the lock of
  `CONFIG_RUNTIMES`, each inside its own once-primitive.

### What is hard, and what makes each part correct

* **RepeatedTask**: `start`, `stop`, `started` and `Drop` race; the flag is read
  without the lock; `stop()` can be dropped half-way; the loop looks at its token
  only while it sleeps; the function may panic and the runtime may go away; it may
  hold a clone of the runtime it runs on, or stop its own task. It is
  correct if the function is spawned at most once, nobody waits for a handle that
  another waits for, the flag never announces a task that `stop()` cannot find, no
  live task is left that nobody can stop, and a task that was told to end ends.
* **PendingFuture**: a wake-up may come in every step of `poll()`, early, late or
  for nothing, and a Sleep may be over before its first poll. A mode is correct
  if the throttle costs the wrapped future time and nothing else: no wake-up is
  lost, no poll happens during a backoff, and backoffs come at the pace of the mode.
  The counter of the count mode wraps. The history of completions is looked up
  under one lock and inserted under another. The bucket of the rate-limiter mode
  is contended.
* **Global runtimes**: three primitives that can each be poisoned, entered in
  different orders by different threads. They are correct if a configuration that
  completed is the one in use, the four runtimes are never a mixture, and only a
  runtime that could not be made breaks the accessors.
* **Runtime**: the end of a runtime is asynchronous and is waited for on a thread
  of its own, so that the last clone may go away anywhere, also inside a job of the
  runtime; the blocker thread may not start; functions that wait for others hold up
  the queue, and functions that never return hold up the end. It is correct if it is
  up while anybody holds it, gives nothing up before that, goes down after, and
  leaves neither a job nor a thread, nor a gauge that counts one.

`PROJECT.json` lists the hazards one by one, each at its line with the properties
that watch it, or with the reason why none does.

## 2. The modules

```
OneShotTask  <- implemented by -  RepeatedTask
                                    RepeatedTaskProps    properties, refinement mapping
                                      RepeatedTaskProofs
                                      MCRepeatedTask
                                      RepeatedOnRuntime  composed with its Runtime
                                        RepeatedOnRuntimeProofs
                                        MCRepeatedOnRuntime

OwnedPool    <- implemented by -  Runtime                with the gauges
                                    RuntimeProofs
                                    MCRuntime
             <- implemented by -  RepeatedOnRuntime

ThrottledFuture  <- implemented by -  PolledTask           what the modes share
                                        PolledTaskProofs
                                        PendingCount
                                          PendingCountProofs
                                          MCPendingCount
                                        PendingTime
                                          PendingTimeProofs
                                          MCPendingTime
                                        PendingRate
                                          PendingRateProofs
                                          MCPendingRate

GlobalRuntimes
  GlobalRuntimesProofs
  MCGlobalRuntimes
```

An operator named `X_...` that stands just before an operator `X` is a plausible
slip in the code of `X`. No specification uses it. `PROJECT.json` says which
property of which run notices it when it takes the place of `X`.

### OneShotTask

The promise of a RepeatedTask, without locks, tokens or loops. A task is
launched at most once, is asked to stop at most once, and ends. Its outcome has
one owner at a time: the object, the stopper that waits for it, or, after a stop
was given up or the object dropped, nobody. With fairness, a task that was asked
to stop ends.

### RepeatedTask

`Callers` hold references and call `start()` and `stop()`; the last to let go
runs `Drop` (`Release`). Both functions are cut at every store that another
thread can read:

| Code | Actions |
|---|---|
| `start`, lines 104-142 | `StartLock`, `StartRejected`, `StartSpawn`, `StartHandle`, `StartFlag` |
| `stop`, lines 144-165 | `StopLock`, `StopNothing`, `StopCancel`, `StopFlag`, `StopTake`, `StopJoined`, and `StopGivenUp` for a future that is dropped at its await |
| the loop, lines 117-132 | `LoopTop`, `SleepElapses`, `SeesCancel`, `CallReturns`, `CallPanics` |
| `Drop`, lines 67-75 | `Release` |
| the runtime's end (`runtime.rs:40-51`) | `RuntimeShutdown`, `Aborted` |

`started()` is one atomic load; an invariant about the variable `started` speaks of
every value it can return. Atomics are sequentially consistent in the model. The
code stores the flag with `Relaxed`, so a thread that holds neither the lock nor
an ordering of its own may see a later or an earlier value of the flag than the
model shows; every other decision in the code is made under the lock.

Durations are 0 or positive: that is all the loop distinguishes (line 120).

### ThrottledFuture and PolledTask

`ThrottledFuture` is what wrapping promises: the wrapped future moves because
its event happened or because it was polled, and it is polled only while the gate
is open. With fairness, a closed gate opens again and a future that has something
to do is polled.

`PolledTask` is the part of `poll()` that is the same in all three modes, cut
where wake-ups from other threads can come in between:

| `pc` | where `poll()` is |
|---|---|
| `parked` | not in `poll()` |
| `entered` | at the match on `state` (`EnterCommon`, `LeaveBackoff`, `StillBackedOff`) |
| `gate` | at the throttle's decision (each mode's own) |
| `first_poll` | at the first poll of a new Sleep (`FirstPollPending`, `FirstPollReady`) |
| `inner` | at the poll of the wrapped future (`InnerPending`, `InnerReady`) |

A Sleep is `running` until its first poll, then `armed` with the task's waker,
then `elapsed`; only an armed one wakes the task. `notified` is tokio's flag: a
wake-up during a poll leads to another poll. `TimerFires`, `InnerEvent` and
`StaleWake` are the surroundings.

`PendingCount` adds the counter, which wraps or panics as the build decides
(`overflowChecks`, one of `Builds`, never changes), and the completion history
with its two locks (`LookUp`, `PushRecord`, `InsertRecord`). `polls` and `written`
are history variables. `PendingTime` adds the account `adding_up_time`, and the
history variable `spent`, the time of all polls modulo the threshold.
`PendingRate` adds the bucket, which refills itself inside `try_wait()`; `Tick`
ends an interval. A Sleep that was set before a Tick may fire after it and not
before. A task takes its token in one step and polls its future in a later one, so
a Tick can come in between: the history variables are `polls`, the polls since the
last Tick, and `late`, the tasks that were between token and poll at that Tick.

### GlobalRuntimes

`START`, `GLOBAL_RUNTIMES` and `CONFIG_RUNTIMES` become `once`, `lazy` and the
lock `mutex` with its flag `poisoned`. `init_global_runtimes` (lines 151-173) is
cut at its lock, its assert and each of its four `create_runtime` calls, and so
is the closure of the Lazy (lines 132-141). Every `create_runtime` may panic; the
panic poisons exactly what the thread is inside of. What a thread does while it
waits for a running Once or Lazy, or for the lock, is not to take a step.

### OwnedPool

The promise of a Runtime to those who hold one, without threads, queues or
signals: up while anybody holds a clone, a job that runs on it included; no job is
given up before the last clone is gone; down only when no job is left. With
fairness it goes down once nobody holds it. `OpenBroken` is the Runtime
that `build()` returns when the blocker thread was refused.

### Runtime

| Code | Actions |
|---|---|
| `build`, `runtime.rs:143-173` | `Build`; `BuildRefused` and `BuildReturns` where the thread of line 159 is refused |
| `Clone`, `Drop`, lines 32-51 | `Clone`, `Drop`, and `LetGo` for every way in which a holder loses its clone |
| `spawn`, `spawn_blocking`, `block_on`, lines 58-82 | `Spawn`, `SpawnBlocking`, `BlockOn`, `BlockOnReturns` |
| the hooks, lines 184-214 | `ThreadStarts`, `ThreadStops`, `KeepAliveEnds`, `Park`, `Unpark` |
| the blocker thread, lines 157-161 | `BlockerWakes`, `BlockerExits` |
| tokio's threads (external) | `TakeTask`, `PollReady`, `PollPending`, `TaskWakes`, `WorkerStops`, `TakeFunction`, `FunctionReturns`, `Rest`, `Notified` |

A holder is a user outside, a task in its poll or a running function; a job takes
a clone along or not, and drops it when it is over. `handleOf` says who can
still `block_on()` a job. What is behind the tokio `Handle` is not in this
repository. It is modelled as far as the Runtime, its users and the hooks
see it: workers are threads of the blocking pool that run the scheduler first;
closing lets the poll in progress finish, cancels the tasks that wait, and drops
the functions that no busy thread has taken; the drop waits for every thread.

### RepeatedOnRuntime

It extends RepeatedTask by the clones of the runtime the task is started on. Its steps
are those of RepeatedTask and `BuildRuntime`, `CloneRuntime`, `DropRuntime`,
`Closes` and `GoesDown`; of the Runtime it keeps what OwnedPool promises, which
`runtime` shows of the code. `start()` consumes a clone (`RStart`); the task function
is the caller `Fn`: it may have captured a clone and a reference to the object, and
acts only while the loop calls it (`Acts`). A call comes back only after a `start()` or
`stop()` it made (`RLoop`), and a task that ends drops its function with what that
captured (`FunctionDropped`). `Closes` replaces the event `RuntimeShutdown`, which
RepeatedTask alone lets happen at any time.

## 3. The runs

Every property stands in its module with a comment that states it and names the
lines it is about.

| Run | Instance | What it shows |
|---|---|---|
| `repeated_task` | three callers, intervals 0 and 2, delays none, 0 and 1 | All the safety properties of RepeatedTask hold in every interleaving, and it refines OneShotTask; a cancelled task that sleeps ends, the loop keeps calling, and every call returns. |
| `repeated_task_zero` (violation) | two callers, interval 0 | `CancelEndsTheTask` fails. |
| `repeated_task_rejected` (violation) | two callers | `RejectedOnlyIfStarted` fails. |
| `repeated_on_runtime` | two callers and the function, intervals 0 and 2, delays none and 0 | Only a function that awaits the stop of its own task hangs, a forgotten runtime goes down although its task holds a clone, and the task is to its runtime a job of OwnedPool. |
| `runtime` | one user, a task, two functions, two workers, one extra thread | Nothing is given up while it is owned, nothing is left once it is down, a queued job is taken unless the pool is full of functions in `block_on()`, and the fair OwnedPool is refined. |
| `runtime_refused` (violation) | the same | `SpawnedIsExecuted` fails. |
| `pending_count` | two futures, `MaxCnt` 10, a history of one, a build that wraps and one that panics | No wake-up is lost, no poll during a backoff, backoffs spaced but where the counter wraps, the history is the latest completion although two race to insert it, ThrottledFuture is refined, with fairness unless a counter panics. |
| `pending_time` | one future, polls of 0, 3, 10, 11 or 24 | One backoff pays everything that is due, what it leaves is all the time spent modulo the threshold, and ThrottledFuture is refined with fairness. |
| `pending_rate` | two futures, a bucket of two, one token per interval | The bucket is never overdrawn, the polls of an interval exceed its size only by those that come late with their token, only the polls of others can starve a future, and ThrottledFuture is refined. |
| `pending_rate_burst` (violation) | the same, limited | `OnlyWhatIsProduced` fails. |
| `global_runtimes` | three threads | The configuration that completed is used, nothing is mixed, only a failed runtime breaks the accessors, and every call returns. |
| `global_runtimes_twice` (violation) | three threads | `SecondInitPanics` fails. |

Deadlock is checked in `global_runtimes`, where a thread can always call
something. The other systems may stop: all callers let go of a RepeatedTask, all
futures complete, a runtime is down and every job is over. What must not stop there
is said by the liveness properties.

### The bounds, and why they are enough

* **Callers and threads.** `repeated_task` needs three: a `stop()` that waits, a
  second that comes in between, and a `start()` or the `Drop` that races with
  both. `repeated_on_runtime` needs three: the function that stops its task, a
  caller that stops it at the same time, and one that lets go of its clone. `global_runtimes` needs three: one in the Once, one in the Lazy and one
  that waits. The theorems hold for any number.
* **`MaxCnt` = 10** for the 2^32 - 1 of a `u32`. Both are multiples of `inter`, so
  the counter goes wrong at the same place, and there is room for a second backoff
  before it, also in the build that panics there. `CountAssumption` states what
  the code's number has in common with it, and the theorems hold for every such
  number.
* **`PollsBound` = 5** caps the history variable `polls` one above what
  the theorem `FourPendings` allows.
* **Jobs and threads of `runtime`.** One user is enough, because jobs hold clones,
  spawn and wait as well. Two workers: one leaves the scheduler while the other
  still polls. One extra thread, so that one function fills the pool
  and a second, which the first waits for, finds it full.
* **`MaxRecords` = 1** for the 10 of the code, so that two completions overflow the
  history. A future completes once, so `written` is bounded by the number of
  futures. The theorem has any length and any number of futures.
* **Futures.** They meet only in the history and in the bucket. Two can race for
  the first entry and for a token. `pending_time` has nothing shared, and needs one.
* **`TimeBound` = 34**: at most `inter` is unpaid when a poll begins, and the
  longest poll takes 24, so the cap is never what decides (`TimeAssumption`) for
  a priority that is throttled.
* **`Amount` and `MaxTokens`** are 1 and 2: a bucket can be empty, partly full and
  full. `due` counts no further than `MaxTokens` intervals, which fill any bucket.

### Fairness

* *RepeatedTask.* A caller inside `start()` or `stop()` goes on, the loop runs,
  its timer fires and `task_fn.call()` comes back (weak fairness). `select!`
  polls its branches in random order, so a token that is ready again and again
  is seen (strong fairness on `SeesCancel`). Nothing makes a caller call, a
  `stop()` be given up or a runtime shut down.
* *PendingFuture.* tokio polls a woken task, a poll that began goes on, and
  timers fire (weak fairness). An event may never happen, and no stale wake-up is
  owed. In the rate-limiter mode time passes (`Tick`).
* *Runtime.* The system runs its threads (weak fairness). tokio looks at the close
  between any two tasks and takes queued tasks in turn, so a worker that comes by
  again and again does both (strong fairness on `WorkerStops` and `TakeTask`). A
  poll and a function return unless they `block_on()` something. A task that waits
  may wait for ever, and nobody has to let go of a clone.
* *RepeatedOnRuntime.* As in the two. A call of the function that does not wait for
  itself comes back. A task on a closed runtime is dropped where it sleeps, or
  where it waits for itself.
* *GlobalRuntimes.* A thread inside one of the closures runs on (weak fairness).
  That `create_runtime()` returns or panics is part of it.

## 4. What is proved

The proofs hold for all values of the constants that satisfy the module's named
`ASSUME`: any finite or infinite set of callers, tasks or threads, any intervals,
any counter width that is a multiple of five.

* **RepeatedTaskProofs.** The inductive invariant is `TypeOK` with `MutexInv` (a
  caller in the critical section is the owner of the lock), `StartInv` and
  `StopInv` (what a caller has already done at each of its steps: the function is
  gone, the handle is not there yet or still there) and `LifeInv` (which
  combinations of function, handle, token and task there are). Without it
  `StartedHasHandle` is not inductive: nothing would say that the stop between
  its two stores is the only one that can see the handle. From it follow the
  five safety invariants, the three action properties, and `Refinement`: each
  step is a step of OneShotTask or changes neither its phase nor its owner.
  `StaleAfterCrash` takes `StaleInv` besides: a loop that returned was cancelled,
  and the flag of a cancelled task is up only while a `stop()` is about to lower it.
  `StopsWait` says that the one await of the object is outside the lock and for a
  cancelled task.
* **RepeatedOnRuntimeProofs.** `IsRepeatedTask` says that the composition is a
  RepeatedTask in each of its steps, so that every theorem about `Spec` holds
  of `RSpec`; `NoOrphanOnRuntime` is stated as the one that matters most here.
  `PoolInv` adds that only a runtime that is up has owners, that only one that
  closed drops its tasks, and that none is down while a task lives. With it
  `PoolRefinement` shows that the task and the clones implement OwnedPool.
* **PolledTaskProofs.** `TaskInv` ties `pc`, `state` and `sleep`: the state is
  Backoff exactly while a Sleep is there, and a task beyond the match on its
  state has none. Each step of the shared part preserves it and maps to a step of
  ThrottledFuture; the lemmas are stated for a step of one task, so that a mode
  only has to say what it adds.
* **PendingCountProofs.** `CountInv` says that a throttled task's Pendings since
  its last backoff are the counter modulo five. It needs the lemma that counting
  up commutes with the modulus, also where the counter wraps, which is where
  `MaxCnt % inter = 0` is used. `FourPendings` and `Spacing` follow.
  `RecentHistory` is an invariant of its own: an insert that replaces another's
  entry leaves the latest completion, a push keeps a suffix a suffix. `Refinement`
  is to ThrottledFuture.
* **PendingTimeProofs.** The division at line 86 of `mode_time.rs` takes whole
  thresholds away, so the account and the time spent agree modulo the threshold
  (`AccountInv`, by the lemmas `Remainder` and `RemainderOfSum`), and what a backoff
  leaves is below it until the future is polled again (`PaidInv`). Together they are
  `TimeKept`: during a backoff the account is the time spent, modulo the threshold.
  `BackoffInv` says that nothing is added while it lasts, `DebtInv` that no poll
  begins in debt, which keeps the account clear of `TimeBound`. That two backoffs
  are never adjacent is `PaidInv` again.
* **PendingRateProofs.** That polls are bounded is not inductive: a token may be
  polled with after the interval in which it was taken. `BucketInv` counts the polls
  of the interval, the tasks that have a token and have not polled yet (`Admitted`)
  and what can still be taken before the next `Tick`; together they fit into the
  bucket and the tasks that were late at the last one. The tasks with a token are
  finitely many, although all tasks need not be. Both modules end with the
  refinement of ThrottledFuture, on the lemmas of PolledTaskProofs.
* **GlobalRuntimesProofs.** `LockInv` says who can hold the lock, and which
  primitives the owner is inside of; `ConfigInv` what the config holds, complete,
  partial under a poisoned lock, or empty; `GlobalsInv` what a thread in the Lazy
  has made so far. The safety properties are its consequences. `Inside` adds
  `NothingAbandoned`: behind a Once or a Lazy that runs is a thread in its closure,
  whichever panic happened where, and the owner of the lock waits for nothing. It is
  what `EveryCallReturns` rests on besides fairness, for any number of threads,
  together with `Bounded`: `StepsLeft`, the steps a thread has left inside its
  closure, is a variant. At most seven, it falls with each step of the thread
  and rises with none of another's, because nobody else empties a slot that the
  thread has filled under the lock (`LeftFilled`).
* **RuntimeProofs.** That nothing is given up while it is owned is a matter of
  order: the last clone, the signal, the drop of the tokio runtime, and only then
  a worker that stops and cancels (`OwnerInv`, `ThreadInv`). That nothing is left
  at the end takes two more facts, which no property states: a running job has a
  thread of its own (`WorkInv`), and once a worker has gone no function is
  queued, and once one has left the scheduler no task waits (`QueueInv`).
  The gauges are the cardinalities of the sets of threads they count (`GaugeInv`);
  this is where the threads have to be finitely many. `ThreadsAssumption` also asks
  for one worker: with none, nobody would cancel the tasks of a closed runtime, and
  tokio refuses such a number with a panic. `Refinement` maps every step to one of
  OwnedPool or to a stutter. `FunctionsServed` is the safety behind `QueuedIsTaken`: a
  queued function has a thread coming for it unless the pool is full. Its invariant
  counts (`ServeInv`: as long as a thread could be recruited, no more functions
  wait than threads come), because a thread takes any of the functions that wait.
  `EndMeetsNoBlockOn` is about the end: the drop of the tokio runtime waits for the
  functions that run, and none of these waits for a job then. `BlockInv` is the
  reason: whoever is in a `block_on()` borrows a clone, so the last one is not gone.

**What TLC alone shows.** Every safety property that a passing run checks,
invariant or action property, is a theorem. What remains is under fairness, and
liveness and ENABLED are beyond the prover: `CancelEndsTheTask`, `CancelEndsASleeper`, `KeepsCalling`,
`CallsReturn`, `OnlyASelfStopHangs`, `ForgottenRuntimeGoesDown`, `QueuedIsTaken`,
`FairUnlessPanicked`, `StarvedOnlyByOthers`, `EveryCallReturns`, and the refinements of the fair
abstract specifications, whose safety parts are proved.

Some theorems have no run of their own, because a run would repeat what the proof
says: `UnwrapSafety`, `SpawnOnce`, `FourPendings`, `ConfigEmptied`, `Inside`,
`Bounded`, `FunctionsServed`, `EndMeetsNoBlockOn`, `StopsWait`, the `WakeupSafety` and the
`BackoffRespected` of the time and the rate-limiter modes.

## 5. Where the code and its words disagree

* **`repeated_task_zero`.** `new()` accepts `Duration::ZERO`. The loop then skips
  the `select!` that looks at the token (`repeated_task.rs:120`), so neither
  `stop()` nor `Drop` ends the task, and `stop()` waits for ever.
* **`repeated_task_rejected`.** `start()` after a `stop()`, or in the middle of
  one, fails with "is already started" (`error.rs:34`) although `started()` is
  false: `stop()` does not give the function back.
* **`runtime_refused`.** `build()` drops the result of spawning the blocker thread
  (`runtime.rs:159`). When the system refuses that thread, the closure is dropped
  with the tokio runtime in it, and `build()` still returns `Ok`: a Runtime that
  cancels every future, although `spawn()` says "execute it in this thread pool"
  (`runtime.rs:58`).
* **`global_runtimes_twice`.** `init_global_runtimes` is documented to panic when
  the globals are initialised; a second call returns silently, because its body
  runs under `Once::call_once` (`global.rs:149-153`).
* **`pending_rate_burst`.** The comments at `runtime_handle.rs:112, 122, 132, 142`
  say of each rate that 100 polls are produced in 10 ms and only 100 are allowed
  within 10 ms. The rates are 800 in 70 ms to 1700 in 10 ms, and the bucket saves
  up to 2000 tokens (`max_tokens`, lines 113, 123, 133, 143), more than any interval
  produces. The run shows tokens saved over two intervals and polled with in one;
  what does hold is `PollsAreBounded`.

Two things look wrong and contradict no word of the repository, so the
properties permit them, each by name: the early backoff at the poll where an
unchecked counter wraps (the exception in `BackoffsAreSpaced`), and the records
that are lost when two first completions of a type race to insert its entry
(`HistoryIsRecent` speaks of what is left).

## 6. What is not modelled, and why

* The lengths of Sleeps, with their random part, and the times in a completion
  record: no decision depends on them but the order of timers, which the models
  leave open. (The average in a record, 0/0 for a future that completes within a
  microsecond, is read by no code.)
* Relaxed memory ordering of `started`; see RepeatedTask above.
* `pend_cnt`, the counters, the sender and the stop flag in the rate-limiter mode,
  and the two counters in the time mode: no compiled code but tests reads them.
* The interval lengths of the priorities: only whether there is one decides
  anything. The setters of the Builder: their values are constants here.
* A `build()` that returns `Err` makes nothing. A thread of tokio's pool
  that the system refuses panics inside tokio. The collector behind
  `tokio_unstable` is not compiled by default. `RUNTIME_ID` only makes names.
* In RepeatedOnRuntime, a Runtime whose blocker thread was refused; `runtime`
  has it.
* The end of the global runtimes: statics are never dropped.
* A panic of the wrapped future inside `poll()`: it ends the task, and no state
  of the throttle outlives it.
* Names, labels, log lines, locations and source chains of errors.

## 7. Plan

Done, in order of importance: RepeatedTask against OneShotTask; the PendingFutures
on the shared PolledTask against ThrottledFuture; GlobalRuntimes; Runtime with its
gauges against OwnedPool; RepeatedTask on its Runtime; proofs for all of them.

Left: a Runtime in RepeatedOnRuntime whose blocker thread was refused.
