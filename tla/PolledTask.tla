----------------------------- MODULE PolledTask -----------------------------
(***************************************************************************)
(* What the three PendingFutures of src/src/pending_future/ share: the     *)
(* tokio task that polls one, the backoff Sleep it may hold, the future    *)
(* inside it, and the stretches of poll() they have in common.             *)
(*                                                                         *)
(* poll() runs on a worker thread while timers fire, and events wake the   *)
(* task, on others, so it is cut into steps.  A wake-up during a poll is   *)
(* kept in `notified', and the task is polled again.                       *)
(*                                                                         *)
(* An operator named X_... just before X is a plausible slip in the code   *)
(* of X; no specification uses it.  It shows which property notices it.    *)
(***************************************************************************)
EXTENDS Naturals

CONSTANT Tasks          \* the tasks, one PendingFuture each

VARIABLES
    pc,        \* where in poll() the task is
    notified,  \* the task was woken since its last poll began
    state,     \* PendingFuture::state: "common" or "backoff"
    sleep,     \* the Sleep inside State::Backoff
    inner      \* the wrapped future

taskVars == <<pc, notified, state, sleep, inner>>

----------------------------------------------------------------------------

(***************************************************************************)
(* "gate" is the throttle's decision, "first_poll" the first poll of a new *)
(* Sleep, "inner" the poll of the wrapped future.  A "running" Sleep knows *)
(* no waker yet; an "armed" one will wake the task.  A mode may have more  *)
(* to do once the wrapped future is Ready: that is Finishing.              *)
(***************************************************************************)
InPoll    == {"entered", "gate", "first_poll", "inner"}
Finishing == {"look_up", "push", "insert"}
Over      == {"done", "panicked"}

TaskTypeOK ==
    /\ pc \in [Tasks -> {"parked"} \cup InPoll \cup Finishing \cup Over]
    /\ notified \in [Tasks -> BOOLEAN]
    /\ state \in [Tasks -> {"common", "backoff"}]
    /\ sleep \in [Tasks -> {"none", "running", "armed", "elapsed"}]
    /\ inner \in [Tasks -> {"new", "waiting", "fired", "done"}]

\* A spawned task is due for its first poll.
TaskInit ==
    /\ pc = [t \in Tasks |-> "parked"]
    /\ notified = [t \in Tasks |-> TRUE]
    /\ state = [t \in Tasks |-> "common"]
    /\ sleep = [t \in Tasks |-> "none"]
    /\ inner = [t \in Tasks |-> "new"]

Goto(t, from, to) == pc[t] = from /\ pc' = [pc EXCEPT ![t] = to]

----------------------------------------------------------------------------
(* The tokio runtime and the world around the task.                        *)

\* A worker picks the woken task up and calls poll().
PollBegin(t) ==
    /\ notified[t]
    /\ Goto(t, "parked", "entered")
    /\ notified' = [notified EXCEPT ![t] = FALSE]
    /\ UNCHANGED <<state, sleep, inner>>

\* The timer driver completes the Sleep and wakes the waker it knows.
TimerFires(t) ==
    /\ sleep[t] \in {"running", "armed"}
    /\ sleep' = [sleep EXCEPT ![t] = "elapsed"]
    /\ notified' = [notified EXCEPT ![t] = @ \/ sleep[t] = "armed"]
    /\ UNCHANGED <<pc, state, inner>>

\* The event the wrapped future waits for happens and wakes the task.
InnerEvent(t) ==
    /\ inner[t] = "waiting"
    /\ inner' = [inner EXCEPT ![t] = "fired"]
    /\ notified' = [notified EXCEPT ![t] = TRUE]
    /\ UNCHANGED <<pc, state, sleep>>

\* A waker left behind by an earlier poll wakes the task for nothing.
StaleWake(t) ==
    /\ pc[t] \notin Over
    /\ notified' = [notified EXCEPT ![t] = TRUE]
    /\ UNCHANGED <<pc, state, sleep, inner>>

----------------------------------------------------------------------------
(* The stretches of poll() that are the same in every mode.                *)

EnterCommon(t) ==
    /\ state[t] = "common"
    /\ Goto(t, "entered", "gate")
    /\ UNCHANGED <<notified, state, sleep, inner>>

\* The Sleep is over: back to State::Common, and on with the same poll().
LeaveBackoff(t) ==
    /\ state[t] = "backoff"
    /\ sleep[t] = "elapsed"
    /\ Goto(t, "entered", "gate")
    /\ state' = [state EXCEPT ![t] = "common"]
    /\ sleep' = [sleep EXCEPT ![t] = "none"]
    /\ UNCHANGED <<notified, inner>>

StillBackedOff_FallsThrough(t) ==
    /\ state[t] = "backoff"
    /\ sleep[t] \in {"running", "armed"}
    /\ Goto(t, "entered", "gate")
    /\ sleep' = [sleep EXCEPT ![t] = "armed"]
    /\ UNCHANGED <<notified, state, inner>>

\* Woken too early: the Sleep takes the waker again and poll() is Pending.
StillBackedOff(t) ==
    /\ state[t] = "backoff"
    /\ sleep[t] \in {"running", "armed"}
    /\ Goto(t, "entered", "parked")
    /\ sleep' = [sleep EXCEPT ![t] = "armed"]
    /\ UNCHANGED <<notified, state, inner>>

StartBackoff_NotPolled(t) ==
    /\ Goto(t, "gate", "parked")
    /\ state' = [state EXCEPT ![t] = "backoff"]
    /\ sleep' = [sleep EXCEPT ![t] = "running"]
    /\ UNCHANGED <<notified, inner>>

\* State::Backoff(tokio::time::sleep(..)).
StartBackoff(t) ==
    /\ Goto(t, "gate", "first_poll")
    /\ state' = [state EXCEPT ![t] = "backoff"]
    /\ sleep' = [sleep EXCEPT ![t] = "running"]
    /\ UNCHANGED <<notified, inner>>

PassGate(t) ==
    /\ Goto(t, "gate", "inner")
    /\ UNCHANGED <<notified, state, sleep, inner>>

\* The first poll of the new Sleep hands it the waker.
FirstPollPending(t) ==
    /\ sleep[t] = "running"
    /\ Goto(t, "first_poll", "parked")
    /\ sleep' = [sleep EXCEPT ![t] = "armed"]
    /\ UNCHANGED <<notified, state, inner>>

FirstPollReady_NoWake(t) ==
    /\ sleep[t] = "elapsed"
    /\ Goto(t, "first_poll", "parked")
    /\ state' = [state EXCEPT ![t] = "common"]
    /\ sleep' = [sleep EXCEPT ![t] = "none"]
    /\ UNCHANGED <<notified, inner>>

\* It was over before its first poll: nobody else will wake the task, so
\* poll() wakes it itself before it returns Pending.
FirstPollReady(t) ==
    /\ sleep[t] = "elapsed"
    /\ Goto(t, "first_poll", "parked")
    /\ state' = [state EXCEPT ![t] = "common"]
    /\ sleep' = [sleep EXCEPT ![t] = "none"]
    /\ notified' = [notified EXCEPT ![t] = TRUE]
    /\ UNCHANGED inner

\* The wrapped future is Pending, its waker registered for an event.  One that
\* wakes itself before it returns, like yield_now(), has its event at once.
InnerPending(t) ==
    /\ Goto(t, "inner", "parked")
    /\ inner' = [inner EXCEPT ![t] = "waiting"]
    /\ UNCHANGED <<notified, state, sleep>>

\* It is Ready; `to' is what poll() does next.
InnerReady(t, to) ==
    /\ inner[t] \in {"new", "fired"}
    /\ Goto(t, "inner", to)
    /\ inner' = [inner EXCEPT ![t] = "done"]
    /\ UNCHANGED <<notified, state, sleep>>

Surroundings(t) ==
    PollBegin(t) \/ TimerFires(t) \/ InnerEvent(t) \/ StaleWake(t)

Resume(t) == EnterCommon(t) \/ LeaveBackoff(t) \/ StillBackedOff(t)

FirstPoll(t) == FirstPollPending(t) \/ FirstPollReady(t)

----------------------------------------------------------------------------
(* What every mode owes its task.                                          *)

\* A parked task is never forgotten: it has been woken, or its Sleep holds its
\* waker, or, with no backoff, its future waits for an event that will wake it
\* (mode_count.rs:175-183, 244-251 and the like).
NoLostWakeup ==
    \A t \in Tasks : pc[t] = "parked" =>
        \/ notified[t]
        \/ state[t] = "backoff" /\ sleep[t] = "armed"
        \/ state[t] = "common" /\ inner[t] = "waiting"

\* However often stale wakers and the future's own events wake the task, the
\* wrapped future is not polled before the backoff is over
\* (mode_count.rs:177-182 and the like).
NoPollDuringBackoff ==
    \A t \in Tasks : pc[t] \in {"gate", "inner"} =>
        state[t] = "common" /\ sleep[t] = "none"

Gate ==
    [t \in Tasks |-> IF state[t] = "backoff" THEN "closed" ELSE "open"]

Throttled == INSTANCE ThrottledFuture WITH gate <- Gate

\* The throttle is transparent but for the time it takes.
ImplementsThrottledFuture == Throttled!Spec

\* And no wake-up of the wrapped future is lost to it.
ImplementsFairThrottledFuture == Throttled!FairSpec
=============================================================================
