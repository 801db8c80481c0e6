----------------------------- MODULE PendingRate -----------------------------
(***************************************************************************)
(* src/src/pending_future/mode_ratelimiter.rs with its runtime_handle.rs:  *)
(* every poll of a wrapped future takes a token from the bucket its handle *)
(* shares with all clones; without one the task sleeps until the bucket is *)
(* due for a refill, and tries again.                                      *)
(*                                                                         *)
(* The bucket is the ratelimit crate's: it refills itself, inside          *)
(* try_wait(), for every interval that has passed, up to max_tokens, and   *)
(* starts empty.  Time is the Tick at which the next refill is due.  What  *)
(* nothing reads is left out: the stop flag, the sender and the counters   *)
(* of the handle, and pend_cnt.  Operators named X_... are slips, as in    *)
(* PolledTask.                                                             *)
(***************************************************************************)
EXTENDS PolledTask, FiniteSets

CONSTANTS
    Priorities,  \* the priorities a handle is made with
    Amount,      \* tokens per interval
    MaxTokens    \* max_tokens()

ASSUME RateAssumption ==
    /\ Priorities \subseteq {"VeryLow", "Low", "Middle", "High", "VeryHigh"}
    /\ Amount \in Nat \ {0}
    /\ MaxTokens \in Nat \ {0}

VARIABLES
    priority,   \* of the handle, which all tasks share
    tokens,     \* tokens in the bucket
    due,        \* intervals that passed since the last refill
    waited,     \* tasks whose Sleep has lasted as long as it was told to
    polls,      \* history: polls of limited futures since the last Tick
    late        \* history: tasks that had a token at the last Tick and had not
                \* polled their future with it

bucket == <<tokens, due>>
history == <<polls, late>>
vars == <<taskVars, priority, bucket, waited, history>>

RateTypeOK ==
    /\ TaskTypeOK
    /\ priority \in Priorities
    /\ tokens \in 0..MaxTokens
    /\ due \in 0..MaxTokens
    /\ waited \subseteq Tasks
    /\ polls \in Nat
    /\ late \subseteq Tasks

Init ==
    /\ TaskInit
    /\ priority \in Priorities
    /\ tokens = 0
    /\ due = 0
    /\ waited = {}
    /\ polls = 0
    /\ late = {}

\* RateLimiterRuntimeHandle::new(): VeryHigh has no Ratelimiter.
Limited == priority # "VeryHigh"

Others == <<priority, bucket, waited, history>>

Capped(n, bound) == IF n <= bound THEN n ELSE bound

\* The tasks between try_wait() and the poll that it let pass.
Admitted == {t \in Tasks : pc[t] = "inner"}

----------------------------------------------------------------------------
(* The ratelimit crate and time                                            *)

\* An interval ends.  It is what every Sleep set before it was waiting for.
Tick ==
    /\ Limited
    /\ due' = Capped(due + 1, MaxTokens)
    /\ waited' = {t \in Tasks : sleep[t] \in {"running", "armed"}}
    /\ polls' = 0
    /\ late' = Admitted
    /\ UNCHANGED <<taskVars, priority, tokens>>

\* The timer never fires before its deadline.
SleepFires(t) ==
    /\ t \in waited
    /\ TimerFires(t)
    /\ waited' = waited \ {t}
    /\ UNCHANGED <<priority, bucket, history>>

\* What try_wait() finds in the bucket once it has refilled it.
Refilled == Capped(tokens + due * Amount, MaxTokens)

----------------------------------------------------------------------------
(* poll()                                                                  *)

TakeToken_Unchecked(t) ==
    /\ Limited
    /\ PassGate(t)
    /\ tokens' = Refilled - 1
    /\ due' = 0
    /\ UNCHANGED <<priority, waited, history>>

\* try_wait() is Ok: a token is taken.
TakeToken(t) ==
    /\ Limited
    /\ Refilled > 0
    /\ PassGate(t)
    /\ tokens' = Refilled - 1
    /\ due' = 0
    /\ UNCHANGED <<priority, waited, history>>

NoToken_Ignored(t) ==
    /\ Limited
    /\ Refilled = 0
    /\ PassGate(t)
    /\ UNCHANGED Others

\* try_wait() is Err(wait): the task sleeps until the next Tick.
NoToken(t) ==
    /\ Limited
    /\ Refilled = 0
    /\ StartBackoff(t)
    /\ UNCHANGED Others

Unlimited(t) ==
    /\ ~Limited
    /\ PassGate(t)
    /\ UNCHANGED Others

\* InnerReady is the end: this mode keeps no record.
Polled(t) ==
    /\ InnerPending(t) \/ InnerReady(t, "done")
    /\ polls' = IF Limited THEN polls + 1 ELSE polls
    /\ UNCHANGED <<priority, bucket, waited, late>>

\* The rest of poll() goes on by itself once the task is woken.
GoesOn(t) ==
    \/ (PollBegin(t) \/ Resume(t) \/ FirstPoll(t)) /\ UNCHANGED Others
    \/ TakeToken(t) \/ NoToken(t) \/ Unlimited(t)
    \/ Polled(t)

Next ==
    \/ \E t \in Tasks :
          \/ GoesOn(t)
          \/ SleepFires(t)
          \/ (InnerEvent(t) \/ StaleWake(t)) /\ UNCHANGED Others
    \/ Tick

Spec == Init /\ [][Next]_vars

\* The same assumptions on tokio as in PendingCount; time passes.
FairSpec ==
    /\ Spec
    /\ \A t \in Tasks : WF_vars(GoesOn(t)) /\ WF_vars(SleepFires(t))
    /\ WF_vars(Tick)

----------------------------------------------------------------------------

\* However many tasks share the bucket, their futures are polled at most
\* max_tokens times in one interval, and once more for each task that had its
\* token before the interval began and came to its poll only then
\* (mode_ratelimiter.rs:102-119, runtime_handle.rs:109-151).
PollsAreBounded == polls <= MaxTokens + Cardinality(late)

\* "10ms produces 100, that is, only 100 polls are allowed within 10ms": what is
\* polled in an interval is what the interval produces (runtime_handle.rs:112).
OnlyWhatIsProduced == polls <= Amount + Cardinality(late)

\* Nothing is fair to one task, but it can only be starved by others: a future
\* with something to do is polled again unless the other tasks of its handle
\* are polled for ever (mode_ratelimiter.rs:88-119).
StarvedOnlyByOthers ==
    \A t \in Tasks :
        \/ inner[t] \in {"new", "fired"} ~> pc[t] = "inner"
        \/ []<>(\E u \in Tasks \ {t} : pc[u] = "inner")
=============================================================================
