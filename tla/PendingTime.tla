----------------------------- MODULE PendingTime -----------------------------
(***************************************************************************)
(* src/src/pending_future/mode_time.rs: the time the wrapped future spends *)
(* in polls adds up, and once it exceeds `inter' it is paid for with a     *)
(* backoff Sleep; what does not fill a whole `inter' is carried over.      *)
(*                                                                         *)
(* The Sleep's length and the counters pend_cnt and inserted_pend_cnt,     *)
(* which only tests read, are left out.  Operators named X_... are slips,  *)
(* as in PolledTask.                                                       *)
(***************************************************************************)
EXTENDS PolledTask

CONSTANTS
    Priorities,  \* the priorities handles are made with
    Elapsed,     \* how long a poll of the wrapped future may take
    TimeBound    \* adding_up_time counts no further

inter == 10

ASSUME TimeAssumption ==
    /\ Priorities \subseteq {"VeryLow", "Low", "Middle", "High", "VeryHigh"}
    /\ Elapsed \subseteq Nat
    /\ TimeBound \in Nat
    /\ \A e \in Elapsed : inter + e <= TimeBound

VARIABLES
    priority,      \* the handle's priority
    addingUpTime,  \* PendingFuture::adding_up_time
    polled,        \* history: the future was Pending since its last backoff
    spent          \* history: the time of all its polls, modulo inter

vars == <<taskVars, priority, addingUpTime, polled, spent>>

TimeTypeOK ==
    /\ TaskTypeOK
    /\ priority \in [Tasks -> Priorities]
    /\ addingUpTime \in [Tasks -> 0..TimeBound]
    /\ polled \in [Tasks -> BOOLEAN]
    /\ spent \in [Tasks -> 0..(inter - 1)]

Init ==
    /\ TaskInit
    /\ priority \in [Tasks -> Priorities]
    /\ addingUpTime = [t \in Tasks |-> 0]
    /\ polled = [t \in Tasks |-> FALSE]
    /\ spent = [t \in Tasks |-> 0]

\* fixed_interval_time_ms().is_some()
HasInterval(t) == priority[t] # "VeryHigh"

Others == <<priority, addingUpTime, polled, spent>>

BackoffDue(t) == HasInterval(t) /\ addingUpTime[t] > inter

InsertBackoff_NotPaid(t) ==
    /\ BackoffDue(t)
    /\ StartBackoff(t)
    /\ polled' = [polled EXCEPT ![t] = FALSE]
    /\ UNCHANGED <<priority, addingUpTime, spent>>

InsertBackoff_RoundsUp(t) ==
    /\ BackoffDue(t)
    /\ StartBackoff(t)
    /\ LET time == (addingUpTime[t] + inter - 1) \div inter
       IN  addingUpTime' = [addingUpTime EXCEPT ![t] = @ - time * inter]
    /\ polled' = [polled EXCEPT ![t] = FALSE]
    /\ UNCHANGED <<priority, spent>>

InsertBackoff_Forgets(t) ==
    /\ BackoffDue(t)
    /\ StartBackoff(t)
    /\ addingUpTime' = [addingUpTime EXCEPT ![t] = 0]
    /\ polled' = [polled EXCEPT ![t] = FALSE]
    /\ UNCHANGED <<priority, spent>>

InsertBackoff(t) ==
    /\ BackoffDue(t)
    /\ StartBackoff(t)
    /\ LET time == addingUpTime[t] \div inter
       IN  addingUpTime' = [addingUpTime EXCEPT ![t] = @ - time * inter]
    /\ polled' = [polled EXCEPT ![t] = FALSE]
    /\ UNCHANGED <<priority, spent>>

NoBackoff(t) ==
    /\ ~BackoffDue(t)
    /\ PassGate(t)
    /\ UNCHANGED Others

Capped(n) == IF n <= TimeBound THEN n ELSE TimeBound

TimedPending(t) ==
    /\ InnerPending(t)
    /\ \E e \in Elapsed :
          /\ addingUpTime' = [addingUpTime EXCEPT ![t] = Capped(@ + e)]
          /\ spent' = [spent EXCEPT ![t] = (@ + e) % inter]
    /\ polled' = [polled EXCEPT ![t] = TRUE]
    /\ UNCHANGED priority

TimedReady(t) ==
    /\ InnerReady(t, "done")
    /\ UNCHANGED Others

Gated(t) == InsertBackoff(t) \/ NoBackoff(t)

Polled(t) == TimedPending(t) \/ TimedReady(t)

Next ==
    \E t \in Tasks :
        \/ (Surroundings(t) \/ Resume(t) \/ FirstPoll(t)) /\ UNCHANGED Others
        \/ Gated(t) \/ Polled(t)

Spec == Init /\ [][Next]_vars

GoesOn(t) ==
    \/ (PollBegin(t) \/ Resume(t) \/ FirstPoll(t)) /\ UNCHANGED Others
    \/ Gated(t) \/ Polled(t)

\* The same assumptions on tokio as in PendingCount.
FairSpec ==
    /\ Spec
    /\ \A t \in Tasks : /\ WF_vars(GoesOn(t))
                        /\ WF_vars(TimerFires(t) /\ UNCHANGED Others)

----------------------------------------------------------------------------

\* A backoff pays for every whole `inter' of the time that was spent since the
\* future was made, and for nothing twice: what is still on the account while it
\* lasts is that time modulo `inter' (mode_time.rs:83-100 and 113-120).
NoTimeIsLost ==
    \A t \in Tasks : state[t] = "backoff" => addingUpTime[t] = spent[t]

\* Two backoffs never follow each other without a poll of the wrapped future in
\* between: one backoff pays for everything that is due (mode_time.rs:84-100).
OneBackoffPaysAll ==
    [][\A t \in Tasks :
          state[t] = "common" /\ state'[t] = "backoff" => polled[t]]_vars
=============================================================================
