---------------------------- MODULE PendingCount ----------------------------
(***************************************************************************)
(* src/src/pending_future/mode_count.rs: after every fourth Pending of the *)
(* wrapped future a backoff Sleep is inserted, longer for lower            *)
(* priorities; the completion of a future is recorded in a global history  *)
(* of its type.                                                            *)
(*                                                                         *)
(* The Sleep's length (fixed_interval_count() plus a random part) and the  *)
(* times that a record holds are left out: a timer fires some time after   *)
(* it was set, and a record is the task that completed.  All tasks wrap    *)
(* futures of one type F.  Operators named X_... are slips, as in          *)
(* PolledTask.                                                             *)
(***************************************************************************)
EXTENDS PolledTask, Sequences

CONSTANTS
    Priorities,  \* the priorities handles are made with
    Builds,      \* TRUE stands for a build that panics on overflow
    MaxCnt,      \* the largest value of the u32 pend_cnt
    MaxRecords   \* how many records a type keeps (10 in the code)

inter == 5           \* one poll in `inter' is a backoff

\* u32::MAX is a multiple of inter, and so is the small MaxCnt TLC is given.
ASSUME CountAssumption ==
    /\ Priorities \subseteq {"VeryLow", "Low", "Middle", "High", "VeryHigh"}
    /\ MaxCnt \in Nat \ {0}
    /\ MaxCnt % inter = 0
    /\ Builds \subseteq BOOLEAN
    /\ MaxRecords \in Nat \ {0}

VARIABLES
    overflowChecks,  \* the build: it never changes
    priority,        \* the handle's priority
    pendCnt,         \* PendingFuture::pend_cnt
    polls,           \* history: Pendings of the future since its last backoff
    records,         \* the deque of EACH_FUTURE_RECORD for this type, which is
                     \* never empty: <<>> says that the type has no entry
    written          \* history: the completions in the order they were recorded

given == <<overflowChecks, priority>>

vars == <<taskVars, given, pendCnt, polls, records, written>>

PollsBound == inter  \* `polls' counts no further

----------------------------------------------------------------------------

CountTypeOK ==
    /\ TaskTypeOK
    /\ overflowChecks \in Builds
    /\ priority \in [Tasks -> Priorities]
    /\ pendCnt \in [Tasks -> 0..MaxCnt]
    /\ polls \in [Tasks -> 0..PollsBound]
    /\ records \in Seq(Tasks)
    /\ written \in Seq(Tasks)

\* PendingFuture::new(), with any handle.
Init ==
    /\ TaskInit
    /\ overflowChecks \in Builds
    /\ priority \in [Tasks -> Priorities]
    /\ pendCnt = [t \in Tasks |-> 0]
    /\ polls = [t \in Tasks |-> 0]
    /\ records = <<>>
    /\ written = <<>>

\* fixed_interval_count().is_some()
HasInterval(t) == priority[t] # "VeryHigh"

NextCnt_Wide(t) == pendCnt[t] + 1

\* pend_cnt + 1, in a build that wraps.
NextCnt(t) == IF pendCnt[t] = MaxCnt THEN 0 ELSE pendCnt[t] + 1

Overflows(t) == overflowChecks /\ pendCnt[t] = MaxCnt

\* (pend_cnt + 1) % inter == 0, and the priority has an interval.
BackoffDue(t) == NextCnt(t) % inter = 0 /\ HasInterval(t)

----------------------------------------------------------------------------
(* poll()                                                                  *)

\* "attempt to add with overflow", where the build checks for it.
CountPanics(t) ==
    /\ Overflows(t)
    /\ Goto(t, "gate", "panicked")
    /\ UNCHANGED <<notified, state, sleep, inner, given, pendCnt, polls,
                   records, written>>

InsertBackoff_NotCounted(t) ==
    /\ ~Overflows(t)
    /\ BackoffDue(t)
    /\ StartBackoff(t)
    /\ polls' = [polls EXCEPT ![t] = 0]
    /\ UNCHANGED <<given, pendCnt, records, written>>

InsertBackoff(t) ==
    /\ ~Overflows(t)
    /\ BackoffDue(t)
    /\ StartBackoff(t)
    /\ pendCnt' = [pendCnt EXCEPT ![t] = NextCnt(t)]
    /\ polls' = [polls EXCEPT ![t] = 0]
    /\ UNCHANGED <<given, records, written>>

NoBackoff(t) ==
    /\ ~Overflows(t)
    /\ ~BackoffDue(t)
    /\ PassGate(t)
    /\ UNCHANGED <<given, pendCnt, polls, records, written>>

CountPending_NotCounted(t) ==
    /\ InnerPending(t)
    /\ polls' = [polls EXCEPT ![t] = IF @ < PollsBound THEN @ + 1 ELSE @]
    /\ UNCHANGED <<given, pendCnt, records, written>>

CountPending(t) ==
    /\ InnerPending(t)
    /\ pendCnt' = [pendCnt EXCEPT ![t] = NextCnt(t)]
    /\ polls' = [polls EXCEPT ![t] = IF @ < PollsBound THEN @ + 1 ELSE @]
    /\ UNCHANGED <<given, records, written>>

CountReady(t) ==
    /\ InnerReady(t, "look_up")
    /\ UNCHANGED <<given, pendCnt, polls, records, written>>

----------------------------------------------------------------------------
(* The completion record                                                   *)

Recording(t, from, to) ==
    /\ Goto(t, from, to)
    /\ UNCHANGED <<notified, state, sleep, inner, given, pendCnt, polls>>

\* A task that found the entry keeps the read lock until it has pushed.
NoReaders == \A t \in Tasks : pc[t] # "push"

LookUp(t) ==
    /\ Recording(t, "look_up", IF records = <<>> THEN "insert" ELSE "push")
    /\ UNCHANGED <<records, written>>

PushRecord_DropsNewest(t) ==
    /\ Recording(t, "push", "done")
    /\ records' = IF Len(records) < MaxRecords THEN Append(records, t) ELSE records
    /\ written' = Append(written, t)

\* push_back, and pop_front once the deque is longer than MaxRecords.
PushRecord(t) ==
    /\ Recording(t, "push", "done")
    /\ LET longer == Append(records, t)
       IN  records' = IF Len(longer) > MaxRecords THEN Tail(longer) ELSE longer
    /\ written' = Append(written, t)

\* The read lock was given up in between: an entry that is there by now is
\* replaced, with all that was recorded in it.
InsertRecord(t) ==
    /\ NoReaders
    /\ Recording(t, "insert", "done")
    /\ records' = <<t>>
    /\ written' = Append(written, t)

----------------------------------------------------------------------------

Gated(t) == CountPanics(t) \/ InsertBackoff(t) \/ NoBackoff(t)

Polled(t) == CountPending(t) \/ CountReady(t)

Record(t) == LookUp(t) \/ PushRecord(t) \/ InsertRecord(t)

Common(t) ==
    /\ Surroundings(t) \/ Resume(t) \/ FirstPoll(t)
    /\ UNCHANGED <<given, pendCnt, polls, records, written>>

Next == \E t \in Tasks : Common(t) \/ Gated(t) \/ Polled(t) \/ Record(t)

Spec == Init /\ [][Next]_vars

(***************************************************************************)
(* tokio polls a task that was woken, a poll() that began goes on (the     *)
(* wrapped future returns from its poll) and timers fire.  An event may    *)
(* never happen, and nobody owes the task a stale wake-up.                 *)
(***************************************************************************)
Others == <<given, pendCnt, polls, records, written>>

GoesOn(t) ==
    \/ (PollBegin(t) \/ Resume(t) \/ FirstPoll(t)) /\ UNCHANGED Others
    \/ Gated(t) \/ Polled(t) \/ Record(t)

FairSpec ==
    /\ Spec
    /\ \A t \in Tasks : /\ WF_vars(GoesOn(t))
                        /\ WF_vars(TimerFires(t) /\ UNCHANGED Others)

----------------------------------------------------------------------------
(* Properties                                                              *)

\* The wrapped future is Pending at most inter - 1 times between two backoffs,
\* even when the u32 counter wraps (mode_count.rs:186-198, 229, 298).
AtMostFourPendings ==
    \A t \in Tasks : HasInterval(t) => polls[t] < inter

\* A backoff is inserted only after exactly inter - 1 Pendings; the one
\* exception is the poll at which the counter wraps, in a build that lets it
\* wrap (mode_count.rs:195-229).
BackoffsAreSpaced ==
    [][\A t \in Tasks :
          state[t] = "common" /\ state'[t] = "backoff"
          => \/ polls[t] = inter - 1
             \/ pendCnt[t] = MaxCnt /\ ~overflowChecks]_vars

\* No wake-up of a wrapped future is lost to the throttle, however often it backs
\* off, unless the counter panicked (mode_count.rs:166-303).
FairUnlessPanicked ==
    \A t \in Tasks : <>(pc[t] = "panicked") \/ Throttled!Fairness(t)

\* r is the latest part of w.
IsLatest(r, w) ==
    /\ Len(r) <= Len(w)
    /\ \A i \in 1..Len(r) : r[i] = w[Len(w) - Len(r) + i]

\* The history of a type is always its most recent completions, in order and
\* without a gap, and never more than MaxRecords of them, although first
\* completions race to insert the entry (mode_count.rs:263-293).
HistoryIsRecent ==
    /\ Len(records) <= MaxRecords
    /\ IsLatest(records, written)
=============================================================================
