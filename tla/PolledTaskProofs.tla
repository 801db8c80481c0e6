-------------------------- MODULE PolledTaskProofs --------------------------
(***************************************************************************)
(* What the shared stretches of poll() preserve, for any set of tasks.     *)
(* The lemmas are about single steps: the proofs of each throttling mode   *)
(* cite them for the steps that mode is made of.                           *)
(***************************************************************************)
EXTENDS PolledTask, TLAPS

(***************************************************************************)
(* NoLostWakeup alone is not inductive: it also takes that a Sleep exists  *)
(* exactly in State::Backoff, that it knows a waker whenever poll() has    *)
(* returned, and that a task waits in "gate", "first_poll" or "inner" only *)
(* with the state poll() has made sure of on the way there.                *)
(***************************************************************************)
TaskPlaces(t) ==
    /\ state[t] = "common" <=> sleep[t] = "none"
    /\ pc[t] \in {"gate", "inner"} => state[t] = "common"
    /\ pc[t] = "first_poll" => state[t] = "backoff" /\ sleep[t] # "armed"
    /\ pc[t] \in {"parked", "entered"} => sleep[t] # "running"
    /\ inner[t] = "done" => pc[t] \in Finishing \cup {"done"}

TaskInv ==
    /\ TaskTypeOK
    /\ NoLostWakeup
    /\ \A t \in Tasks : TaskPlaces(t)

\* The steps of poll() that every mode has in common.
PollStep(t) ==
    \/ Resume(t) \/ FirstPoll(t)
    \/ StartBackoff(t) \/ PassGate(t)
    \/ InnerPending(t)
    \/ \E to \in Finishing \cup {"done"} : InnerReady(t, to)

\* A PendingFuture starts out with nothing set and a poll due.
LEMMA TaskInvInit == TaskInit => TaskInv
  BY DEF TaskInit, TaskInv, TaskTypeOK, NoLostWakeup, TaskPlaces, InPoll,
         Finishing, Over

\* tokio, timers and events preserve the invariant in any order.
LEMMA SurroundingsPreserve ==
  ASSUME TaskInv, NEW t \in Tasks, Surroundings(t)
  PROVE  TaskInv'
<1> USE DEF TaskInv, TaskTypeOK, NoLostWakeup, TaskPlaces, InPoll, Finishing,
            Over, Goto
<1>1. CASE PollBegin(t)
  BY <1>1 DEF PollBegin
<1>2. CASE TimerFires(t)
  \* A parked task's Sleep knows its waker: the task is woken.
  <2>1. pc[t] = "parked" => sleep[t] = "armed"
    BY <1>2 DEF TimerFires
  <2> QED
    BY <1>2, <2>1 DEF TimerFires
<1>3. CASE InnerEvent(t)
  BY <1>3 DEF InnerEvent
<1>4. CASE StaleWake(t)
  BY <1>4 DEF StaleWake
<1> QED
  BY <1>1, <1>2, <1>3, <1>4 DEF Surroundings

\* So does every step of poll() (mode_count.rs:175-183, 238-251, 255-301).
LEMMA PollPreserves ==
  ASSUME TaskInv, NEW t \in Tasks, PollStep(t)
  PROVE  TaskInv'
<1> USE DEF TaskInv, TaskTypeOK, NoLostWakeup, TaskPlaces, InPoll, Finishing,
            Over, Goto
<1>1. CASE Resume(t)
  <2>1. CASE EnterCommon(t)
    BY <2>1 DEF EnterCommon
  <2>2. CASE LeaveBackoff(t)
    BY <2>2 DEF LeaveBackoff
  <2>3. CASE StillBackedOff(t)
    BY <2>3 DEF StillBackedOff
  <2> QED
    BY <1>1, <2>1, <2>2, <2>3 DEF Resume
<1>2. CASE FirstPoll(t)
  <2>1. CASE FirstPollPending(t)
    BY <2>1 DEF FirstPollPending
  <2>2. CASE FirstPollReady(t)
    BY <2>2 DEF FirstPollReady
  <2> QED
    BY <1>2, <2>1, <2>2 DEF FirstPoll
<1>3. CASE StartBackoff(t)
  BY <1>3 DEF StartBackoff
<1>4. CASE PassGate(t)
  BY <1>4 DEF PassGate
<1>5. CASE InnerPending(t)
  BY <1>5 DEF InnerPending
<1>6. ASSUME NEW to \in Finishing \cup {"done"}, InnerReady(t, to)
      PROVE  TaskInv'
  BY <1>6 DEF InnerReady
<1> QED
  BY <1>1, <1>2, <1>3, <1>4, <1>5, <1>6 DEF PollStep

\* And what happens once the wrapped future is done, or has no more polls.
LEMMA FinishPreserves ==
  ASSUME TaskInv, NEW t \in Tasks,
         NEW from \in InPoll \cup Finishing, NEW to \in Finishing \cup Over,
         from \in InPoll => to = "panicked" /\ inner[t] # "done",
         from \in Finishing => to # "panicked",
         Goto(t, from, to), UNCHANGED <<notified, state, sleep, inner>>
  PROVE  TaskInv'
  BY DEF TaskInv, TaskTypeOK, NoLostWakeup, TaskPlaces, InPoll, Finishing,
         Over, Goto

\* No wrapped future is polled before its backoff is over.
LEMMA NoPollLemma == TaskInv => NoPollDuringBackoff
  BY DEF TaskInv, TaskPlaces, NoPollDuringBackoff

----------------------------------------------------------------------------
(***************************************************************************)
(* Each of those steps is a step of ThrottledFuture or changes nothing in  *)
(* it.                                                                     *)
(***************************************************************************)

LEMMA ThrottledInit == TaskInit => Throttled!Init
  BY DEF TaskInit, Throttled!Init, Gate

\* Outside poll() only the event of a wrapped future shows.
LEMMA SurroundingsAbstract ==
  ASSUME TaskInv, NEW t \in Tasks, Surroundings(t)
  PROVE  [Throttled!Next]_(Throttled!vars)
<1>1. CASE InnerEvent(t)
  <2>1. Throttled!Event(t)
    BY <1>1 DEF InnerEvent, Throttled!Event, Gate
  <2> QED
    BY <2>1 DEF Throttled!Next
<1>2. CASE PollBegin(t) \/ TimerFires(t) \/ StaleWake(t)
  BY <1>2 DEF PollBegin, TimerFires, StaleWake, Throttled!vars, Gate
<1> QED
  BY <1>1, <1>2 DEF Surroundings

\* A backoff closes the gate and its end opens it; the wrapped future is
\* polled in between.
LEMMA PollAbstract ==
  ASSUME TaskInv, NEW t \in Tasks, PollStep(t)
  PROVE  [Throttled!Next]_(Throttled!vars)
<1> USE DEF TaskInv, TaskTypeOK, TaskPlaces, Finishing, Goto, Gate
<1>1. CASE EnterCommon(t) \/ StillBackedOff(t) \/ PassGate(t) \/ FirstPollPending(t)
  BY <1>1 DEF EnterCommon, StillBackedOff, PassGate, FirstPollPending, Throttled!vars
<1>2. CASE LeaveBackoff(t) \/ FirstPollReady(t)
  <2>1. state[t] = "backoff" /\ state' = [state EXCEPT ![t] = "common"] /\ inner' = inner
    BY <1>2 DEF LeaveBackoff, FirstPollReady
  <2>2. Throttled!Open(t)
    BY <2>1 DEF Throttled!Open
  <2> QED
    BY <2>2 DEF Throttled!Next
<1>3. CASE StartBackoff(t)
  <2>1. Throttled!Close(t)
    BY <1>3 DEF StartBackoff, Throttled!Close
  <2> QED
    BY <2>1 DEF Throttled!Next
<1>4. CASE InnerPending(t)
  <2>1. Throttled!Poll(t)
    BY <1>4 DEF InnerPending, Throttled!Poll
  <2> QED
    BY <2>1 DEF Throttled!Next
<1>5. ASSUME NEW to \in Finishing \cup {"done"}, InnerReady(t, to)
      PROVE  [Throttled!Next]_(Throttled!vars)
  <2>1. Throttled!Poll(t)
    BY <1>5 DEF InnerReady, Throttled!Poll
  <2> QED
    BY <2>1 DEF Throttled!Next
<1> QED
  BY <1>1, <1>2, <1>3, <1>4, <1>5 DEF PollStep, Resume, FirstPoll
=============================================================================
