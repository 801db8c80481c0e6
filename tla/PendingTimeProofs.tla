------------------------- MODULE PendingTimeProofs -------------------------
(***************************************************************************)
(* Proofs of the safety properties of PendingTime, for any set of tasks    *)
(* and any times a poll may take.                                          *)
(***************************************************************************)
EXTENDS PendingTime, PolledTaskProofs

(***************************************************************************)
(* That no time is lost takes four facts: no poll of the wrapped future    *)
(* begins in debt, so the bound on the account never cuts anything off;    *)
(* the account and the time spent agree modulo `inter' whatever the        *)
(* division takes away; what it leaves is below `inter'; and nothing is    *)
(* added before the backoff is over.                                       *)
(***************************************************************************)
DebtInv ==
    \A t \in Tasks : HasInterval(t) /\ pc[t] = "inner" => addingUpTime[t] <= inter

AccountInv == \A t \in Tasks : HasInterval(t) => addingUpTime[t] % inter = spent[t]

PaidInv == \A t \in Tasks : ~polled[t] => addingUpTime[t] < inter

BackoffInv == \A t \in Tasks : state[t] = "backoff" => HasInterval(t) /\ ~polled[t]

LedgerInv == DebtInv /\ AccountInv /\ PaidInv /\ BackoffInv

IInv == TaskInv /\ TimeTypeOK /\ LedgerInv

\* Steps of the shared part, which know nothing of the account.
Common(t) == Surroundings(t) \/ Resume(t) \/ FirstPoll(t)

----------------------------------------------------------------------------

\* A backoff pays for whole multiples of `inter' (mode_time.rs:84-87).
LEMMA Remainder ==
  ASSUME NEW n \in Nat
  PROVE  LET rest == n - (n \div inter) * inter
         IN  rest \in 0..(inter - 1) /\ rest <= n /\ rest % inter = n % inter
  BY DEF inter

\* What is below `inter' is its own remainder.
LEMMA OwnRemainder == ASSUME NEW n \in Nat, n < inter PROVE n % inter = n
  BY DEF inter

\* The remainder of a sum depends on the remainders only.
LEMMA RemainderOfSum ==
  ASSUME NEW n \in Nat, NEW e \in Nat
  PROVE  (n + e) % inter \in 0..(inter - 1) /\ (n + e) % inter = ((n % inter) + e) % inter
  BY DEF inter

\* The account has room for one more poll, and is cut off above it.
LEMMA CappedType == ASSUME NEW n \in Nat PROVE Capped(n) \in 0..TimeBound
  BY TimeAssumption DEF Capped

LEMMA InvInit == Init => IInv
<1> SUFFICES ASSUME Init PROVE IInv
  OBVIOUS
<1>1. TaskInv
  BY TaskInvInit DEF Init
<1>2. TimeTypeOK
  BY <1>1, TimeAssumption DEF Init, TaskInv, TimeTypeOK, inter
<1>3. LedgerInv
  BY <1>1, OwnRemainder
  DEF Init, TaskInit, LedgerInv, DebtInv, AccountInv, PaidInv, BackoffInv, inter
<1> QED
  BY <1>1, <1>2, <1>3 DEF IInv

\* Polls begin, wake-ups come in and Sleeps end without touching the account.
LEMMA InvCommon ==
  ASSUME IInv, NEW t \in Tasks, Common(t), UNCHANGED Others
  PROVE  IInv'
<1> USE DEF IInv, Others
<1>1. TaskInv'
  BY SurroundingsPreserve, PollPreserves DEF Common, PollStep
<1>2. TimeTypeOK' /\ AccountInv' /\ PaidInv'
  BY <1>1 DEF TaskInv, TimeTypeOK, LedgerInv, AccountInv, PaidInv, HasInterval
<1>3. \A u \in Tasks : /\ pc'[u] = "inner" => pc[u] = "inner"
                       /\ state'[u] = "backoff" => state[u] = "backoff"
  BY DEF Common, TaskInv, TaskTypeOK, Surroundings, PollBegin, TimerFires,
         InnerEvent, StaleWake, Resume, EnterCommon, LeaveBackoff,
         StillBackedOff, FirstPoll, FirstPollPending, FirstPollReady, Goto
<1>4. DebtInv' /\ BackoffInv'
  BY <1>3 DEF LedgerInv, DebtInv, BackoffInv, HasInterval
<1> QED
  BY <1>1, <1>2, <1>4 DEF LedgerInv

\* The gate pays for what is due, or lets a task pass that owes little
\* (mode_time.rs:77-112).
LEMMA InvGated ==
  ASSUME IInv, NEW t \in Tasks, Gated(t)
  PROVE  IInv'
<1> USE DEF IInv
<1>1. CASE InsertBackoff(t)
  <2> DEFINE rest == addingUpTime[t] - (addingUpTime[t] \div inter) * inter
  <2>1. TaskInv'
    BY <1>1, PollPreserves DEF InsertBackoff, PollStep
  <2>2. addingUpTime[t] \in Nat /\ addingUpTime[t] <= TimeBound
    BY TimeAssumption DEF TimeTypeOK
  <2>3. rest \in 0..(inter - 1) /\ rest <= addingUpTime[t]
        /\ rest % inter = addingUpTime[t] % inter
    BY <2>2, Remainder
  <2>4. addingUpTime' = [addingUpTime EXCEPT ![t] = rest]
    BY <1>1 DEF InsertBackoff
  <2> HIDE DEF rest
  <2>5. rest \in 0..TimeBound /\ rest < inter
    BY <2>2, <2>3, TimeAssumption DEF inter
  <2>6. TimeTypeOK'
    BY <1>1, <2>1, <2>4, <2>5 DEF InsertBackoff, TaskInv, TimeTypeOK
  <2>7. AccountInv' /\ PaidInv'
    BY <1>1, <2>3, <2>4, <2>5
    DEF InsertBackoff, TimeTypeOK, LedgerInv, AccountInv, PaidInv, HasInterval
  <2>8. DebtInv' /\ BackoffInv'
    BY <1>1, <2>4
    DEF InsertBackoff, StartBackoff, BackoffDue, Goto, TaskInv, TaskTypeOK,
        TimeTypeOK, LedgerInv, DebtInv, BackoffInv, HasInterval
  <2> QED
    BY <2>1, <2>6, <2>7, <2>8 DEF LedgerInv
<1>2. CASE NoBackoff(t)
  <2>1. TaskInv'
    BY <1>2, PollPreserves DEF NoBackoff, PollStep
  <2>2. TimeTypeOK' /\ AccountInv' /\ PaidInv'
    BY <1>2, <2>1
    DEF NoBackoff, Others, TaskInv, TimeTypeOK, LedgerInv, AccountInv, PaidInv, HasInterval
  <2>3. HasInterval(t) => addingUpTime[t] <= inter
    BY <1>2, TimeAssumption DEF NoBackoff, BackoffDue, TimeTypeOK, inter
  <2>4. DebtInv' /\ BackoffInv'
    BY <1>2, <2>3
    DEF NoBackoff, Others, PassGate, Goto, TaskInv, TaskTypeOK, LedgerInv,
        DebtInv, BackoffInv, HasInterval
  <2> QED
    BY <2>1, <2>2, <2>4 DEF LedgerInv
<1> QED
  BY <1>1, <1>2 DEF Gated

\* The poll of the wrapped future adds to the account (mode_time.rs:112-124).
LEMMA InvPolled ==
  ASSUME IInv, NEW t \in Tasks, Polled(t)
  PROVE  IInv'
<1> USE DEF IInv
<1>1. CASE TimedPending(t)
  <2>1. TaskInv' /\ pc[t] = "inner" /\ state[t] = "common"
    <3>1. TaskInv'
      BY <1>1, PollPreserves DEF TimedPending, PollStep
    <3>2. pc[t] = "inner"
      BY <1>1 DEF TimedPending, InnerPending, Goto
    <3> QED
      BY <3>1, <3>2, NoPollLemma DEF NoPollDuringBackoff
  <2>2. PICK e \in Elapsed :
           /\ addingUpTime' = [addingUpTime EXCEPT ![t] = Capped(@ + e)]
           /\ spent' = [spent EXCEPT ![t] = (@ + e) % inter]
    BY <1>1 DEF TimedPending
  <2>3. e \in Nat /\ addingUpTime[t] \in Nat /\ spent[t] \in Nat
    BY TimeAssumption DEF TimeTypeOK, inter
  <2>4. Capped(addingUpTime[t] + e) \in 0..TimeBound
    BY <2>3, CappedType
  <2>5. (spent[t] + e) % inter \in 0..(inter - 1)
    BY <2>3, RemainderOfSum
  <2>6. TimeTypeOK'
    BY <1>1, <2>1, <2>2, <2>4, <2>5 DEF TimedPending, TaskInv, TimeTypeOK
  <2>7. HasInterval(t) =>
           Capped(addingUpTime[t] + e) % inter = (spent[t] + e) % inter
    <3> SUFFICES ASSUME HasInterval(t)
                 PROVE  Capped(addingUpTime[t] + e) % inter = (spent[t] + e) % inter
      OBVIOUS
    <3>1. addingUpTime[t] <= inter
      BY <2>1 DEF LedgerInv, DebtInv
    <3>2. addingUpTime[t] + e <= TimeBound
      BY <2>3, <3>1, TimeAssumption DEF inter
    <3>3. addingUpTime[t] % inter = spent[t]
      BY DEF LedgerInv, AccountInv
    <3> QED
      BY <2>3, <3>2, <3>3, RemainderOfSum DEF Capped
  <2>8. AccountInv'
    BY <1>1, <2>2, <2>7
    DEF TimedPending, TimeTypeOK, LedgerInv, AccountInv, HasInterval
  <2>9. DebtInv'
    BY <1>1, <2>2
    DEF TimedPending, InnerPending, Goto, TaskInv, TaskTypeOK, TimeTypeOK,
        LedgerInv, DebtInv, HasInterval
  <2>10. PaidInv' /\ BackoffInv'
    BY <1>1, <2>1, <2>2
    DEF TimedPending, InnerPending, TimeTypeOK, LedgerInv, PaidInv, BackoffInv,
        HasInterval
  <2> QED
    BY <2>1, <2>6, <2>8, <2>9, <2>10 DEF LedgerInv
<1>2. CASE TimedReady(t)
  <2>1. TaskInv'
    BY <1>2, PollPreserves DEF TimedReady, PollStep
  <2>2. TimeTypeOK' /\ AccountInv' /\ PaidInv'
    BY <1>2, <2>1
    DEF TimedReady, Others, TaskInv, TimeTypeOK, LedgerInv, AccountInv, PaidInv, HasInterval
  <2>3. DebtInv' /\ BackoffInv'
    BY <1>2
    DEF TimedReady, Others, InnerReady, Goto, TaskInv, TaskTypeOK, LedgerInv,
        DebtInv, BackoffInv, HasInterval
  <2> QED
    BY <2>1, <2>2, <2>3 DEF LedgerInv
<1> QED
  BY <1>1, <1>2 DEF Polled

LEMMA InvStep == IInv /\ [Next]_vars => IInv'
<1> SUFFICES ASSUME IInv, [Next]_vars PROVE IInv'
  OBVIOUS
<1>1. CASE Next
  BY <1>1, InvCommon, InvGated, InvPolled DEF Next, Common
<1>2. CASE UNCHANGED vars
  BY <1>2
  DEF vars, taskVars, IInv, TaskInv, TaskTypeOK, NoLostWakeup, TaskPlaces,
      TimeTypeOK, LedgerInv, DebtInv, AccountInv, PaidInv, BackoffInv, HasInterval
<1> QED
  BY <1>1, <1>2

\* Every reachable state satisfies the inductive invariant.
THEOREM Invariant == Spec => []IInv
  BY InvInit, InvStep, PTL DEF Spec

----------------------------------------------------------------------------

\* Every variable keeps its type; the account stays within what one poll can
\* add to an unpaid rest, and never goes below zero (mode_time.rs:15-39, 87).
THEOREM TypeCorrect == Spec => []TimeTypeOK
<1>1. IInv => TimeTypeOK
  BY DEF IInv
<1> QED
  BY <1>1, Invariant, PTL

\* No task is parked without something that will wake it in this mode either
\* (mode_time.rs:66-110).
THEOREM WakeupSafety == Spec => []NoLostWakeup
<1>1. IInv => NoLostWakeup
  BY DEF IInv, TaskInv
<1> QED
  BY <1>1, Invariant, PTL

\* A Backoff is waited for in this mode too: nobody polls the wrapped future of a
\* task whose state is Backoff (mode_time.rs:67-75).
THEOREM BackoffRespected == Spec => []NoPollDuringBackoff
<1>1. IInv => NoPollDuringBackoff
  BY NoPollLemma DEF IInv
<1> QED
  BY <1>1, Invariant, PTL

\* What a backoff leaves on the account is the time that was spent modulo
\* `inter', however the polls were spread (mode_time.rs:83-100, 113-120).
THEOREM TimeKept == Spec => []NoTimeIsLost
<1>1. IInv => NoTimeIsLost
  <2> SUFFICES ASSUME IInv, NEW t \in Tasks, state[t] = "backoff"
               PROVE  addingUpTime[t] = spent[t]
    BY DEF NoTimeIsLost
  <2>1. HasInterval(t) /\ ~polled[t]
    BY DEF IInv, LedgerInv, BackoffInv
  <2>2. addingUpTime[t] % inter = spent[t] /\ addingUpTime[t] < inter
    BY <2>1 DEF IInv, LedgerInv, AccountInv, PaidInv
  <2>3. addingUpTime[t] \in Nat
    BY TimeAssumption DEF IInv, TimeTypeOK
  <2> QED
    BY <2>2, <2>3, OwnRemainder
<1> QED
  BY <1>1, Invariant, PTL

\* Between two backoffs the wrapped future is polled (mode_time.rs:84-100).
THEOREM OneBackoff == Spec => OneBackoffPaysAll
<1>1. IInv /\ [Next]_vars =>
        [\A t \in Tasks :
            state[t] = "common" /\ state'[t] = "backoff" => polled[t]]_vars
  <2> SUFFICES ASSUME IInv, Next, NEW t \in Tasks,
                      state[t] = "common", state'[t] = "backoff"
               PROVE  polled[t]
    BY DEF vars
  <2>1. InsertBackoff(t)
    BY DEF IInv, TaskInv, TaskTypeOK, Next, Surroundings, PollBegin,
           TimerFires, InnerEvent, StaleWake, Resume, EnterCommon,
           LeaveBackoff, StillBackedOff, FirstPoll, FirstPollPending,
           FirstPollReady, Gated, InsertBackoff, StartBackoff, NoBackoff,
           PassGate, Polled, TimedPending, InnerPending, TimedReady, InnerReady
  <2>2. addingUpTime[t] > inter /\ addingUpTime[t] \in Nat
    BY <2>1, TimeAssumption DEF InsertBackoff, BackoffDue, IInv, TimeTypeOK
  <2> QED
    BY <2>2 DEF IInv, LedgerInv, PaidInv, inter
<1> QED
  BY <1>1, Invariant, PTL DEF Spec, OneBackoffPaysAll

\* The time mode implements ThrottledFuture (mode_time.rs:57-125).
THEOREM Refinement == Spec => ImplementsThrottledFuture
<1>1. Init => Throttled!Init
  BY ThrottledInit DEF Init
<1>2. IInv /\ [Next]_vars => [Throttled!Next]_(Throttled!vars)
  <2> SUFFICES ASSUME IInv, [Next]_vars
               PROVE  [Throttled!Next]_(Throttled!vars)
    OBVIOUS
  <2>1. TaskInv
    BY DEF IInv
  <2>2. ASSUME NEW t \in Tasks, Common(t)
        PROVE  [Throttled!Next]_(Throttled!vars)
    BY <2>1, <2>2, SurroundingsAbstract, PollAbstract DEF Common, PollStep
  <2>3. ASSUME NEW t \in Tasks, Gated(t) \/ Polled(t)
        PROVE  [Throttled!Next]_(Throttled!vars)
    <3>1. PollStep(t)
      BY <2>3 DEF Gated, InsertBackoff, NoBackoff, Polled, TimedPending,
                  TimedReady, PollStep
    <3> QED
      BY <2>1, <3>1, PollAbstract
  <2>4. CASE UNCHANGED vars
    BY <2>4 DEF vars, taskVars, Throttled!vars, Gate
  <2> QED
    BY <2>2, <2>3, <2>4 DEF Next, Common
<1> QED
  BY <1>1, <1>2, Invariant, PTL
  DEF Spec, ImplementsThrottledFuture, Throttled!Spec
=============================================================================
