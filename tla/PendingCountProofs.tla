------------------------- MODULE PendingCountProofs -------------------------
(***************************************************************************)
(* Proofs of the safety properties of PendingCount, for any set of tasks,  *)
(* any counter width whose largest value is a multiple of inter (u32::MAX  *)
(* is), any history length, and builds with and without overflow checks.   *)
(***************************************************************************)
EXTENDS PendingCount, PolledTaskProofs

\* pend_cnt says how many Pendings there were since the last backoff, wrapping
\* or not; a poll of the wrapped future only follows a count that is not due.
CountInv ==
    \A t \in Tasks : HasInterval(t) =>
        /\ polls[t] = pendCnt[t] % inter
        /\ pc[t] = "inner" => pendCnt[t] < MaxCnt /\ (pendCnt[t] + 1) % inter # 0

IInv == TaskInv /\ CountTypeOK /\ CountInv /\ HistoryIsRecent

----------------------------------------------------------------------------

\* Counting modulo inter.
LEMMA CountingMod ==
  ASSUME NEW n \in Nat
  PROVE  /\ n % inter \in 0..(inter - 1)
         /\ (n + 1) % inter = 0 <=> n % inter = inter - 1
         /\ (n + 1) % inter # 0 => (n + 1) % inter = (n % inter) + 1
  BY DEF inter

\* The counter never leaves its type, and it wraps to 0.
LEMMA NextCntType ==
  ASSUME CountTypeOK, NEW t \in Tasks
  PROVE  /\ pendCnt[t] \in Nat
         /\ NextCnt(t) \in 0..MaxCnt
         /\ pendCnt[t] # MaxCnt => NextCnt(t) = pendCnt[t] + 1
         /\ pendCnt[t] = MaxCnt => pendCnt[t] % inter = 0 /\ NextCnt(t) = 0
  BY CountAssumption DEF CountTypeOK, NextCnt

\* The latest part of a sequence stays that when both grow by one element, and
\* without its own first element.
LEMMA LatestGrows ==
  ASSUME NEW S, NEW r \in Seq(S), NEW w \in Seq(S), NEW x \in S, IsLatest(r, w)
  PROVE  IsLatest(Append(r, x), Append(w, x))
<1> DEFINE rx == Append(r, x)
           wx == Append(w, x)
<1>1. /\ Len(r) \in Nat /\ Len(rx) = Len(r) + 1
      /\ Len(w) \in Nat /\ Len(wx) = Len(w) + 1
  OBVIOUS
<1>2. /\ \A i \in 1..Len(rx) : rx[i] = IF i <= Len(r) THEN r[i] ELSE x
      /\ \A i \in 1..Len(wx) : wx[i] = IF i <= Len(w) THEN w[i] ELSE x
  OBVIOUS
<1>3. ASSUME NEW i \in 1..Len(rx)
      PROVE  rx[i] = wx[Len(wx) - Len(rx) + i]
  <2> HIDE DEF rx, wx
  <2>1. /\ Len(wx) - Len(rx) + i = Len(w) - Len(r) + i
        /\ Len(w) - Len(r) + i \in 1..Len(wx)
        /\ i <= Len(r) <=> Len(w) - Len(r) + i <= Len(w)
    <3>1. i \in Nat /\ 1 <= i /\ i <= Len(r) + 1
      BY <1>1, <1>3
    <3>2. Len(r) <= Len(w)
      BY DEF IsLatest
    <3> QED
      BY <1>1, <3>1, <3>2
  <2>2. CASE i <= Len(r)
    <3>1. rx[i] = r[i] /\ wx[Len(wx) - Len(rx) + i] = w[Len(w) - Len(r) + i]
      BY <1>2, <2>1, <2>2
    <3>2. i \in 1..Len(r)
      BY <1>1, <1>3, <2>2
    <3> QED
      BY <3>1, <3>2 DEF IsLatest
  <2>3. CASE ~(i <= Len(r))
    BY <1>2, <2>1, <2>3
  <2> QED
    BY <2>2, <2>3
<1>4. Len(rx) <= Len(wx)
  BY <1>1 DEF IsLatest
<1> QED
  <2>1. \A i \in 1..Len(rx) : rx[i] = wx[Len(wx) - Len(rx) + i]
    BY <1>3
  <2> HIDE DEF rx, wx
  <2>2. IsLatest(rx, wx)
    BY <1>4, <2>1 DEF IsLatest
  <2> QED
    BY <2>2 DEF rx, wx

LEMMA LatestShrinks ==
  ASSUME NEW S, NEW r \in Seq(S), NEW w \in Seq(S), r # <<>>, IsLatest(r, w)
  PROVE  IsLatest(Tail(r), w) /\ Len(Tail(r)) = Len(r) - 1
<1>1. /\ Len(Tail(r)) = Len(r) - 1
      /\ \A i \in 1..Len(Tail(r)) : Tail(r)[i] = r[i + 1]
  OBVIOUS
<1>2. ASSUME NEW i \in 1..Len(Tail(r))
      PROVE  Tail(r)[i] = w[Len(w) - Len(Tail(r)) + i]
  <2>1. i + 1 \in 1..Len(r) /\ Len(w) - Len(Tail(r)) + i = Len(w) - Len(r) + (i + 1)
    BY <1>1
  <2> QED
    BY <1>1, <2>1 DEF IsLatest
<1> QED
  BY <1>1, <1>2 DEF IsLatest

LEMMA InvInit == Init => IInv
<1> SUFFICES ASSUME Init PROVE IInv
  OBVIOUS
<1>1. TaskInv
  BY TaskInvInit DEF Init
<1>2. CountTypeOK
  BY <1>1, CountAssumption DEF Init, TaskInv, CountTypeOK, PollsBound, inter
<1>3. CountInv
  BY CountingMod DEF Init, TaskInit, CountInv, inter
<1>4. HistoryIsRecent
  BY CountAssumption DEF Init, HistoryIsRecent, IsLatest
<1> QED
  BY <1>1, <1>2, <1>3, <1>4 DEF IInv

\* Steps that do not touch the counters or the history.
LEMMA InvCommon ==
  ASSUME IInv, NEW t \in Tasks, Common(t)
  PROVE  IInv'
<1> USE DEF IInv
<1>1. TaskInv'
  BY SurroundingsPreserve, PollPreserves DEF Common, PollStep
<1>2. CountTypeOK' /\ HistoryIsRecent'
  BY <1>1 DEF given, Common, TaskInv, CountTypeOK, HistoryIsRecent
<1>3. \A u \in Tasks : pc'[u] = "inner" => pc[u] = "inner"
  BY DEF Common, TaskInv, TaskTypeOK, Surroundings, PollBegin, TimerFires,
         InnerEvent, StaleWake, Resume, EnterCommon, LeaveBackoff,
         StillBackedOff, FirstPoll, FirstPollPending, FirstPollReady, Goto
<1>4. CountInv'
  BY <1>3 DEF given, Common, CountInv, HasInterval
<1> QED
  BY <1>1, <1>2, <1>4

\* The gate: a panic, a backoff that is counted, or a pass (mode_count.rs:195-253).
LEMMA InvGated ==
  ASSUME IInv, NEW t \in Tasks, Gated(t)
  PROVE  IInv'
<1> USE DEF IInv
<1>1. CASE CountPanics(t)
  <2>1. TaskInv'
    <3>1. inner[t] # "done"
      BY <1>1 DEF CountPanics, Goto, TaskInv, TaskPlaces, Finishing
    <3> QED
      BY <1>1, <3>1, FinishPreserves DEF CountPanics, InPoll, Finishing, Over
  <2>2. CountTypeOK' /\ HistoryIsRecent'
    BY <1>1, <2>1 DEF given, CountPanics, TaskInv, CountTypeOK, HistoryIsRecent
  <2>3. CountInv'
    BY <1>1
    DEF given, CountPanics, Goto, TaskInv, TaskTypeOK, CountInv, HasInterval
  <2> QED
    BY <2>1, <2>2, <2>3
<1>2. CASE InsertBackoff(t)
  <2>1. TaskInv'
    BY <1>2, PollPreserves DEF InsertBackoff, PollStep
  <2>2. CountTypeOK' /\ HistoryIsRecent'
    BY <1>2, <2>1, NextCntType
    DEF given, InsertBackoff, TaskInv, CountTypeOK, HistoryIsRecent,
        PollsBound, inter
  <2>3. pendCnt'[t] % inter = 0 /\ polls'[t] = 0 /\ pc'[t] # "inner"
    BY <1>2 DEF InsertBackoff, BackoffDue, StartBackoff, Goto, CountTypeOK,
                TaskInv, TaskTypeOK
  <2>4. \A u \in Tasks \ {t} :
           pendCnt'[u] = pendCnt[u] /\ polls'[u] = polls[u] /\ pc'[u] = pc[u]
    BY <1>2 DEF InsertBackoff, StartBackoff, Goto, CountTypeOK, TaskInv, TaskTypeOK
  <2>5. CountInv'
    BY <1>2, <2>3, <2>4 DEF given, InsertBackoff, CountInv, HasInterval
  <2> QED
    BY <2>1, <2>2, <2>5
<1>3. CASE NoBackoff(t)
  <2>1. TaskInv'
    BY <1>3, PollPreserves DEF NoBackoff, PollStep
  <2>2. CountTypeOK' /\ HistoryIsRecent'
    BY <1>3, <2>1 DEF given, NoBackoff, TaskInv, CountTypeOK, HistoryIsRecent
  <2>3. HasInterval(t) => pendCnt[t] < MaxCnt /\ (pendCnt[t] + 1) % inter # 0
    <3>1. CASE pendCnt[t] = MaxCnt
      BY <1>3, <3>1, CountAssumption, NextCntType DEF NoBackoff, BackoffDue, inter
    <3>2. CASE pendCnt[t] # MaxCnt
      BY <1>3, <3>2, CountAssumption, NextCntType
      DEF NoBackoff, BackoffDue, CountTypeOK
    <3> QED
      BY <3>1, <3>2
  <2>4. CountInv'
    BY <1>3, <2>3
    DEF given, NoBackoff, PassGate, Goto, TaskInv, TaskTypeOK, CountInv,
        HasInterval
  <2> QED
    BY <2>1, <2>2, <2>4
<1> QED
  BY <1>1, <1>2, <1>3 DEF Gated

\* The poll of the wrapped future (mode_count.rs:255-301).
LEMMA InvPolled ==
  ASSUME IInv, NEW t \in Tasks, Polled(t)
  PROVE  IInv'
<1> USE DEF IInv
<1>1. CASE CountPending(t)
  <2>1. TaskInv'
    BY <1>1, PollPreserves DEF CountPending, PollStep
  <2>2. CountTypeOK' /\ HistoryIsRecent'
    BY <1>1, <2>1, NextCntType
    DEF given, CountPending, TaskInv, CountTypeOK, HistoryIsRecent, PollsBound,
        inter
  <2>3. HasInterval(t) => polls'[t] = pendCnt'[t] % inter
    <3> SUFFICES ASSUME HasInterval(t) PROVE polls'[t] = pendCnt'[t] % inter
      OBVIOUS
    <3>1. /\ polls[t] = pendCnt[t] % inter
          /\ pendCnt[t] < MaxCnt
          /\ (pendCnt[t] + 1) % inter # 0
      BY <1>1 DEF CountPending, InnerPending, Goto, CountInv
    <3>2. pendCnt'[t] = pendCnt[t] + 1
      BY <1>1, <3>1, NextCntType, CountAssumption DEF CountPending, CountTypeOK
    <3>3. pendCnt'[t] % inter = (pendCnt[t] % inter) + 1
      BY <3>1, <3>2, CountingMod, NextCntType
    <3>4. polls[t] < inter - 1
      BY <3>1, CountingMod, NextCntType DEF inter
    <3>5. polls'[t] = polls[t] + 1
      <4>1. polls \in [Tasks -> 0..PollsBound]
        BY DEF CountTypeOK
      <4>2. polls[t] \in 0..5 /\ polls[t] < 4
        BY <3>4, <4>1 DEF PollsBound, inter
      <4> QED
        BY <1>1, <4>1, <4>2 DEF CountPending, PollsBound, inter
    <3> QED
      BY <3>1, <3>3, <3>5
  <2>4. pc'[t] # "inner"
    BY <1>1 DEF CountPending, InnerPending, Goto, TaskInv, TaskTypeOK
  <2>5. \A u \in Tasks \ {t} :
           pendCnt'[u] = pendCnt[u] /\ polls'[u] = polls[u] /\ pc'[u] = pc[u]
    BY <1>1 DEF CountPending, InnerPending, Goto, CountTypeOK, TaskInv, TaskTypeOK
  <2>6. CountInv'
    BY <1>1, <2>3, <2>4, <2>5 DEF given, CountPending, CountInv, HasInterval
  <2> QED
    BY <2>1, <2>2, <2>6
<1>2. CASE CountReady(t)
  <2>1. TaskInv'
    BY <1>2, PollPreserves DEF CountReady, PollStep, Finishing
  <2>2. CountTypeOK' /\ HistoryIsRecent'
    BY <1>2, <2>1 DEF given, CountReady, TaskInv, CountTypeOK, HistoryIsRecent
  <2>3. CountInv'
    BY <1>2
    DEF given, CountReady, InnerReady, Goto, TaskInv, TaskTypeOK, CountInv,
        HasInterval
  <2> QED
    BY <2>1, <2>2, <2>3
<1> QED
  BY <1>1, <1>2 DEF Polled

\* The history: a push appends to a suffix and drops from its front, an insert
\* starts it anew with the latest completion (mode_count.rs:263-293).
LEMMA InvRecord ==
  ASSUME IInv, NEW t \in Tasks, Record(t)
  PROVE  IInv'
<1> USE DEF IInv
<1>1. TaskInv'
  <2>1. PICK from \in Finishing, to \in Finishing \cup {"done"} :
             Goto(t, from, to) /\ UNCHANGED <<notified, state, sleep, inner>>
    BY DEF Record, LookUp, PushRecord, InsertRecord, Recording, Finishing
  <2> QED
    BY <2>1, FinishPreserves DEF InPoll, Finishing, Over
<1>2. CountInv'
  <2>1. UNCHANGED <<given, pendCnt, polls>>
    BY DEF Record, LookUp, PushRecord, InsertRecord, Recording
  <2>2. \A u \in Tasks : pc'[u] = "inner" => pc[u] = "inner"
    BY DEF Record, LookUp, PushRecord, InsertRecord, Recording, Goto, TaskInv,
           TaskTypeOK
  <2> QED
    BY <2>1, <2>2 DEF given, CountInv, HasInterval
<1>3. records \in Seq(Tasks) /\ written \in Seq(Tasks) /\ MaxRecords \in Nat \ {0}
  BY CountAssumption DEF CountTypeOK
<1>4. /\ records' \in Seq(Tasks) /\ written' \in Seq(Tasks)
      /\ HistoryIsRecent'
  <2>1. CASE LookUp(t)
    BY <1>3, <2>1 DEF LookUp, HistoryIsRecent
  <2>2. CASE InsertRecord(t)
    BY <1>3, <2>2 DEF InsertRecord, HistoryIsRecent, IsLatest
  <2>3. CASE PushRecord(t)
    <3> DEFINE longer == Append(records, t)
    <3>1. longer \in Seq(Tasks) /\ longer # <<>> /\ Len(longer) = Len(records) + 1
      BY <1>3
    <3>2. written' \in Seq(Tasks) /\ written' = Append(written, t)
      BY <1>3, <2>3 DEF PushRecord
    <3>3. IsLatest(longer, written')
      BY <1>3, <3>2, LatestGrows DEF HistoryIsRecent
    <3>4. records' = IF Len(longer) > MaxRecords THEN Tail(longer) ELSE longer
      BY <2>3 DEF PushRecord
    <3> HIDE DEF longer
    <3>5. CASE Len(longer) > MaxRecords
      <4>1. IsLatest(Tail(longer), written') /\ Len(Tail(longer)) = Len(longer) - 1
        BY <3>1, <3>2, <3>3, LatestShrinks
      <4>2. Tail(longer) \in Seq(Tasks)
        BY <3>1
      <4> QED
        BY <1>3, <3>1, <3>2, <3>4, <3>5, <4>1, <4>2 DEF HistoryIsRecent
    <3>6. CASE ~(Len(longer) > MaxRecords)
      BY <1>3, <3>1, <3>2, <3>3, <3>4, <3>6 DEF HistoryIsRecent
    <3> QED
      BY <3>5, <3>6
  <2> QED
    BY <2>1, <2>2, <2>3 DEF Record
<1>5. CountTypeOK'
  <2>1. UNCHANGED <<given, pendCnt, polls>>
    BY DEF Record, LookUp, PushRecord, InsertRecord, Recording
  <2> QED
    BY <1>1, <1>4, <2>1 DEF given, TaskInv, CountTypeOK
<1> QED
  BY <1>1, <1>2, <1>4, <1>5

LEMMA InvStep == IInv /\ [Next]_vars => IInv'
<1> SUFFICES ASSUME IInv, [Next]_vars PROVE IInv'
  OBVIOUS
<1>1. CASE Next
  BY <1>1, InvCommon, InvGated, InvPolled, InvRecord DEF Next
<1>2. CASE UNCHANGED vars
  BY <1>2
  DEF given, vars, taskVars, IInv, TaskInv, TaskTypeOK, NoLostWakeup,
      TaskPlaces, CountTypeOK, CountInv, HasInterval, HistoryIsRecent
<1> QED
  BY <1>1, <1>2

\* Every reachable state satisfies the inductive invariant.
THEOREM Invariant == Spec => []IInv
  BY InvInit, InvStep, PTL DEF Spec

----------------------------------------------------------------------------

\* Every variable keeps its type (mode_count.rs:97-124).
THEOREM TypeCorrect == Spec => []CountTypeOK
<1>1. IInv => CountTypeOK
  BY DEF IInv
<1> QED
  BY <1>1, Invariant, PTL

\* No task is parked without something that will wake it, for any number of
\* tasks and any interleaving of polls, timers and events
\* (mode_count.rs:175-183 and 244-251).
THEOREM WakeupSafety == Spec => []NoLostWakeup
<1>1. IInv => NoLostWakeup
  BY DEF IInv, TaskInv
<1> QED
  BY <1>1, Invariant, PTL

\* A backoff is always waited for (mode_count.rs:177-182).
THEOREM BackoffRespected == Spec => []NoPollDuringBackoff
<1>1. IInv => NoPollDuringBackoff
  BY NoPollLemma DEF IInv
<1> QED
  BY <1>1, Invariant, PTL

\* At most inter - 1 Pendings between two backoffs, for any counter width
\* (mode_count.rs:186-229 and 298).
THEOREM FourPendings == Spec => []AtMostFourPendings
<1>1. IInv => AtMostFourPendings
  BY CountingMod
  DEF IInv, CountTypeOK, CountInv, AtMostFourPendings, inter
<1> QED
  BY <1>1, Invariant, PTL

\* The history is a gapless suffix of the completions (mode_count.rs:263-293).
THEOREM RecentHistory == Spec => []HistoryIsRecent
<1>1. IInv => HistoryIsRecent
  BY DEF IInv
<1> QED
  BY <1>1, Invariant, PTL

\* Backoffs are exactly inter - 1 Pendings apart, but where an unchecked counter
\* wraps (mode_count.rs:195-229).
THEOREM Spacing == Spec => BackoffsAreSpaced
<1> DEFINE Spaced(t) ==
      state[t] = "common" /\ state'[t] = "backoff"
      => \/ polls[t] = inter - 1
         \/ pendCnt[t] = MaxCnt /\ ~overflowChecks
<1>1. IInv /\ [Next]_vars => [\A t \in Tasks : Spaced(t)]_vars
  <2> SUFFICES ASSUME IInv, Next, NEW t \in Tasks,
                      state[t] = "common", state'[t] = "backoff"
               PROVE  \/ polls[t] = inter - 1
                      \/ pendCnt[t] = MaxCnt /\ ~overflowChecks
    BY DEF vars
  <2>1. InsertBackoff(t)
    BY DEF IInv, TaskInv, TaskTypeOK, Next, Common, Surroundings, PollBegin,
           TimerFires, InnerEvent, StaleWake, Resume, EnterCommon,
           LeaveBackoff, StillBackedOff, FirstPoll, FirstPollPending,
           FirstPollReady, Gated, CountPanics, InsertBackoff, StartBackoff,
           NoBackoff, PassGate, Polled, CountPending, InnerPending, CountReady,
           InnerReady, Record, LookUp, PushRecord, InsertRecord, Recording
  <2>2. CASE pendCnt[t] = MaxCnt
    BY <2>1, <2>2, CountAssumption DEF InsertBackoff, Overflows
  <2>3. CASE pendCnt[t] # MaxCnt
    <3>1. HasInterval(t) /\ (pendCnt[t] + 1) % inter = 0
      BY <2>1, <2>3, NextCntType DEF IInv, InsertBackoff, BackoffDue
    <3>2. pendCnt[t] % inter = inter - 1
      BY <3>1, CountingMod, NextCntType DEF IInv
    <3> QED
      BY <3>1, <3>2 DEF IInv, CountInv
  <2> QED
    BY <2>2, <2>3
<1> QED
  BY <1>1, Invariant, PTL DEF Spec, BackoffsAreSpaced

\* The count mode implements ThrottledFuture: whatever it does to its future is
\* to hold back polls (mode_count.rs:166-303).
THEOREM Refinement == Spec => ImplementsThrottledFuture
<1>1. Init => Throttled!Init
  BY ThrottledInit DEF Init
<1>2. IInv /\ [Next]_vars => [Throttled!Next]_(Throttled!vars)
  <2> SUFFICES ASSUME IInv, [Next]_vars
               PROVE  [Throttled!Next]_(Throttled!vars)
    OBVIOUS
  <2>1. TaskInv
    BY DEF IInv
  <2>2. ASSUME NEW t \in Tasks, Common(t)
        PROVE  [Throttled!Next]_(Throttled!vars)
    BY <2>1, <2>2, SurroundingsAbstract, PollAbstract DEF Common, PollStep
  <2>3. ASSUME NEW t \in Tasks, InsertBackoff(t) \/ NoBackoff(t) \/ Polled(t)
        PROVE  [Throttled!Next]_(Throttled!vars)
    <3>1. PollStep(t)
      BY <2>3 DEF InsertBackoff, NoBackoff, Polled, CountPending, CountReady,
                  PollStep, Finishing
    <3> QED
      BY <2>1, <3>1, PollAbstract
  <2>4. ASSUME NEW t \in Tasks, CountPanics(t) \/ Record(t)
        PROVE  [Throttled!Next]_(Throttled!vars)
    BY <2>4 DEF CountPanics, Record, LookUp, PushRecord, InsertRecord,
                Recording, Throttled!vars, Gate
  <2>5. CASE UNCHANGED vars
    BY <2>5 DEF vars, taskVars, Throttled!vars, Gate
  <2> QED
    BY <2>2, <2>3, <2>4, <2>5 DEF Next, Gated
<1> QED
  BY <1>1, <1>2, Invariant, PTL
  DEF Spec, ImplementsThrottledFuture, Throttled!Spec
=============================================================================
