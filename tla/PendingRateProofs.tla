------------------------- MODULE PendingRateProofs -------------------------
(***************************************************************************)
(* Proofs of the safety properties of PendingRate, for any set of tasks    *)
(* that share a bucket, any refill and any size of it.                     *)
(***************************************************************************)
EXTENDS PendingRate, PolledTaskProofs, FiniteSetTheorems

(***************************************************************************)
(* That polls are bounded is not inductive by itself: a token may be taken *)
(* in one interval and polled with in the next.  What the interval has     *)
(* polled, what tasks are about to poll and what can still be taken before *)
(* the next Tick fit into the bucket together, but for the tasks that were *)
(* late at the last one.                                                   *)
(***************************************************************************)
BucketInv ==
    /\ IsFiniteSet(Admitted)
    /\ IsFiniteSet(late)
    /\ Limited => polls + Cardinality(Admitted) + Refilled
                    <= MaxTokens + Cardinality(late)
    /\ ~Limited => polls = 0

IInv == TaskInv /\ RateTypeOK /\ BucketInv

\* Steps of the shared part, which know nothing of the bucket.
Common(t) ==
    PollBegin(t) \/ InnerEvent(t) \/ StaleWake(t) \/ Resume(t) \/ FirstPoll(t)

----------------------------------------------------------------------------

\* A refill fills the bucket at most; one that is not due changes nothing.
LEMMA RefillBound ==
  ASSUME NEW k \in Nat, NEW m \in Nat, NEW n \in Nat
  PROVE  /\ Capped(k + m * n, MaxTokens) \in 0..MaxTokens
         /\ m = 0 => k + m * n = k
<1>1. m * n \in Nat
  OBVIOUS
<1>2. PICK p \in Nat : p = m * n
  BY <1>1
<1>3. Capped(k + p, MaxTokens) \in 0..MaxTokens
  BY RateAssumption DEF Capped
<1>4. m = 0 => p = 0
  BY <1>2
<1> QED
  BY <1>2, <1>3, <1>4

\* So the bucket holds what it held, if no refill is due.
LEMMA RefilledType ==
  ASSUME RateTypeOK
  PROVE  Refilled \in 0..MaxTokens /\ (due = 0 => Refilled = tokens)
<1>1. tokens \in 0..MaxTokens /\ due \in Nat /\ Amount \in Nat /\ MaxTokens \in Nat
  BY RateAssumption DEF RateTypeOK
<1>2. Refilled \in 0..MaxTokens
  <2>1. tokens \in Nat
    BY <1>1
  <2> QED
    BY <1>1, <2>1, RefillBound DEF Refilled
<1>3. due = 0 => Refilled = Capped(tokens, MaxTokens)
  BY <1>1, RefillBound DEF Refilled
<1> QED
  BY <1>1, <1>2, <1>3 DEF Capped

LEMMA InvInit == Init => IInv
<1> SUFFICES ASSUME Init PROVE IInv
  OBVIOUS
<1>1. TaskInv
  BY TaskInvInit DEF Init
<1>2. RateTypeOK
  BY <1>1, RateAssumption DEF Init, TaskInv, RateTypeOK
<1>3. Admitted = {} /\ late = {}
  BY DEF Init, TaskInit, Admitted
<1>4. Refilled \in 0..MaxTokens /\ polls = 0
  BY <1>2, RefilledType DEF Init
<1>5. BucketInv
  BY <1>3, <1>4, FS_EmptySet, RateAssumption DEF BucketInv
<1> QED
  BY <1>1, <1>2, <1>5 DEF IInv

\* What the bucket has to say to a step that leaves it and the polls alone.
LEMMA BucketUnchanged ==
  ASSUME IInv, TaskInv', UNCHANGED <<priority, bucket, history>>,
         waited' \subseteq Tasks, Admitted' = Admitted
  PROVE  IInv'
<1>1. UNCHANGED <<Refilled, Limited>>
  BY DEF Refilled, Limited, bucket
<1>2. RateTypeOK'
  BY DEF IInv, TaskInv, RateTypeOK, bucket, history
<1>3. BucketInv'
  BY <1>1 DEF IInv, BucketInv, history
<1> QED
  BY <1>2, <1>3 DEF IInv

\* Only the throttle's decision and the poll itself change who has a token.
LEMMA CommonAdmits ==
  ASSUME TaskTypeOK, NEW t \in Tasks, Common(t) \/ TimerFires(t) \/ StartBackoff(t)
  PROVE  Admitted' = Admitted
BY DEF Common, TaskTypeOK, PollBegin, InnerEvent, StaleWake, TimerFires, Resume,
       EnterCommon, LeaveBackoff, StillBackedOff, FirstPoll, FirstPollPending,
       FirstPollReady, StartBackoff, Goto, Admitted

\* One that passes the gate has one poll before it.
LEMMA PassAdmits ==
  ASSUME IInv, NEW t \in Tasks, PassGate(t)
  PROVE  /\ IsFiniteSet(Admitted')
         /\ Cardinality(Admitted) \in Nat
         /\ Cardinality(Admitted') = Cardinality(Admitted) + 1
<1>1. Admitted' = Admitted \cup {t} /\ t \notin Admitted
  BY DEF IInv, TaskInv, TaskTypeOK, PassGate, Goto, Admitted
<1>2. IsFiniteSet(Admitted)
  BY DEF IInv, BucketInv
<1>3. Cardinality(Admitted) \in Nat
  BY <1>2, FS_CardinalityType
<1> QED
  BY <1>1, <1>2, <1>3, FS_AddElement

\* And one that polls had it.
LEMMA PollLeaves ==
  ASSUME IInv, NEW t \in Tasks, InnerPending(t) \/ InnerReady(t, "done")
  PROVE  /\ IsFiniteSet(Admitted')
         /\ Cardinality(Admitted) \in Nat
         /\ Cardinality(Admitted') \in Nat
         /\ Cardinality(Admitted) = Cardinality(Admitted') + 1
<1>1. Admitted' = Admitted \ {t} /\ t \in Admitted
  BY DEF IInv, TaskInv, TaskTypeOK, InnerPending, InnerReady, Goto, Admitted
<1>2. IsFiniteSet(Admitted)
  BY DEF IInv, BucketInv
<1>3. IsFiniteSet(Admitted') /\ Cardinality(Admitted') = Cardinality(Admitted) - 1
  BY <1>1, <1>2, FS_RemoveElement
<1>4. Cardinality(Admitted) \in Nat /\ Cardinality(Admitted') \in Nat
  BY <1>2, <1>3, FS_CardinalityType
<1> QED
  BY <1>3, <1>4

\* An interval ends: the bucket is due for more, and polls are counted anew.
LEMMA InvTick ==
  ASSUME IInv, Tick
  PROVE  IInv'
<1> USE DEF IInv
<1>1. TaskInv'
  BY DEF Tick, taskVars, TaskInv, TaskTypeOK, NoLostWakeup, TaskPlaces
<1>2. due' \in 0..MaxTokens
  BY RateAssumption DEF Tick, RateTypeOK, Capped
<1>3. RateTypeOK'
  BY <1>1, <1>2 DEF Tick, TaskInv, RateTypeOK, Admitted
<1>4. Refilled' \in 0..MaxTokens
  <2>1. due' \in Nat /\ Amount \in Nat /\ tokens' \in Nat
    BY <1>2, <1>3, RateAssumption DEF RateTypeOK
  <2> QED
    BY <2>1, RefillBound DEF Refilled
<1>5. BucketInv'
  <2>1. Admitted' = Admitted /\ late' = Admitted /\ polls' = 0 /\ IsFiniteSet(Admitted)
    BY DEF Tick, taskVars, Admitted, BucketInv
  <2>2. Cardinality(Admitted) \in Nat
    BY <2>1, FS_CardinalityType
  <2> QED
    BY <1>4, <2>1, <2>2, RateAssumption DEF BucketInv
<1> QED
  BY <1>1, <1>3, <1>5

\* try_wait() takes a token, or the task has to wait (mode_ratelimiter.rs:102-117).
LEMMA InvGated ==
  ASSUME IInv, NEW t \in Tasks, TakeToken(t) \/ NoToken(t) \/ Unlimited(t)
  PROVE  IInv'
<1> USE DEF IInv
<1>1. TaskInv'
  BY PollPreserves DEF TakeToken, NoToken, Unlimited, PollStep
<1>2. CASE TakeToken(t)
  <2>1. Refilled \in 1..MaxTokens /\ tokens' = Refilled - 1 /\ due' = 0
    BY <1>2, RefilledType, RateAssumption DEF TakeToken
  <2>2. polls' = polls /\ polls \in Nat /\ late' = late
    BY <1>2 DEF TakeToken, history, RateTypeOK
  <2>3. RateTypeOK'
    BY <1>1, <1>2, <2>1, <2>2, RateAssumption DEF TakeToken, TaskInv, RateTypeOK
  <2>4. Refilled' = Refilled - 1
    <3>1. tokens' \in 0..MaxTokens /\ due' \in Nat /\ Amount \in Nat
      BY <2>1, <2>3, RateAssumption DEF RateTypeOK
    <3>2. Refilled' = Capped(tokens', MaxTokens)
      BY <2>1, <3>1, RefillBound DEF Refilled
    <3> QED
      BY <2>1, <3>1, <3>2, RateAssumption DEF Capped
  <2>5. /\ IsFiniteSet(Admitted')
        /\ Cardinality(Admitted) \in Nat
        /\ Cardinality(Admitted') = Cardinality(Admitted) + 1
    BY <1>2, PassAdmits DEF TakeToken
  <2>6. Limited /\ Limited' /\ IsFiniteSet(late) /\ Cardinality(late) \in Nat
    BY <1>2, FS_CardinalityType DEF TakeToken, Limited, BucketInv
  <2>7. polls + Cardinality(Admitted) + Refilled <= MaxTokens + Cardinality(late)
    BY <2>6 DEF BucketInv
  <2>8. polls' + Cardinality(Admitted') + Refilled'
          <= MaxTokens + Cardinality(late)
    BY <2>1, <2>2, <2>4, <2>5, <2>6, <2>7, RateAssumption
  <2>9. BucketInv'
    BY <2>2, <2>5, <2>6, <2>8 DEF BucketInv
  <2> QED
    BY <1>1, <2>3, <2>9
<1>3. CASE NoToken(t)
  <2>1. Admitted' = Admitted
    BY <1>3, CommonAdmits DEF NoToken, TaskInv
  <2> QED
    BY <1>1, <1>3, <2>1, BucketUnchanged DEF NoToken, Others, RateTypeOK
<1>4. CASE Unlimited(t)
  <2>1. UNCHANGED <<priority, bucket, waited, polls, late>> /\ ~Limited
    BY <1>4 DEF Unlimited, Others, history
  <2>2. RateTypeOK'
    BY <1>1, <2>1 DEF TaskInv, RateTypeOK, bucket
  <2>3. IsFiniteSet(Admitted')
    BY <1>4, PassAdmits DEF Unlimited
  <2>4. BucketInv'
    BY <2>1, <2>3 DEF BucketInv, Limited
  <2> QED
    BY <1>1, <2>2, <2>4
<1> QED
  BY <1>2, <1>3, <1>4

\* The poll that the token was for (mode_ratelimiter.rs:119-128).
LEMMA InvPolled ==
  ASSUME IInv, NEW t \in Tasks, Polled(t)
  PROVE  IInv'
<1> USE DEF IInv
<1>1. TaskInv'
  BY PollPreserves DEF Polled, PollStep
<1>2. UNCHANGED <<priority, bucket, waited, late>> /\ polls \in Nat
      /\ polls' = IF Limited THEN polls + 1 ELSE polls
  BY DEF Polled, RateTypeOK
<1>3. RateTypeOK'
  BY <1>1, <1>2 DEF TaskInv, RateTypeOK, bucket
<1>4. UNCHANGED <<Refilled, Limited>> /\ Refilled \in 0..MaxTokens
  BY <1>2, RefilledType DEF Refilled, Limited, bucket
<1>5. /\ IsFiniteSet(Admitted')
      /\ Cardinality(Admitted) \in Nat
      /\ Cardinality(Admitted') \in Nat
      /\ Cardinality(Admitted) = Cardinality(Admitted') + 1
  BY PollLeaves DEF Polled
<1>6. CASE Limited
  <2>1. polls + Cardinality(Admitted) + Refilled <= MaxTokens + Cardinality(late)
    BY <1>6 DEF BucketInv
  <2>2. polls' + Cardinality(Admitted') = polls + Cardinality(Admitted)
    BY <1>2, <1>5, <1>6
  <2>3. BucketInv'
    BY <1>2, <1>4, <1>5, <1>6, <2>1, <2>2 DEF BucketInv
  <2> QED
    BY <1>1, <1>3, <2>3
<1>7. CASE ~Limited
  <2>1. BucketInv'
    BY <1>2, <1>4, <1>5, <1>7 DEF BucketInv
  <2> QED
    BY <1>1, <1>3, <2>1
<1> QED
  BY <1>6, <1>7

LEMMA InvStep == IInv /\ [Next]_vars => IInv'
<1> SUFFICES ASSUME IInv, [Next]_vars PROVE IInv'
  OBVIOUS
<1>1. waited \subseteq Tasks /\ TaskTypeOK
  BY DEF IInv, RateTypeOK
<1>2. ASSUME NEW t \in Tasks, Common(t), UNCHANGED Others
      PROVE  IInv'
  <2>1. Surroundings(t) \/ PollStep(t)
    BY <1>2 DEF Common, Surroundings, PollStep
  <2>2. TaskInv' /\ Admitted' = Admitted
    BY <1>1, <1>2, <2>1, SurroundingsPreserve, PollPreserves, CommonAdmits DEF IInv
  <2> QED
    BY <1>1, <1>2, <2>2, BucketUnchanged DEF Others
<1>3. ASSUME NEW t \in Tasks, SleepFires(t)
      PROVE  IInv'
  <2>1. TaskInv' /\ Admitted' = Admitted
    BY <1>1, <1>3, SurroundingsPreserve, CommonAdmits DEF SleepFires, Surroundings, IInv
  <2> QED
    BY <1>1, <1>3, <2>1, BucketUnchanged DEF SleepFires
<1>4. CASE Next
  BY <1>2, <1>3, <1>4, InvTick, InvGated, InvPolled DEF Next, GoesOn, Common
<1>5. CASE UNCHANGED vars
  <2>1. TaskInv' /\ Admitted' = Admitted
    BY <1>5
    DEF vars, taskVars, IInv, TaskInv, TaskTypeOK, NoLostWakeup, TaskPlaces, Admitted
  <2> QED
    BY <1>1, <1>5, <2>1, BucketUnchanged DEF vars
<1> QED
  BY <1>4, <1>5

\* Every reachable state satisfies the inductive invariant.
THEOREM Invariant == Spec => []IInv
  BY InvInit, InvStep, PTL DEF Spec

----------------------------------------------------------------------------

\* Every variable keeps its type: the bucket is neither overdrawn nor overfull
\* (mode_ratelimiter.rs:102-104, runtime_handle.rs:109-151).
THEOREM TypeCorrect == Spec => []RateTypeOK
<1>1. IInv => RateTypeOK
  BY DEF IInv
<1> QED
  BY <1>1, Invariant, PTL

\* No task that waits for tokens is forgotten (mode_ratelimiter.rs:88-117).
THEOREM WakeupSafety == Spec => []NoLostWakeup
<1>1. IInv => NoLostWakeup
  BY DEF IInv, TaskInv
<1> QED
  BY <1>1, Invariant, PTL

\* A Backoff is waited for in this mode too: nobody polls the wrapped future of a
\* task whose state is Backoff (mode_ratelimiter.rs:88-97).
THEOREM BackoffRespected == Spec => []NoPollDuringBackoff
<1>1. IInv => NoPollDuringBackoff
  BY NoPollLemma DEF IInv
<1> QED
  BY <1>1, Invariant, PTL

\* However many tasks share a bucket and however they interleave, the polls of
\* one interval exceed max_tokens at most by the polls whose tokens were taken
\* before it began (mode_ratelimiter.rs:102-119, runtime_handle.rs:109-151).
THEOREM PollBound == Spec => []PollsAreBounded
<1>1. IInv => PollsAreBounded
  <2> SUFFICES ASSUME IInv PROVE PollsAreBounded
    OBVIOUS
  <2>1. Refilled \in Nat /\ polls \in Nat /\ MaxTokens \in Nat
    BY RefilledType, RateAssumption DEF IInv, RateTypeOK
  <2>2. Cardinality(Admitted) \in Nat /\ Cardinality(late) \in Nat
    BY FS_CardinalityType DEF IInv, BucketInv
  <2>3. CASE Limited
    BY <2>1, <2>2, <2>3 DEF IInv, BucketInv, PollsAreBounded
  <2>4. CASE ~Limited
    BY <2>1, <2>2, <2>4 DEF IInv, BucketInv, PollsAreBounded
  <2> QED
    BY <2>3, <2>4
<1> QED
  BY <1>1, Invariant, PTL

\* The rate-limiter mode implements ThrottledFuture (mode_ratelimiter.rs:78-129).
THEOREM Refinement == Spec => ImplementsThrottledFuture
<1>1. Init => Throttled!Init
  BY ThrottledInit DEF Init
<1>2. IInv /\ [Next]_vars => [Throttled!Next]_(Throttled!vars)
  <2> SUFFICES ASSUME IInv, [Next]_vars
               PROVE  [Throttled!Next]_(Throttled!vars)
    OBVIOUS
  <2>1. TaskInv
    BY DEF IInv
  <2>2. ASSUME NEW t \in Tasks, GoesOn(t) \/ SleepFires(t)
                                \/ InnerEvent(t) \/ StaleWake(t)
        PROVE  [Throttled!Next]_(Throttled!vars)
    <3>1. Surroundings(t) \/ PollStep(t)
      BY <2>2 DEF GoesOn, SleepFires, TakeToken, NoToken, Unlimited, Polled,
                  Surroundings, PollStep
    <3> QED
      BY <2>1, <3>1, SurroundingsAbstract, PollAbstract
  <2>3. CASE Tick \/ UNCHANGED vars
    BY <2>3 DEF Tick, vars, taskVars, Throttled!vars, Gate
  <2> QED
    BY <2>2, <2>3 DEF Next
<1> QED
  BY <1>1, <1>2, Invariant, PTL
  DEF Spec, ImplementsThrottledFuture, Throttled!Spec
=============================================================================
