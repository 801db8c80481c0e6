------------------------- MODULE RepeatedTaskProofs -------------------------
(***************************************************************************)
(* Proofs of the safety properties of RepeatedTask, for any set of         *)
(* callers, any intervals and any initial delays.                          *)
(***************************************************************************)
EXTENDS RepeatedTaskProps, TLAPS

(***************************************************************************)
(* The inductive invariant.  `inner' is only touched by the caller that    *)
(* holds the lock, so what the fields say is a function of the holder's    *)
(* place in the code: MutexInv ties the two, StartInv and StopInv say what *)
(* a caller has established by the time it is somewhere, and LifeInv ties  *)
(* the fields to the task and its token.                                   *)
(***************************************************************************)
MutexInv ==
    \A c \in Callers :
        /\ pc[c] \in Critical <=> mutex = c
        /\ pc[c] # "idle" => c \in refs

StartInv ==
    \A c \in Callers :
        /\ pc[c] \in {"start_handle", "start_flag"} => task # "unspawned" /\ ~cancelled
        /\ pc[c] = "start_handle" => ~handle
        /\ pc[c] = "start_flag" => handle

StopInv ==
    /\ \A c \in Callers :
        /\ pc[c] \in {"stop_flag", "stop_take"} => handle /\ cancelled
        /\ pc[c] = "stop_take" => ~started
        /\ pc[c] = "stop_join" => ~handle /\ cancelled
    /\ \A c, d \in Callers : pc[c] = "stop_join" /\ pc[d] = "stop_join" => c = d

LifeInv ==
    /\ taskFn => task = "unspawned"
    /\ task = "unspawned" => ~handle /\ ~cancelled /\ ~started
    /\ task = "unspawned" /\ refs # {} => taskFn
    /\ handle => refs # {}
    /\ started /\ refs # {} => handle
    /\ task # "unspawned" /\ ~handle
         => cancelled \/ \E c \in Callers : pc[c] = "start_handle"

IInv == TypeOK /\ MutexInv /\ StartInv /\ StopInv /\ LifeInv

----------------------------------------------------------------------------

(***************************************************************************)
(* IInv is inductive.                                                      *)
(***************************************************************************)

\* The object as new() leaves it satisfies the invariant.
LEMMA InvInit == Init => IInv
<1> SUFFICES ASSUME Init PROVE IInv
  OBVIOUS
<1>1. TypeOK
  BY ConstantsAssumption DEF Init, TypeOK, Results
<1>2. MutexInv /\ StartInv /\ StopInv
  BY ConstantsAssumption
  DEF Init, MutexInv, StartInv, StopInv, Critical, Starting, Stopping
<1>3. LifeInv
  BY DEF Init, LifeInv
<1> QED
  BY <1>1, <1>2, <1>3 DEF IInv

\* The steps of start() preserve the invariant (repeated_task.rs:104-142).
LEMMA InvStart ==
  ASSUME IInv, NEW c \in Callers, Start(c)
  PROVE  IInv'
<1> USE ConstantsAssumption
    DEF IInv, TypeOK, MutexInv, StartInv, StopInv, LifeInv, Critical, Starting,
        Stopping, Results, Live, object, background, Goto
<1>1. CASE StartLock(c)
  BY <1>1 DEF StartLock, Enter
<1>2. CASE StartRejected(c)
  BY <1>2 DEF StartRejected, Return
<1>3. CASE StartSpawn(c)
  \* The function was there, so nothing was spawned, stored or cancelled yet;
  \* the task without a handle is the one this start() is about to store.
  <2>1. task = "unspawned" /\ ~handle /\ ~cancelled /\ ~started
    BY <1>3 DEF StartSpawn
  <2>2. pc'[c] = "start_handle"
    BY <1>3 DEF StartSpawn
  <2> QED
    BY <1>3, <2>1, <2>2 DEF StartSpawn
<1>4. CASE StartHandle(c)
  \* Nobody waits in stop(): no stop_join is possible before a cancel.
  <2>1. \A d \in Callers : pc[d] # "stop_join"
    BY <1>4 DEF StartHandle
  <2> QED
    BY <1>4, <2>1 DEF StartHandle
<1>5. CASE StartFlag(c)
  BY <1>5 DEF StartFlag, Return
<1> QED
  BY <1>1, <1>2, <1>3, <1>4, <1>5 DEF Start

\* The steps of stop() preserve the invariant (repeated_task.rs:144-165).
LEMMA InvStop ==
  ASSUME IInv, NEW c \in Callers, Stop(c)
  PROVE  IInv'
<1> USE ConstantsAssumption
    DEF IInv, TypeOK, MutexInv, StartInv, StopInv, LifeInv, Critical, Starting,
        Stopping, Results, Ended, object, background, Goto
<1>1. CASE StopLock(c)
  BY <1>1 DEF StopLock, Enter
<1>2. CASE StopNothing(c)
  BY <1>2 DEF StopNothing, Return
<1>3. CASE StopCancel(c)
  \* The lock keeps every start() out of the window between spawn and flag.
  <2>1. \A d \in Callers : pc[d] \notin {"start_handle", "start_flag"}
    BY <1>3 DEF StopCancel
  <2> QED
    BY <1>3, <2>1 DEF StopCancel
<1>4. CASE StopFlag(c)
  BY <1>4 DEF StopFlag
<1>5. CASE StopTake(c)
  \* The handle this stop() takes is the only one: nobody waits on another.
  <2>1. handle /\ cancelled /\ ~started
    BY <1>5 DEF StopTake
  <2>2. \A d \in Callers : pc[d] # "stop_join"
    BY <2>1
  <2> QED
    BY <1>5, <2>1, <2>2 DEF StopTake
<1>6. CASE StopJoined(c)
  BY <1>6 DEF StopJoined, Return
<1>7. CASE StopGivenUp(c)
  BY <1>7 DEF StopGivenUp, Return
<1> QED
  BY <1>1, <1>2, <1>3, <1>4, <1>5, <1>6, <1>7 DEF Stop

\* So does letting go of a reference, Drop included (repeated_task.rs:67-75).
LEMMA InvRelease ==
  ASSUME IInv, NEW c \in Callers, Release(c)
  PROVE  IInv'
<1> USE ConstantsAssumption
    DEF IInv, TypeOK, MutexInv, StartInv, StopInv, LifeInv, Critical, Starting,
        Stopping, Release, background
<1>1. CASE refs \ {c} = {}
  \* The last reference: every caller is idle, and the fields are dropped.
  <2>1. \A d \in Callers : pc[d] = "idle"
    BY <1>1
  <2> QED
    BY <1>1, <2>1
<1>2. CASE refs \ {c} # {}
  <2>1. UNCHANGED <<handle, taskFn, cancelled>>
    BY <1>2
  <2> QED
    BY <1>2, <2>1
<1> QED
  BY <1>1, <1>2

\* The loop and the runtime only move the task from one live or ended place to
\* another (repeated_task.rs:117-132).
LEMMA InvBackground ==
  ASSUME IInv, Loop \/ RuntimeShutdown \/ Aborted
  PROVE  IInv'
<1> USE ConstantsAssumption
    DEF IInv, TypeOK, MutexInv, StartInv, StopInv, LifeInv, Critical, Starting,
        Stopping, Results, Live, Ended, object, background, Goto
<1>1. CASE Loop
  BY <1>1 DEF Loop, LoopTop, SleepElapses, SeesCancel, CallReturns, CallPanics,
              TaskGoes
<1>2. CASE RuntimeShutdown
  BY <1>2 DEF RuntimeShutdown
<1>3. CASE Aborted
  BY <1>3 DEF Aborted, TaskGoes
<1> QED
  BY <1>1, <1>2, <1>3

\* No step leaves the invariant.
LEMMA InvStep == IInv /\ [Next]_vars => IInv'
<1> SUFFICES ASSUME IInv, [Next]_vars PROVE IInv'
  OBVIOUS
<1>1. ASSUME NEW c \in Callers, Start(c) \/ Stop(c) \/ Release(c)
      PROVE  IInv'
  BY <1>1, InvStart, InvStop, InvRelease
<1>2. CASE Loop \/ RuntimeShutdown \/ Aborted
  BY <1>2, InvBackground
<1>3. CASE UNCHANGED vars
  BY <1>3 DEF vars, object, background, IInv, TypeOK, MutexInv, StartInv, StopInv, LifeInv
<1> QED
  BY <1>1, <1>2, <1>3 DEF Next

\* Every reachable state of a RepeatedTask satisfies the inductive invariant.
THEOREM Invariant == Spec => []IInv
  BY InvInit, InvStep, PTL DEF Spec

----------------------------------------------------------------------------
(***************************************************************************)
(* The safety properties follow from it.                                   *)
(***************************************************************************)

\* Every variable keeps its type (repeated_task.rs:38-53).
THEOREM TypeCorrect == Spec => []TypeOK
<1>1. IInv => TypeOK
  BY DEF IInv
<1> QED
  BY <1>1, Invariant, PTL

\* started() is never true of a task whose handle is gone, for any number of
\* callers (repeated_task.rs:39, 133-134, 152-155).
THEOREM StartedIsBacked == Spec => []StartedHasHandle
<1>1. IInv => StartedHasHandle
  BY DEF IInv, LifeInv, StartedHasHandle
<1> QED
  BY <1>1, Invariant, PTL

\* What a stale flag needs besides: a loop that returned was cancelled, and the
\* flag of a cancelled task is up only while its stop() is about to lower it.
StaleInv ==
    /\ task = "returned" => cancelled
    /\ cancelled /\ started /\ refs # {} => \E c \in Callers : pc[c] = "stop_flag"

\* StaleInv is inductive relative to IInv.
LEMMA StaleStep ==
  ASSUME IInv, StaleInv, [Next]_vars
  PROVE  StaleInv'
<1> USE DEF IInv, TypeOK, StaleInv, Goto, object, background, Live
<1>1. ASSUME NEW c \in Callers, Start(c)
      PROVE  StaleInv'
  <2>1. \A d \in Callers : pc[d] = "stop_flag" => pc'[d] = "stop_flag"
    BY <1>1 DEF Start, StartLock, Enter, StartRejected, StartSpawn,
                StartHandle, StartFlag, Return
  <2>2. CASE StartFlag(c)
    BY <2>2 DEF StartFlag, Return, StartInv
  <2>3. CASE ~StartFlag(c)
    BY <1>1, <2>1, <2>3 DEF Start, StartLock, Enter, StartRejected,
                            StartSpawn, StartHandle
  <2> QED
    BY <2>2, <2>3
<1>2. ASSUME NEW c \in Callers, Stop(c)
      PROVE  StaleInv'
  <2>1. CASE StopCancel(c)
    BY <2>1 DEF StopCancel
  <2>2. CASE StopFlag(c)
    BY <2>2 DEF StopFlag
  <2>3. CASE ~StopCancel(c) /\ ~StopFlag(c)
    <3>1. \A d \in Callers : pc[d] = "stop_flag" => pc'[d] = "stop_flag"
      BY <1>2, <2>3 DEF Stop, StopLock, Enter, StopNothing, StopTake,
                        StopJoined, StopGivenUp, Return
    <3> QED
      BY <1>2, <2>3, <3>1 DEF Stop, StopLock, Enter, StopNothing, StopTake,
                              StopJoined, StopGivenUp
  <2> QED
    BY <2>1, <2>2, <2>3
<1>3. ASSUME NEW c \in Callers, Release(c)
      PROVE  StaleInv'
  BY <1>3 DEF Release
<1>4. CASE Loop \/ RuntimeShutdown \/ Aborted
  BY <1>4 DEF Loop, LoopTop, SleepElapses, SeesCancel, CallReturns, CallPanics,
              TaskGoes, RuntimeShutdown, Aborted
<1>5. CASE UNCHANGED vars
  BY <1>5 DEF vars
<1> QED
  BY <1>1, <1>2, <1>3, <1>4, <1>5 DEF Next

\* started() goes stale only after a crash (repeated_task.rs:117-134, 152-153).
THEOREM StaleAfterCrash == Spec => []StaleOnlyAfterACrash
<1>1. Init => StaleInv
  BY DEF Init, StaleInv
<1>2. IInv /\ StaleInv /\ [Next]_vars => StaleInv'
  BY StaleStep
<1>3. IInv /\ StaleInv => StaleOnlyAfterACrash
  \* The flag's task was spawned; had its loop returned, a stop() would be
  \* inside the lock.
  <2> SUFFICES ASSUME IInv, StaleInv, started, mutex = NoCaller, refs # {},
                      task = "returned"
               PROVE  FALSE
    BY DEF IInv, TypeOK, LifeInv, StaleOnlyAfterACrash, Ended
  <2>1. PICK c \in Callers : pc[c] = "stop_flag"
    BY DEF StaleInv
  <2>2. mutex = c
    BY <2>1 DEF IInv, MutexInv, Critical, Stopping
  <2> QED
    BY <2>2, ConstantsAssumption
<1> QED
  BY <1>1, <1>2, <1>3, Invariant, PTL DEF Spec

\* Neither unwrap() panics (repeated_task.rs:112-113 and 154-155).
THEOREM UnwrapSafety == Spec => []UnwrapsAreSafe
<1>1. IInv => UnwrapsAreSafe
  BY DEF IInv, StartInv, StopInv, LifeInv, UnwrapsAreSafe
<1> QED
  BY <1>1, Invariant, PTL

\* At most one stop() ever waits for the task (repeated_task.rs:145-156).
THEOREM HandleUniqueness == Spec => []JoinHandleIsUnique
<1>1. IInv => JoinHandleIsUnique
  BY DEF IInv, StopInv, JoinHandleIsUnique
<1> QED
  BY <1>1, Invariant, PTL

\* What a stop() awaits is a task that was spawned and told to end, and it holds
\* the lock no more: no await of this object keeps other callers out, and none is
\* for a task that nobody cancelled (repeated_task.rs:145-160).
StopsWaitOutside ==
    \A c \in Callers : pc[c] = "stop_join" =>
        task \in Live \cup Ended /\ cancelled /\ mutex # c

THEOREM StopsWait == Spec => []StopsWaitOutside
<1>1. IInv => StopsWaitOutside
  <2> SUFFICES ASSUME IInv, NEW c \in Callers, pc[c] = "stop_join"
               PROVE  task \in Live \cup Ended /\ cancelled /\ mutex # c
    BY DEF StopsWaitOutside
  <2>1. cancelled
    BY DEF IInv, StopInv
  <2>2. task # "unspawned"
    BY <2>1 DEF IInv, LifeInv
  <2>3. task \in Live \cup Ended
    BY <2>2 DEF IInv, TypeOK
  <2>4. mutex # c
    BY DEF IInv, MutexInv, Critical, Starting, Stopping
  <2> QED
    BY <2>1, <2>3, <2>4
<1> QED
  BY <1>1, Invariant, PTL

\* A live task without a handle has been cancelled (repeated_task.rs:67-75).
THEOREM NoOrphanTask == Spec => []NoOrphan
<1>1. IInv => NoOrphan
  BY DEF IInv, LifeInv, NoOrphan, Live
<1> QED
  BY <1>1, Invariant, PTL

\* The task function is spawned at most once (repeated_task.rs:105-113).
THEOREM SpawnOnce == Spec => SpawnedOnce
<1>1. IInv /\ [Next]_vars => [task' = "spawned" => task \in {"unspawned", "spawned"}]_vars
  BY DEF IInv, LifeInv, Next, vars, Start, Stop, StartLock, StopLock, Enter,
         StartRejected, StartSpawn, StartHandle, StartFlag, StopNothing,
         StopCancel, StopFlag, StopTake, StopJoined, StopGivenUp, Return,
         Release, Loop, LoopTop, SleepElapses, SeesCancel, CallReturns,
         CallPanics, TaskGoes, RuntimeShutdown, Aborted, object, background
<1> QED
  BY <1>1, Invariant, PTL DEF Spec, SpawnedOnce

\* No start() raises the flag of a cancelled task (repeated_task.rs:134, 153).
THEOREM StartedDown == Spec => StartedStaysDown
<1>1. IInv /\ [Next]_vars => [cancelled /\ started' => started]_vars
  BY DEF IInv, StartInv, Next, vars, Start, Stop, StartLock, StopLock, Enter,
         StartRejected, StartSpawn, StartHandle, StartFlag, StopNothing,
         StopCancel, StopFlag, StopTake, StopJoined, StopGivenUp, Return, Goto,
         Release, Loop, LoopTop, SleepElapses, SeesCancel, CallReturns,
         CallPanics, TaskGoes, RuntimeShutdown, Aborted, object, background
<1> QED
  BY <1>1, Invariant, PTL DEF Spec, StartedStaysDown

\* Whoever gets Ok from stop() leaves no live task that was not told to end
\* (repeated_task.rs:147-164).
THEOREM StopOk == Spec => StopOkMeansToldToEnd
<1> DEFINE Told(c) ==
      (/\ pc[c] \in Stopping \cup {"stop_join"}
       /\ pc'[c] = "idle"
       /\ ret'[c] = "ok")
      => (task' \in Live => cancelled')
<1>1. IInv /\ [Next]_vars => [\A c \in Callers : Told(c)]_vars
  <2> SUFFICES ASSUME IInv, Next, NEW c \in Callers,
                      pc[c] \in Stopping \cup {"stop_join"}, pc'[c] = "idle",
                      task' \in Live
               PROVE  cancelled'
    BY DEF vars
  <2> USE DEF IInv, TypeOK, Live
  <2>1. CASE pc[c] = "stop_join"
    \* Only the task's cancellation led here, and nothing undoes it.
    <3>1. cancelled
      BY <2>1 DEF StopInv
    <3>2. cancelled => cancelled'
      BY DEF Next, Start, Stop, StartLock, StopLock, Enter, StartRejected,
             StartSpawn, StartHandle, StartFlag, StopNothing, StopCancel,
             StopFlag, StopTake, StopJoined, StopGivenUp, Release, Loop,
             LoopTop, SleepElapses, SeesCancel, CallReturns, CallPanics,
             TaskGoes, RuntimeShutdown, Aborted
    <3> QED
      BY <3>1, <3>2
  <2>2. CASE pc[c] \in Stopping
    \* Only StopNothing goes from inside the lock to idle, without a handle;
    \* c holds the lock, so no start() is between spawn and handle.
    <3>1. StopNothing(c)
      BY <2>2
      DEF Next, Start, Stop, StartLock, StopLock, Enter, StartRejected,
          StartSpawn, StartHandle, StartFlag, StopNothing, StopCancel,
          StopFlag, StopTake, StopJoined, StopGivenUp, Return, Goto, Release,
          Loop, LoopTop, SleepElapses, SeesCancel, CallReturns, CallPanics,
          TaskGoes, RuntimeShutdown, Aborted, Stopping
    <3>2. \A d \in Callers : pc[d] # "start_handle"
      BY <3>1 DEF StopNothing, Return, Goto, MutexInv, Critical, Starting, Stopping
    <3> QED
      BY <3>1, <3>2 DEF StopNothing, Return, Goto, LifeInv, background
  <2> QED
    BY <2>1, <2>2
<1> QED
  BY <1>1, Invariant, PTL DEF Spec, StopOkMeansToldToEnd

----------------------------------------------------------------------------
(***************************************************************************)
(* RepeatedTask implements the abstract life cycle: each step is a step of *)
(* OneShotTask or leaves its state alone.                                  *)
(***************************************************************************)

LEMMA AbstractInit == Init => Abstract!Init
  BY DEF Init, Abstract!Init, Phase, Owner, Live, Ended

\* start() launches the task and then keeps its outcome.
LEMMA AbstractStart ==
  ASSUME IInv, NEW c \in Callers, Start(c)
  PROVE  [Abstract!Next]_(Abstract!vars)
<1> USE DEF IInv, TypeOK, Abstract!vars, Abstract!Next, Phase, Owner, Live,
            Ended, Goto, object, background
<1>1. CASE StartLock(c) \/ StartRejected(c) \/ StartFlag(c)
  <2>1. UNCHANGED <<task, cancelled, handle>>
    BY <1>1 DEF StartLock, Enter, StartRejected, StartFlag
  <2>2. \A d \in Callers : pc'[d] = "stop_join" <=> pc[d] = "stop_join"
    BY <1>1 DEF StartLock, Enter, StartRejected, StartFlag, Return
  <2> QED
    BY <2>1, <2>2
<1>2. CASE StartSpawn(c)
  <2>1. task = "unspawned" /\ ~cancelled /\ ~handle
    BY <1>2 DEF StartSpawn, LifeInv
  <2>2. \A d \in Callers : pc[d] # "stop_join"
    BY <2>1 DEF StopInv
  <2>3. \A d \in Callers : pc'[d] # "stop_join"
    BY <1>2, <2>2 DEF StartSpawn
  <2>4. Abstract!Launch
    BY <1>2, <2>1, <2>2, <2>3 DEF StartSpawn, Abstract!Launch
  <2> QED
    BY <2>4
<1>3. CASE StartHandle(c)
  <2>1. task # "unspawned" /\ ~cancelled /\ ~handle
    BY <1>3 DEF StartHandle, StartInv
  <2>2. \A d \in Callers : pc[d] # "stop_join"
    BY <2>1 DEF StopInv
  <2>3. Abstract!Keep
    BY <1>3, <2>1, <2>2 DEF StartHandle, Abstract!Keep
  <2> QED
    BY <2>3
<1> QED
  BY <1>1, <1>2, <1>3 DEF Start

\* stop() asks the task to end, claims its outcome, and lets go of it.
LEMMA AbstractStop ==
  ASSUME IInv, NEW c \in Callers, Stop(c)
  PROVE  [Abstract!Next]_(Abstract!vars)
<1> USE DEF IInv, TypeOK, Abstract!vars, Abstract!Next, Phase, Owner, Live,
            Ended, Goto, object, background
<1>1. CASE StopLock(c) \/ StopNothing(c) \/ StopFlag(c)
  <2>1. UNCHANGED <<task, cancelled, handle>>
    BY <1>1 DEF StopLock, Enter, StopNothing, StopFlag
  <2>2. \A d \in Callers : pc'[d] = "stop_join" <=> pc[d] = "stop_join"
    BY <1>1 DEF StopLock, Enter, StopNothing, StopFlag, Return
  <2> QED
    BY <2>1, <2>2
<1>2. CASE StopCancel(c)
  <2>1. handle /\ handle' /\ task' = task /\ cancelled'
    BY <1>2 DEF StopCancel
  <2>2. task # "unspawned"
    BY <2>1 DEF LifeInv
  <2>3. task \in Live /\ ~cancelled => Abstract!AskToStop
    BY <2>1 DEF Abstract!AskToStop
  <2> QED
    BY <2>1, <2>2, <2>3
<1>3. CASE StopTake(c)
  <2>1. handle /\ ~handle' /\ UNCHANGED <<task, cancelled>> /\ cancelled
    BY <1>3 DEF StopTake, StopInv
  <2>2. task # "unspawned"
    BY <2>1 DEF LifeInv
  <2>3. pc'[c] = "stop_join"
    BY <1>3 DEF StopTake
  <2>4. Abstract!Claim
    BY <2>1, <2>2, <2>3 DEF Abstract!Claim
  <2> QED
    BY <2>4
<1>4. CASE StopJoined(c) \/ StopGivenUp(c)
  <2>1. /\ UNCHANGED <<task, cancelled, handle>>
        /\ pc[c] = "stop_join"
        /\ pc' = [pc EXCEPT ![c] = "idle"]
    BY <1>4 DEF StopJoined, StopGivenUp, Return
  <2>2. ~handle /\ cancelled /\ \A d \in Callers : pc[d] = "stop_join" => d = c
    BY <2>1 DEF StopInv
  <2>3. \A d \in Callers : pc'[d] # "stop_join"
    BY <2>1, <2>2
  <2>4. Abstract!LetGo
    BY <2>1, <2>2, <2>3 DEF Abstract!LetGo
  <2> QED
    BY <2>4
<1> QED
  BY <1>1, <1>2, <1>3, <1>4 DEF Stop

\* Drop discards an outcome the object still owns.
LEMMA AbstractRelease ==
  ASSUME IInv, NEW c \in Callers, Release(c)
  PROVE  [Abstract!Next]_(Abstract!vars)
<1> USE DEF IInv, TypeOK, Abstract!vars, Abstract!Next, Phase, Owner, Live,
            Ended, Release, background
<1>1. CASE handle /\ refs' = {}
  <2>1. ~handle' /\ cancelled' /\ task' = task /\ task # "unspawned"
    BY <1>1 DEF LifeInv
  <2>2. \A d \in Callers : pc'[d] # "stop_join"
    BY <1>1 DEF MutexInv
  <2>3. Abstract!Discard
    BY <1>1, <2>1, <2>2 DEF Abstract!Discard
  <2> QED
    BY <2>3
<1>2. CASE ~(handle /\ refs' = {})
  <2>1. UNCHANGED <<task, cancelled, handle, pc>>
    BY <1>2
  <2> QED
    BY <2>1
<1> QED
  BY <1>1, <1>2

\* The loop and the runtime end the task, or stutter.
LEMMA AbstractBackground ==
  ASSUME IInv, Loop \/ RuntimeShutdown \/ Aborted
  PROVE  [Abstract!Next]_(Abstract!vars)
<1> USE DEF TypeOK, Abstract!vars, Phase, Owner, Live, Ended, object, background
<1>1. UNCHANGED <<cancelled, handle, pc>>
  BY DEF Loop, LoopTop, SleepElapses, SeesCancel, CallReturns, CallPanics,
         TaskGoes, RuntimeShutdown, Aborted
<1>2. \/ task' = task
      \/ task \in Live /\ task' \in Live
      \/ task \in Live /\ task' \in Ended
  BY DEF Loop, LoopTop, SleepElapses, SeesCancel, CallReturns, CallPanics,
         TaskGoes, RuntimeShutdown, Aborted
<1>3. CASE task' = task \/ (task \in Live /\ task' \in Live)
  BY <1>1, <1>3
<1>4. CASE task \in Live /\ task' \in Ended
  BY <1>1, <1>4 DEF Abstract!Next, Abstract!End
<1> QED
  BY <1>2, <1>3, <1>4

\* RepeatedTask, with its lock, its token and its loop, is one of the tasks
\* OneShotTask describes (repeated_task.rs:38-165).
THEOREM Refinement == Spec => ImplementsOneShotTask
<1>1. IInv /\ [Next]_vars => [Abstract!Next]_(Abstract!vars)
  <2> SUFFICES ASSUME IInv, [Next]_vars
               PROVE  [Abstract!Next]_(Abstract!vars)
    OBVIOUS
  <2>1. ASSUME NEW c \in Callers, Start(c) \/ Stop(c) \/ Release(c)
        PROVE  [Abstract!Next]_(Abstract!vars)
    BY <2>1, AbstractStart, AbstractStop, AbstractRelease
  <2>2. CASE Loop \/ RuntimeShutdown \/ Aborted
    BY <2>2, AbstractBackground
  <2>3. CASE UNCHANGED vars
    BY <2>3 DEF vars, object, background, Abstract!vars, Phase, Owner
  <2> QED
    BY <2>1, <2>2, <2>3 DEF Next
<1> QED
  BY <1>1, AbstractInit, Invariant, PTL
  DEF Spec, ImplementsOneShotTask, Abstract!Spec
=============================================================================
