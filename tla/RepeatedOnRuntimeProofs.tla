---------------------- MODULE RepeatedOnRuntimeProofs ----------------------
(***************************************************************************)
(* Proofs about a RepeatedTask on its Runtime, for any set of callers, any *)
(* intervals and any initial delays: the composition is a RepeatedTask     *)
(* still, and the runtime keeps to OwnedPool.                              *)
(***************************************************************************)
EXTENDS RepeatedOnRuntime, RepeatedTaskProofs

(***************************************************************************)
(* What the runtime adds to the invariant of RepeatedTask: only a runtime  *)
(* that is up has owners, only one that closed drops its tasks, and it is  *)
(* not down while one of them lives.                                       *)
(***************************************************************************)
PoolInv ==
    /\ owners # {} => phase = "up"
    /\ ~runtimeUp => phase \in {"closing", "down"}
    /\ phase = "down" => task \notin Live

RInv == IInv /\ PoolTypeOK /\ PoolInv

----------------------------------------------------------------------------
(* The composition is a RepeatedTask                                       *)

\* Every step of the composition is one of RepeatedTask or leaves it alone.
LEMMA StepIsTaskStep == [RNext]_all => [Next]_vars
<1> SUFFICES ASSUME [RNext]_all PROVE [Next]_vars
  OBVIOUS
<1>1. ASSUME NEW c \in Callers, RStart(c) \/ RStop(c) \/ RRelease(c)
      PROVE  Next
  BY <1>1 DEF RStart, RStop, RRelease, Next
<1>2. ASSUME NEW c \in Callers,
             BuildRuntime(c) \/ CloneRuntime(c) \/ DropRuntime(c)
      PROVE  UNCHANGED vars
  BY <1>2 DEF BuildRuntime, CloneRuntime, DropRuntime
<1>3. CASE Closes \/ GoesDown
  BY <1>3 DEF Closes, GoesDown, Next
<1>4. CASE RLoop
  BY <1>4 DEF RLoop, Next, Loop
<1>5. CASE UNCHANGED all
  BY <1>5 DEF all
<1> QED
  BY <1>1, <1>2, <1>3, <1>4, <1>5 DEF RNext

\* Whatever is proved of RepeatedTask holds of a task whose function calls it,
\* and whose runtime is owned by those who use it (repeated_task.rs:67-165).
THEOREM IsRepeatedTask == RSpec => Spec
<1>1. RInit => Init
  BY DEF RInit
<1> QED
  BY <1>1, StepIsTaskStep, PTL DEF RSpec, Spec

\* In particular no task is left behind that nobody can stop, even if it was its
\* own function that gave up a stop() or let go of the object last
\* (repeated_task.rs:67-75 and 144-156).
THEOREM NoOrphanOnRuntime == RSpec => []NoOrphan
  BY IsRepeatedTask, NoOrphanTask, PTL

----------------------------------------------------------------------------
(* The runtime                                                             *)

LEMMA RInvInit == RInit => RInv
<1> SUFFICES ASSUME RInit PROVE RInv
  OBVIOUS
<1>1. IInv
  BY InvInit DEF RInit
<1>2. PoolTypeOK
  BY <1>1 DEF RInit, IInv, PoolTypeOK
<1>3. PoolInv
  BY DEF RInit, Init, PoolInv
<1> QED
  BY <1>1, <1>2, <1>3 DEF RInv

\* Clones come and go, and the runtime closes and goes down.
LEMMA RInvRuntime ==
  ASSUME RInv, IInv',
         (\E c \in Callers : BuildRuntime(c) \/ CloneRuntime(c) \/ DropRuntime(c))
         \/ Closes \/ GoesDown
  PROVE  PoolTypeOK' /\ PoolInv'
<1> USE DEF RInv, PoolTypeOK, PoolInv, IInv
<1>1. ASSUME NEW c \in Callers,
             BuildRuntime(c) \/ CloneRuntime(c) \/ DropRuntime(c)
      PROVE  PoolTypeOK' /\ PoolInv'
  BY <1>1 DEF BuildRuntime, CloneRuntime, DropRuntime, vars, background
<1>2. CASE Closes
  BY <1>2 DEF Closes, RuntimeShutdown, vars, background
<1>3. CASE GoesDown
  BY <1>3 DEF GoesDown, vars, background
<1> QED
  BY <1>1, <1>2, <1>3

\* Only start() makes a live task, and whoever calls it holds the runtime up.
LEMMA RInvTask ==
  ASSUME RInv, IInv',
         (\E c \in Callers : RStart(c) \/ RStop(c) \/ RRelease(c)) \/ RLoop
  PROVE  PoolTypeOK' /\ PoolInv'
<1> USE DEF RInv, PoolTypeOK, PoolInv, IInv, pool
<1>1. ASSUME NEW c \in Callers, RStart(c)
      PROVE  PoolTypeOK' /\ PoolInv'
  <2>1. phase = "up" /\ phase' = phase /\ owners' = owners
    BY <1>1 DEF RStart
  <2>2. runtimeUp' = runtimeUp
    BY <1>1 DEF RStart, Start, StartLock, Enter, StartRejected, StartSpawn,
                StartHandle, StartFlag
  <2> QED
    BY <2>1, <2>2
<1>2. ASSUME NEW c \in Callers, RStop(c) \/ RRelease(c)
      PROVE  PoolTypeOK' /\ PoolInv'
  <2>1. task' = task /\ runtimeUp' = runtimeUp
    BY <1>2 DEF RStop, RRelease, Release, Stop, StopLock, Enter, StopNothing,
                StopCancel, StopFlag, StopTake, StopJoined, StopGivenUp,
                background
  <2>2. phase' = phase /\ owners' \subseteq owners
    BY <1>2 DEF RStop, RRelease
  <2> QED
    BY <2>1, <2>2
<1>3. CASE RLoop
  <2>1. task \in Live /\ runtimeUp' = runtimeUp
    BY <1>3 DEF RLoop, LoopTop, SleepElapses, SeesCancel, CallReturns,
                CallPanics, Aborted, TaskGoes, Live
  <2>2. phase' = phase /\ owners' \subseteq owners
    BY <1>3 DEF RLoop, FunctionDropped
  <2> QED
    BY <2>1, <2>2
<1> QED
  BY <1>1, <1>2, <1>3

LEMMA RInvStep == RInv /\ [RNext]_all => RInv'
<1> SUFFICES ASSUME RInv, [RNext]_all PROVE RInv'
  OBVIOUS
<1>1. IInv'
  BY InvStep, StepIsTaskStep DEF RInv
<1>2. CASE RNext
  BY <1>1, <1>2, RInvRuntime, RInvTask DEF RNext, RInv
<1>3. CASE UNCHANGED all
  BY <1>1, <1>3 DEF all, pool, vars, background, RInv, IInv, PoolTypeOK, PoolInv
<1> QED
  BY <1>2, <1>3

\* Every reachable state of the composition satisfies the inductive invariant.
THEOREM RInvariant == RSpec => []RInv
  BY RInvInit, RInvStep, PTL DEF RSpec

----------------------------------------------------------------------------
(***************************************************************************)
(* Each step is one of OwnedPool, with the function as its only job, or    *)
(* changes nothing in it.                                                  *)
(***************************************************************************)

JobMap == [j \in {Fn} |-> PhaseOfJob]

LEMMA OwnersOfPool == Pool!Owners = Callers
  BY FnAssumption DEF Pool!Owners

LEMMA PoolOfTask ==
  ASSUME TypeOK
  PROVE  /\ task = "unspawned" => PhaseOfJob = "new"
         /\ task \in Live => PhaseOfJob = "accepted"
         /\ task \in {"returned", "panicked"} => PhaseOfJob = "done"
         /\ task = "aborted" => PhaseOfJob = "dropped"
  BY DEF TypeOK, PhaseOfJob, Live, Ended

LEMMA PoolInit == RInit => Pool!Init
  BY DEF RInit, Init, Pool!Init, PhaseOfJob, Live

\* Clones are shared and released; the last one closes the runtime.
LEMMA PoolRuntime ==
  ASSUME RInv,
         (\E c \in Callers : BuildRuntime(c) \/ CloneRuntime(c) \/ DropRuntime(c))
         \/ Closes \/ GoesDown
  PROVE  Pool!Next
<1>1. task' = task
  BY DEF BuildRuntime, CloneRuntime, DropRuntime, Closes, GoesDown,
         RuntimeShutdown, vars, background
<1>2. JobMap' = JobMap
  BY <1>1 DEF JobMap, PhaseOfJob
<1>3. ASSUME NEW c \in Callers, BuildRuntime(c)
      PROVE  Pool!Open
  BY <1>2, <1>3 DEF BuildRuntime, Pool!Open, JobMap, RInv, PoolInv
<1>4. ASSUME NEW c \in Callers, CloneRuntime(c)
      PROVE  Pool!Share
  BY <1>2, <1>4, OwnersOfPool DEF CloneRuntime, Pool!Share, JobMap
<1>5. ASSUME NEW c \in Callers, DropRuntime(c)
      PROVE  Pool!Release
  BY <1>2, <1>5 DEF DropRuntime, Pool!Release, JobMap
<1>6. CASE Closes
  BY <1>2, <1>6 DEF Closes, Pool!Close, Pool!Next, JobMap
<1>7. CASE GoesDown
  <2>1. PhaseOfJob # "accepted"
    BY <1>7, PoolOfTask DEF GoesDown, RInv, IInv, TypeOK, Live, Ended
  <2>2. Pool!Accepted = {}
    BY <2>1 DEF Pool!Accepted
  <2> QED
    BY <1>2, <1>7, <2>2 DEF GoesDown, Pool!GoDown, Pool!Next, JobMap
<1> QED
  BY <1>3, <1>4, <1>5, <1>6, <1>7 DEF Pool!Next

\* start() submits the function while it is held up by its caller; stop() and
\* the object's Drop are no business of the runtime, but for a clone that a
\* function that never ran takes with it.
LEMMA PoolCaller ==
  ASSUME RInv, NEW c \in Callers, RStart(c) \/ RStop(c) \/ RRelease(c)
  PROVE  [Pool!Next]_(Pool!vars)
<1>1. CASE RStart(c)
  <2>1. CASE StartSpawn(c)
    <3>1. task = "unspawned" /\ task' = "spawned"
      BY <2>1 DEF StartSpawn, RInv, IInv, LifeInv
    <3>2. PhaseOfJob = "new" /\ PhaseOfJob' = "accepted"
      BY <3>1 DEF PhaseOfJob, Live, Ended
    <3>3. owners # {} /\ phase = "up" /\ UNCHANGED <<owners, phase>>
      BY <1>1 DEF RStart, pool, RInv, PoolInv
    <3>4. JobMap[Fn] = "new" /\ JobMap' = [JobMap EXCEPT ![Fn] = "accepted"]
      BY <3>2 DEF JobMap
    <3>5. Pool!Submit(Fn)
      BY <3>3, <3>4 DEF Pool!Submit, JobMap
    <3> QED
      BY <3>5 DEF Pool!Next
  <2>2. CASE ~StartSpawn(c)
    <3>1. task' = task /\ UNCHANGED <<owners, phase>>
      BY <1>1, <2>2 DEF RStart, Start, StartLock, Enter, StartRejected,
                        StartHandle, StartFlag, background, pool
    <3> QED
      BY <3>1 DEF Pool!vars, PhaseOfJob
  <2> QED
    BY <2>1, <2>2
<1>2. CASE RStop(c)
  <2>1. task' = task /\ UNCHANGED <<owners, phase>>
    BY <1>2 DEF RStop, Stop, StopLock, Enter, StopNothing, StopCancel, StopFlag,
                StopTake, StopJoined, StopGivenUp, background, pool
  <2> QED
    BY <2>1 DEF Pool!vars, PhaseOfJob
<1>3. CASE RRelease(c)
  <2>1. task' = task /\ phase' = phase
    BY <1>3 DEF RRelease, Release, background
  <2>2. JobMap' = JobMap
    BY <2>1 DEF JobMap, PhaseOfJob
  <2>3. CASE owners' = owners
    BY <2>1, <2>2, <2>3 DEF Pool!vars, JobMap
  <2>4. CASE owners' # owners
    <3>1. Fn \in owners /\ owners' = owners \ {Fn}
      BY <1>3, <2>4 DEF RRelease
    <3>2. Pool!Release
      BY <2>1, <2>2, <3>1 DEF Pool!Release, JobMap
    <3> QED
      BY <3>2 DEF Pool!Next
  <2> QED
    BY <2>3, <2>4
<1> QED
  BY <1>1, <1>2, <1>3

\* The task ends by itself and gives its clone back, or is dropped by a runtime
\* that nobody owns any more.
LEMMA PoolLoop ==
  ASSUME RInv, RLoop
  PROVE  [Pool!Next]_(Pool!vars)
<1>1. CASE (LoopTop \/ SleepElapses \/ CallReturns) /\ UNCHANGED pool
  <2>1. task \in Live /\ task' \in Live
    BY <1>1 DEF LoopTop, SleepElapses, CallReturns, TaskGoes, Live
  <2>2. PhaseOfJob' = PhaseOfJob
    BY <2>1 DEF PhaseOfJob, Live
  <2> QED
    BY <1>1, <2>2 DEF pool, Pool!vars
<1>2. CASE (SeesCancel \/ CallPanics) /\ FunctionDropped
  <2>1. task \in Live /\ task' \in {"returned", "panicked"}
    BY <1>2 DEF SeesCancel, CallPanics, TaskGoes, Live
  <2>2. PhaseOfJob = "accepted" /\ PhaseOfJob' = "done"
    BY <2>1 DEF PhaseOfJob, Live, Ended
  <2>3. JobMap[Fn] = "accepted" /\ JobMap' = [JobMap EXCEPT ![Fn] = "done"]
    BY <2>2 DEF JobMap
  <2>4. Pool!Finish(Fn)
    BY <1>2, <2>3 DEF FunctionDropped, Pool!Finish, JobMap
  <2> QED
    BY <2>4 DEF Pool!Next
<1>3. CASE Aborted /\ FunctionDropped
  <2>1. task \in Live /\ task' = "aborted" /\ ~runtimeUp
    BY <1>3 DEF Aborted, TaskGoes, Live
  <2>2. phase = "closing" /\ owners = {}
    BY <2>1 DEF RInv, PoolInv
  <2>3. PhaseOfJob = "accepted" /\ PhaseOfJob' = "dropped"
    BY <2>1 DEF PhaseOfJob, Live, Ended
  <2>4. owners' = owners /\ phase' = phase
    BY <1>3, <2>2 DEF FunctionDropped
  <2>5. /\ {Fn} \in SUBSET Pool!Accepted
        /\ JobMap' = [j \in {Fn} |-> IF j \in {Fn} THEN "dropped" ELSE JobMap[j]]
    BY <2>3 DEF Pool!Accepted, JobMap
  <2>6. Pool!DropJobs
    BY <2>2, <2>4, <2>5 DEF Pool!DropJobs, JobMap
  <2> QED
    BY <2>6 DEF Pool!Next
<1> QED
  BY <1>1, <1>2, <1>3 DEF RLoop

\* The runtime of a RepeatedTask is an OwnedPool (repeated_task.rs:104-142,
\* runtime.rs:46-66).
THEOREM PoolRefinement == RSpec => ImplementsOwnedPool
<1>1. RInv /\ [RNext]_all => [Pool!Next]_(Pool!vars)
  <2> SUFFICES ASSUME RInv, [RNext]_all
               PROVE  [Pool!Next]_(Pool!vars)
    OBVIOUS
  <2>1. CASE UNCHANGED all
    BY <2>1 DEF all, pool, vars, background, Pool!vars, PhaseOfJob
  <2>2. CASE RNext
    BY <2>2, PoolRuntime, PoolCaller, PoolLoop DEF RNext
  <2> QED
    BY <2>1, <2>2
<1> QED
  BY <1>1, PoolInit, RInvariant, PTL
  DEF RSpec, ImplementsOwnedPool, Pool!Spec
=============================================================================
