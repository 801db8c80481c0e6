------------------------ MODULE GlobalRuntimesProofs ------------------------
(***************************************************************************)
(* Proofs of the safety properties of GlobalRuntimes, for any set of       *)
(* threads.                                                                *)
(***************************************************************************)
EXTENDS GlobalRuntimes, TLAPS

InInit  == {"init_lock", "init_assert", "init_create"}
InForce == {"force_lock", "force_create"}
Locked  == {"init_assert", "init_create", "force_create"}

AllAre(f, v) == \A k \in DOMAIN Kinds : f[k] = v

\* The Once, the Lazy and the lock each have at most one thread inside.
LockInv ==
    /\ \A t \in Threads : pc[t] \in Locked <=> mutex = t
    /\ \A t \in Threads : pc[t] \in InInit => once = "running"
    /\ \A t \in Threads : pc[t] \in InForce => lazy = "running"
    /\ \A t, u \in Threads : pc[t] \in InInit /\ pc[u] \in InInit => t = u
    /\ \A t, u \in Threads : pc[t] \in InForce /\ pc[u] \in InForce => t = u

\* What is in the config: nothing before the closure of START fills it and
\* after GLOBAL_RUNTIMES has taken it, all four runtimes in between, and a part
\* of them only under a poisoned lock.
ConfigInv ==
    /\ alreadyInit => AllAre(config, "none")
    /\ once = "new" => AllAre(config, "none")
    /\ \A t \in Threads :
        /\ pc[t] \in {"init_lock", "init_assert"} => AllAre(config, "none")
        /\ pc[t] = "init_create" => ~alreadyInit
    /\ ~poisoned /\ (\A t \in Threads : pc[t] # "init_create")
         => AllAre(config, "none") \/ (once = "done" /\ AllAre(config, "configured"))
    /\ once = "done" /\ ~alreadyInit => AllAre(config, "configured")

\* What GLOBAL_RUNTIMES has taken, and why it may be poisoned.
GlobalsInv ==
    /\ alreadyInit => lazy # "new"
    /\ lazy = "ready" => alreadyInit /\ (AllAre(globals, "configured") \/ AllAre(globals, "default"))
    /\ \A t \in Threads :
        /\ pc[t] = "force_lock" => ~alreadyInit
        /\ pc[t] = "force_create" => /\ alreadyInit
                                     /\ \/ AllAre(globals, "configured")
                                        \/ \A k \in DOMAIN Kinds : globals[k] # "configured"
    /\ poisoned => failed \/ alreadyInit
    /\ lazy = "poisoned" => failed
    /\ once = "done" /\ alreadyInit /\ lazy # "poisoned" => AllAre(globals, "configured")

IInv == TypeOK /\ LockInv /\ ConfigInv /\ GlobalsInv

----------------------------------------------------------------------------
(***************************************************************************)
(* IInv is inductive.                                                      *)
(***************************************************************************)

\* Before any call there is nothing anywhere.
LEMMA InvInit == Init => IInv
<1> SUFFICES ASSUME Init PROVE IInv
  OBVIOUS
<1>1. AllAre(config, "none")
  BY DEF Init, AllAre, Nothing
<1> QED
  BY <1>1, ThreadAssumption
  DEF Init, Nothing, IInv, TypeOK, LockInv, ConfigInv, GlobalsInv, InInit,
      InForce, Locked

\* The calls of init_global_runtimes() preserve it (global.rs:151-173).
LEMMA InvInitCall ==
  ASSUME IInv, NEW t \in Threads, InitCall(t) \/ InitGoesOn(t)
  PROVE  IInv'
<1> USE ThreadAssumption
    DEF IInv, TypeOK, LockInv, ConfigInv, GlobalsInv, InInit, InForce, Locked,
        locks, data, Goto, Continue, Return
<1>1. CASE InitSkips(t)
  BY <1>1 DEF InitSkips, AllAre
<1>2. CASE InitPoisoned(t)
  BY <1>2 DEF InitPoisoned, AllAre
<1>3. CASE InitBegins(t)
  BY <1>3 DEF InitBegins, AllAre
<1>4. CASE InitLocks(t)
  BY <1>4 DEF InitLocks, AllAre
<1>5. CASE InitUnwrapPanics(t)
  BY <1>5 DEF InitUnwrapPanics, AllAre
<1>6. CASE InitAsserts(t)
  BY <1>6 DEF InitAsserts, AllAre
<1>7. CASE InitAssertFails(t)
  BY <1>7 DEF InitAssertFails, InitPanics, AllAre
<1>8. CASE InitCreates(t)
  BY <1>8 DEF InitCreates, AllAre
<1>9. CASE InitCreateFails(t)
  BY <1>9 DEF InitCreateFails, InitPanics, AllAre
<1>10. CASE InitReturns(t)
  \* Nothing is missing: all four are configured, and nobody has taken them.
  <2>1. AllAre(config, "configured")
    BY <1>10 DEF InitReturns, Missing, AllAre
  <2> QED
    BY <1>10, <2>1 DEF InitReturns, AllAre
<1> QED
  BY <1>1, <1>2, <1>3, <1>4, <1>5, <1>6, <1>7, <1>8, <1>9, <1>10
  DEF InitCall, InitGoesOn

\* So do the accessors (global.rs:132-141 and 175-207).
LEMMA InvAccess ==
  ASSUME IInv, NEW t \in Threads, AccessCall(t) \/ ForceGoesOn(t)
  PROVE  IInv'
<1> USE ThreadAssumption
    DEF IInv, TypeOK, LockInv, ConfigInv, GlobalsInv, InInit, InForce, Locked,
        locks, data, Goto, Continue, Return
<1>1. CASE AccessReady(t)
  BY <1>1 DEF AccessReady, AllAre
<1>2. CASE AccessPoisoned(t)
  BY <1>2 DEF AccessPoisoned, AllAre
<1>3. CASE AccessForces(t)
  BY <1>3 DEF AccessForces, AllAre
<1>4. CASE ForceTakes(t)
  \* The lock is free and not poisoned: the config is empty or complete.
  <2>1. AllAre(config, "none") \/ (once = "done" /\ AllAre(config, "configured"))
    BY <1>4 DEF ForceTakes
  <2>2. AllAre(config', "none")
    BY <1>4 DEF ForceTakes, Nothing, AllAre
  <2>3. globals' = config
    BY <1>4 DEF ForceTakes
  <2> QED
    BY <1>4, <2>1, <2>2, <2>3 DEF ForceTakes, Nothing, AllAre
<1>5. CASE ForceUnwrapPanics(t)
  BY <1>5 DEF ForceUnwrapPanics, AllAre
<1>6. CASE ForceCreates(t)
  BY <1>6 DEF ForceCreates, IsNext, Missing, AllAre
<1>7. CASE ForceCreateFails(t)
  BY <1>7 DEF ForceCreateFails, Nothing, Missing, AllAre
<1>8. CASE ForceReturns(t)
  <2>1. AllAre(globals, "configured") \/ AllAre(globals, "default")
    BY <1>8 DEF ForceReturns, Missing, AllAre
  <2> QED
    BY <1>8, <2>1 DEF ForceReturns, AllAre
<1> QED
  BY <1>1, <1>2, <1>3, <1>4, <1>5, <1>6, <1>7, <1>8 DEF AccessCall, ForceGoesOn

LEMMA InvStep == IInv /\ [Next]_vars => IInv'
<1> SUFFICES ASSUME IInv, [Next]_vars PROVE IInv'
  OBVIOUS
<1>1. CASE Next
  BY <1>1, InvInitCall, InvAccess DEF Next
<1>2. CASE UNCHANGED vars
  BY <1>2 DEF vars, locks, data, IInv, TypeOK, LockInv, ConfigInv, GlobalsInv, AllAre
<1> QED
  BY <1>1, <1>2

\* Every reachable state satisfies the inductive invariant.
THEOREM Invariant == Spec => []IInv
  BY InvInit, InvStep, PTL DEF Spec

----------------------------------------------------------------------------

\* Every variable keeps its type (global.rs:64-69 and 123-130).
THEOREM TypeCorrect == Spec => []TypeOK
<1>1. IInv => TypeOK
  BY DEF IInv
<1> QED
  BY <1>1, Invariant, PTL

\* A configuration that init_global_runtimes() completed is the one in use, for
\* any number of threads (global.rs:132-141 and 153-172).
THEOREM ConfigUsed == Spec => []ConfigIsUsed
<1>1. IInv => ConfigIsUsed
  BY DEF IInv, GlobalsInv, ConfigIsUsed, AllAre
<1> QED
  BY <1>1, Invariant, PTL

\* The four global runtimes are all configured or all default ones
\* (global.rs:133-140 and 154-171).
THEOREM NeverMixed == Spec => []NoMixture
<1>1. IInv => NoMixture
  BY DEF IInv, GlobalsInv, NoMixture, AllAre
<1> QED
  BY <1>1, Invariant, PTL

\* Only a runtime that could not be made takes the accessors away
\* (global.rs:133, 138 and 154-155).
THEOREM AccessSurvives == Spec => []OnlyFailureBreaksAccess
<1>1. IInv => OnlyFailureBreaksAccess
  BY DEF IInv, GlobalsInv, OnlyFailureBreaksAccess
<1> QED
  BY <1>1, Invariant, PTL

\* The config is empty once the globals exist (global.rs:134-138 and 155).
THEOREM ConfigEmptied == Spec => []NothingLeftBehind
<1>1. IInv => NothingLeftBehind
  BY DEF IInv, TypeOK, ConfigInv, GlobalsInv, NothingLeftBehind, Nothing, AllAre
<1> QED
  BY <1>1, Invariant, PTL

----------------------------------------------------------------------------
(***************************************************************************)
(* Who waits, waits for somebody.  Every exit of the two closures, the     *)
(* panics included, gives back what its thread was inside of.              *)
(***************************************************************************)

\* A Once or a Lazy that runs has a thread in its closure, and the lock has an
\* owner that is at a place where it waits for nothing: behind every wait for one
\* of the three is a thread that can go on (global.rs:132-141 and 153-172).
NothingAbandoned ==
    /\ once = "running" => \E t \in Threads : pc[t] \in InInit
    /\ lazy = "running" => \E t \in Threads : pc[t] \in InForce
    /\ mutex # NoThread => mutex \in Threads /\ pc[mutex] \in Locked

\* A step of one thread moves no other: a thread that stays inside keeps the
\* primitive occupied.
LEMMA OthersStay ==
  ASSUME IInv, NEW t \in Threads, InitGoesOn(t) \/ ForceGoesOn(t)
  PROVE  \A u \in Threads \ {t} : pc'[u] = pc[u]
  BY DEF IInv, TypeOK, InitGoesOn, ForceGoesOn, InitLocks, InitUnwrapPanics,
         InitAsserts, InitAssertFails, InitPanics, InitCreates, InitCreateFails,
         InitReturns, ForceTakes, ForceUnwrapPanics, ForceCreates,
         ForceCreateFails, ForceReturns, Return, Goto

LEMMA AbandonedStep ==
  ASSUME IInv, NothingAbandoned, [Next]_vars
  PROVE  NothingAbandoned'
<1> USE DEF NothingAbandoned, InInit, InForce
<1>1. IInv'
  BY InvStep
<1>2. (mutex # NoThread => mutex \in Threads /\ pc[mutex] \in Locked)'
  BY <1>1 DEF IInv, TypeOK, LockInv
<1>3. ASSUME NEW t \in Threads, InitCall(t) \/ AccessCall(t)
      PROVE  NothingAbandoned'
  BY <1>2, <1>3 DEF IInv, TypeOK, InitCall, AccessCall, InitSkips, InitPoisoned,
     InitBegins, AccessReady, AccessPoisoned, AccessForces, Return, Continue,
     Goto, locks
<1>4. ASSUME NEW t \in Threads, InitGoesOn(t)
      PROVE  NothingAbandoned'
  <2>1. pc[t] \in InInit /\ lazy' = lazy
    BY <1>4 DEF InitGoesOn, InitLocks, InitUnwrapPanics, InitAsserts,
       InitAssertFails, InitPanics, InitCreates, InitCreateFails, InitReturns,
       Return, Goto, locks
  <2>2. pc'[t] \in InInit \/ once' # "running"
    BY <1>4 DEF IInv, TypeOK, InitGoesOn, InitLocks, InitUnwrapPanics,
       InitAsserts, InitAssertFails, InitPanics, InitCreates, InitCreateFails,
       InitReturns, Return, Goto
  <2>3. once' = "running" => \E u \in Threads : pc'[u] \in InInit
    BY <2>2
  <2>4. lazy' = "running" => \E u \in Threads : pc'[u] \in InForce
    BY <1>4, <2>1, OthersStay
  <2> QED
    BY <1>2, <2>3, <2>4
<1>5. ASSUME NEW t \in Threads, ForceGoesOn(t)
      PROVE  NothingAbandoned'
  <2>1. pc[t] \in InForce /\ once' = once
    BY <1>5 DEF ForceGoesOn, ForceTakes, ForceUnwrapPanics, ForceCreates,
       ForceCreateFails, ForceReturns, Return, Goto, locks
  <2>2. pc'[t] \in InForce \/ lazy' # "running"
    BY <1>5 DEF IInv, TypeOK, ForceGoesOn, ForceTakes, ForceUnwrapPanics,
       ForceCreates, ForceCreateFails, ForceReturns, Return, Goto
  <2>3. lazy' = "running" => \E u \in Threads : pc'[u] \in InForce
    BY <2>2
  <2>4. once' = "running" => \E u \in Threads : pc'[u] \in InInit
    BY <1>5, <2>1, OthersStay
  <2> QED
    BY <1>2, <2>3, <2>4
<1>6. CASE UNCHANGED vars
  BY <1>2, <1>6 DEF vars, locks
<1> QED
  BY <1>3, <1>4, <1>5, <1>6 DEF Next

\* No Once, Lazy or lock is left taken with nobody inside, whichever call
\* panicked where (global.rs:132-141 and 153-172).
THEOREM Inside == Spec => []NothingAbandoned
<1>1. Init => NothingAbandoned
  BY DEF Init, NothingAbandoned
<1>2. IInv /\ NothingAbandoned /\ [Next]_vars => NothingAbandoned'
  BY AbandonedStep
<1> QED
  BY <1>1, <1>2, Invariant, PTL DEF Spec

----------------------------------------------------------------------------
(***************************************************************************)
(* A call is finite, whatever the other threads do.  With NothingAbandoned *)
(* this is the part of EveryCallReturns that needs no fairness.            *)
(***************************************************************************)

One(f, k) == IF f[k] = "none" THEN 1 ELSE 0
Left(f) == One(f, 1) + One(f, 2) + One(f, 3) + One(f, 4)

\* How many steps a thread has at most before its call returns.
StepsLeft(t) ==
    IF pc[t] = "init_lock" THEN 7
    ELSE IF pc[t] = "init_assert" THEN 6
    ELSE IF pc[t] = "init_create" THEN 1 + Left(config)
    ELSE IF pc[t] = "force_lock" THEN 6
    ELSE IF pc[t] = "force_create" THEN 1 + Left(globals)
    ELSE 0

\* Each step inside the closure of START or of GLOBAL_RUNTIMES brings its thread
\* nearer to the end of the call, and no step of another thread puts it back: what
\* a thread fills under the lock nobody empties (global.rs:132-141 and 153-172).
CallsAreBounded ==
    [][\A t \in Threads : pc[t] # "idle" =>
         /\ StepsLeft(t)' <= StepsLeft(t)
         /\ InitGoesOn(t) \/ ForceGoesOn(t) => StepsLeft(t)' < StepsLeft(t)]_vars

LEMMA FourKinds == DOMAIN Kinds = {1, 2, 3, 4}
  BY DEF Kinds

LEMMA LeftType ==
  ASSUME NEW f
  PROVE  Left(f) \in 0..4
  BY DEF Left, One

\* One runtime more is one step less.
LEMMA LeftFilled ==
  ASSUME NEW f, NEW g, NEW k \in DOMAIN Kinds, f[k] = "none", g[k] # "none",
         \A j \in DOMAIN Kinds \ {k} : g[j] = f[j]
  PROVE  Left(g) < Left(f)
<1>1. One(g, k) = 0 /\ One(f, k) = 1
  BY DEF One
<1>2. \A j \in {1, 2, 3, 4} : One(f, j) \in 0..1 /\ One(g, j) \in 0..1
  BY DEF One
<1>3. \A j \in {1, 2, 3, 4} : j # k => One(g, j) = One(f, j)
  BY FourKinds DEF One
<1>4. k \in {1, 2, 3, 4}
  BY FourKinds
<1>5. One(g, 1) <= One(f, 1) /\ One(g, 2) <= One(f, 2)
      /\ One(g, 3) <= One(f, 3) /\ One(g, 4) <= One(f, 4)
  BY <1>1, <1>2, <1>3
<1>6. One(g, 1) < One(f, 1) \/ One(g, 2) < One(f, 2)
      \/ One(g, 3) < One(f, 3) \/ One(g, 4) < One(f, 4)
  BY <1>1, <1>4
<1> QED
  BY <1>2, <1>5, <1>6 DEF Left

\* A thread that makes the runtimes has them to itself.
LEMMA Undisturbed ==
  ASSUME IInv, NEW t \in Threads, NEW u \in Threads, u # t, pc[t] # "idle",
         InitCall(u) \/ InitGoesOn(u) \/ AccessCall(u) \/ ForceGoesOn(u)
  PROVE  StepsLeft(t)' = StepsLeft(t)
<1>1. pc'[t] = pc[t]
  BY OthersStay DEF IInv, TypeOK, InitCall, AccessCall, InitSkips, InitPoisoned,
     InitBegins, AccessReady, AccessPoisoned, AccessForces, Return, Continue, Goto
<1>2. ASSUME pc[t] = "init_create"
      PROVE  config' = config
  <2>1. mutex = t /\ pc[u] \notin {"init_create", "init_assert", "force_create"}
    BY <1>2 DEF IInv, LockInv, Locked
  <2> QED
    BY <2>1, ThreadAssumption DEF IInv, TypeOK, InitCall, InitSkips, InitPoisoned,
       InitBegins, AccessCall, AccessReady, AccessPoisoned, AccessForces,
       InitGoesOn, InitLocks, InitUnwrapPanics, InitAsserts, InitAssertFails,
       InitPanics, InitCreates, InitCreateFails, InitReturns, ForceGoesOn,
       ForceTakes, ForceUnwrapPanics, ForceCreates, ForceCreateFails,
       ForceReturns, Return, Goto, data
<1>3. ASSUME pc[t] = "force_create"
      PROVE  globals' = globals
  <2>1. mutex = t /\ pc[u] \notin {"init_create", "init_assert", "force_create"}
    BY <1>3 DEF IInv, LockInv, Locked
  <2> QED
    BY <2>1, ThreadAssumption DEF IInv, TypeOK, InitCall, InitSkips, InitPoisoned,
       InitBegins, AccessCall, AccessReady, AccessPoisoned, AccessForces,
       InitGoesOn, InitLocks, InitUnwrapPanics, InitAsserts, InitAssertFails,
       InitPanics, InitCreates, InitCreateFails, InitReturns, ForceGoesOn,
       ForceTakes, ForceUnwrapPanics, ForceCreates, ForceCreateFails,
       ForceReturns, Return, Goto, data
<1> QED
  BY <1>1, <1>2, <1>3 DEF StepsLeft

LEMMA GoesNearer ==
  ASSUME IInv, NEW t \in Threads, InitGoesOn(t) \/ ForceGoesOn(t)
  PROVE  StepsLeft(t)' < StepsLeft(t)
<1> USE DEF IInv, TypeOK, StepsLeft, Goto, Return
<1>1. Left(config) \in 0..4 /\ Left(globals) \in 0..4 /\ Left(globals') \in 0..4
      /\ Left(config') \in 0..4
  BY LeftType
<1>2. CASE InitLocks(t) \/ InitUnwrapPanics(t)
  BY <1>2 DEF InitLocks, InitUnwrapPanics
<1>3. CASE InitAsserts(t) \/ InitAssertFails(t)
  BY <1>1, <1>3 DEF InitAsserts, InitAssertFails, InitPanics
<1>4. CASE InitCreates(t)
  <2>1. PICK k \in DOMAIN Kinds :
           IsNext(config, k) /\ config' = [config EXCEPT ![k] = "configured"]
    BY <1>4 DEF InitCreates
  <2>2. /\ config[k] = "none" /\ config'[k] # "none"
        /\ \A j \in DOMAIN Kinds \ {k} : config'[j] = config[j]
    BY <2>1 DEF IsNext, Missing
  <2>3. Left(config') < Left(config)
    BY <2>2, LeftFilled
  <2>4. pc[t] = "init_create" /\ pc' = pc
    BY <1>4 DEF InitCreates
  <2> QED
    BY <1>1, <2>3, <2>4
<1>5. CASE InitCreateFails(t) \/ InitReturns(t)
  BY <1>1, <1>5 DEF InitCreateFails, InitPanics, InitReturns
<1>6. CASE ForceTakes(t) \/ ForceUnwrapPanics(t)
  BY <1>1, <1>6 DEF ForceTakes, ForceUnwrapPanics
<1>7. CASE ForceCreates(t)
  <2>1. PICK k \in DOMAIN Kinds :
           IsNext(globals, k) /\ globals' = [globals EXCEPT ![k] = "default"]
    BY <1>7 DEF ForceCreates
  <2>2. /\ globals[k] = "none" /\ globals'[k] # "none"
        /\ \A j \in DOMAIN Kinds \ {k} : globals'[j] = globals[j]
    BY <2>1 DEF IsNext, Missing
  <2>3. Left(globals') < Left(globals)
    BY <2>2, LeftFilled
  <2>4. pc[t] = "force_create" /\ pc' = pc
    BY <1>7 DEF ForceCreates
  <2> QED
    BY <1>1, <2>3, <2>4
<1>8. CASE ForceCreateFails(t) \/ ForceReturns(t)
  BY <1>1, <1>8 DEF ForceCreateFails, ForceReturns
<1> QED
  BY <1>2, <1>3, <1>4, <1>5, <1>6, <1>7, <1>8 DEF InitGoesOn, ForceGoesOn

\* Every call takes at most seven steps inside its closure, for any number of
\* threads (global.rs:132-141 and 153-172).
THEOREM Bounded == Spec => CallsAreBounded
<1>1. ASSUME IInv, Next, NEW t \in Threads, pc[t] # "idle"
      PROVE  /\ StepsLeft(t)' <= StepsLeft(t)
             /\ InitGoesOn(t) \/ ForceGoesOn(t) => StepsLeft(t)' < StepsLeft(t)
  <2>1. StepsLeft(t) \in Nat /\ StepsLeft(t)' \in Nat
    <3>1. /\ Left(config) \in 0..4 /\ Left(globals) \in 0..4
          /\ Left(config)' \in 0..4 /\ Left(globals)' \in 0..4
      BY LeftType
    <3> QED
      BY <3>1 DEF StepsLeft
  <2>2. PICK u \in Threads :
           InitCall(u) \/ InitGoesOn(u) \/ AccessCall(u) \/ ForceGoesOn(u)
    BY <1>1 DEF Next
  <2>3. InitGoesOn(t) \/ ForceGoesOn(t) => StepsLeft(t)' < StepsLeft(t)
    BY <1>1, GoesNearer
  <2>4. CASE u # t
    BY <1>1, <2>1, <2>2, <2>3, <2>4, Undisturbed
  <2>5. CASE u = t
    <3>1. InitGoesOn(t) \/ ForceGoesOn(t)
      BY <1>1, <2>2, <2>5 DEF InitCall, AccessCall, InitSkips, InitPoisoned,
         InitBegins, AccessReady, AccessPoisoned, AccessForces, Return, Continue,
         Goto
    <3> QED
      BY <2>1, <2>3, <3>1
  <2> QED
    BY <2>4, <2>5
<1>2. IInv /\ [Next]_vars =>
        [\A t \in Threads : pc[t] # "idle" =>
           /\ StepsLeft(t)' <= StepsLeft(t)
           /\ InitGoesOn(t) \/ ForceGoesOn(t) => StepsLeft(t)' < StepsLeft(t)]_vars
  BY <1>1
<1> QED
  BY <1>2, Invariant, PTL DEF Spec, CallsAreBounded
=============================================================================
