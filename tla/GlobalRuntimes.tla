--------------------------- MODULE GlobalRuntimes ---------------------------
(***************************************************************************)
(* src/src/global.rs: four process-wide runtimes, configured by            *)
(* init_global_runtimes() or, without it, made with defaults by the first  *)
(* use of an accessor.                                                     *)
(*                                                                         *)
(* Any thread may call either at any time.  Three primitives of the        *)
(* standard library and of once_cell decide what happens: the Once of      *)
(* init_global_runtimes(), the Lazy of GLOBAL_RUNTIMES, and the Mutex of   *)
(* CONFIG_RUNTIMES.  Each is poisoned by a panic of the code it runs or    *)
(* guards, and create_runtime() panics when a runtime cannot be made: a    *)
(* size of 0, or a thread the system refuses.                              *)
(*                                                                         *)
(* An operator named X_... just before X is a plausible slip in the code   *)
(* of X; no specification uses it.  It shows which property notices it.    *)
(***************************************************************************)
EXTENDS Naturals, Sequences

CONSTANTS
    Threads,   \* the threads of the program
    NoThread   \* the owner of a free lock

ASSUME ThreadAssumption == NoThread \notin Threads

VARIABLES
    once,      \* START: "new", "running", "done" or "poisoned"
    lazy,      \* GLOBAL_RUNTIMES: "new", "running", "ready" or "poisoned"
    mutex,     \* who holds the lock of CONFIG_RUNTIMES
    poisoned,  \* that lock is poisoned
    config,    \* the four Option<Runtime> of ConfigRuntimes
    alreadyInit,
    globals,   \* the four runtimes of GlobalRuntimes, as far as they exist
    pc,        \* where each thread is
    ret,       \* how each thread's last call ended
    failed     \* history: create_runtime() has panicked

locks == <<once, lazy, mutex, poisoned>>
data == <<config, alreadyInit, globals>>
vars == <<locks, data, pc, ret, failed>>

Kinds == <<"read", "write", "bg", "hb">>

Nothing == [k \in DOMAIN Kinds |-> "none"]

----------------------------------------------------------------------------

TypeOK ==
    /\ once \in {"new", "running", "done", "poisoned"}
    /\ lazy \in {"new", "running", "ready", "poisoned"}
    /\ mutex \in Threads \cup {NoThread}
    /\ poisoned \in BOOLEAN
    /\ config \in [DOMAIN Kinds -> {"none", "configured"}]
    /\ alreadyInit \in BOOLEAN
    /\ globals \in [DOMAIN Kinds -> {"none", "configured", "default"}]
    /\ pc \in [Threads -> {"idle", "init_lock", "init_assert", "init_create",
                           "force_lock", "force_create"}]
    /\ ret \in [Threads -> {"none", "ok", "panicked"}]
    /\ failed \in BOOLEAN

Init ==
    /\ once = "new"
    /\ lazy = "new"
    /\ mutex = NoThread
    /\ poisoned = FALSE
    /\ config = Nothing
    /\ alreadyInit = FALSE
    /\ globals = Nothing
    /\ pc = [t \in Threads |-> "idle"]
    /\ ret = [t \in Threads |-> "none"]
    /\ failed = FALSE

Goto(t, from, to) == pc[t] = from /\ pc' = [pc EXCEPT ![t] = to]

\* A call goes on: its result is open until it returns.
Continue(t, from, to) == Goto(t, from, to) /\ ret' = [ret EXCEPT ![t] = "none"]

Return(t, from, result) ==
    Goto(t, from, "idle") /\ ret' = [ret EXCEPT ![t] = result]

\* The runtimes are made in the order of Kinds: the first one missing in f.
Missing(f) == {k \in DOMAIN Kinds : f[k] = "none"}
IsNext(f, k) == k \in Missing(f) /\ \A j \in Missing(f) : k <= j

----------------------------------------------------------------------------
(* init_global_runtimes(options)                                           *)

\* START has run: the call does nothing.
InitSkips(t) ==
    /\ once = "done"
    /\ Return(t, "idle", "ok")
    /\ UNCHANGED <<locks, data, failed>>

\* "Once instance has previously been poisoned".
InitPoisoned(t) ==
    /\ once = "poisoned"
    /\ Return(t, "idle", "panicked")
    /\ UNCHANGED <<locks, data, failed>>

\* The first call runs the closure; others wait while it does.
InitBegins(t) ==
    /\ once = "new"
    /\ once' = "running"
    /\ Continue(t, "idle", "init_lock")
    /\ UNCHANGED <<lazy, mutex, poisoned, data, failed>>

InitLocks(t) ==
    /\ mutex = NoThread
    /\ ~poisoned
    /\ mutex' = t
    /\ Goto(t, "init_lock", "init_assert")
    /\ UNCHANGED <<once, lazy, poisoned, data, ret, failed>>

\* lock().unwrap() panics, and that poisons START.
InitUnwrapPanics(t) ==
    /\ mutex = NoThread
    /\ poisoned
    /\ once' = "poisoned"
    /\ Return(t, "init_lock", "panicked")
    /\ UNCHANGED <<lazy, mutex, poisoned, data, failed>>

InitAsserts_Unchecked(t) ==
    /\ Goto(t, "init_assert", "init_create")
    /\ UNCHANGED <<locks, data, ret, failed>>

InitAsserts(t) ==
    /\ ~alreadyInit
    /\ Goto(t, "init_assert", "init_create")
    /\ UNCHANGED <<locks, data, ret, failed>>

\* A panic with the lock of CONFIG_RUNTIMES held poisons it, too.
InitPanics(t, from) ==
    /\ once' = "poisoned"
    /\ mutex' = NoThread
    /\ poisoned' = TRUE
    /\ Return(t, from, "panicked")
    /\ UNCHANGED <<lazy, data>>

\* "Global runtimes already initialized".
InitAssertFails(t) ==
    /\ alreadyInit
    /\ InitPanics(t, "init_assert")
    /\ UNCHANGED failed

InitCreates_Default(t) ==
    /\ pc[t] = "init_create"
    /\ \E k \in DOMAIN Kinds :
          /\ IsNext(config, k)
          /\ config' = [config EXCEPT ![k] = "default"]
    /\ UNCHANGED <<locks, alreadyInit, globals, pc, ret, failed>>

InitCreates(t) ==
    /\ pc[t] = "init_create"
    /\ \E k \in DOMAIN Kinds :
          /\ IsNext(config, k)
          /\ config' = [config EXCEPT ![k] = "configured"]
    /\ UNCHANGED <<locks, alreadyInit, globals, pc, ret, failed>>

\* create_runtime() panics: what was configured so far stays in the config.
InitCreateFails(t) ==
    /\ Missing(config) # {}
    /\ InitPanics(t, "init_create")
    /\ failed' = TRUE

InitReturns(t) ==
    /\ Missing(config) = {}
    /\ once' = "done"
    /\ mutex' = NoThread
    /\ Return(t, "init_create", "ok")
    /\ UNCHANGED <<lazy, poisoned, data, failed>>

----------------------------------------------------------------------------
(* Any accessor: it forces GLOBAL_RUNTIMES and uses one of its runtimes    *)

AccessReady(t) ==
    /\ lazy = "ready"
    /\ Return(t, "idle", "ok")
    /\ UNCHANGED <<locks, data, failed>>

\* "Lazy instance has previously been poisoned".
AccessPoisoned(t) ==
    /\ lazy = "poisoned"
    /\ Return(t, "idle", "panicked")
    /\ UNCHANGED <<locks, data, failed>>

AccessForces(t) ==
    /\ lazy = "new"
    /\ lazy' = "running"
    /\ Continue(t, "idle", "force_lock")
    /\ UNCHANGED <<once, mutex, poisoned, data, failed>>

ForceTakes_IgnoresPoison(t) ==
    /\ mutex = NoThread
    /\ mutex' = t
    /\ globals' = config
    /\ config' = Nothing
    /\ alreadyInit' = TRUE
    /\ Goto(t, "force_lock", "force_create")
    /\ UNCHANGED <<once, lazy, poisoned, ret, failed>>

ForceTakes_TwoLocks(t) ==
    /\ mutex = NoThread
    /\ ~poisoned
    /\ IF alreadyInit
       THEN /\ mutex' = t
            /\ globals' = config
            /\ config' = Nothing
            /\ UNCHANGED alreadyInit
            /\ Goto(t, "force_lock", "force_create")
       ELSE /\ pc[t] = "force_lock"
            /\ alreadyInit' = TRUE
            /\ UNCHANGED <<mutex, globals, config, pc>>
    /\ UNCHANGED <<once, lazy, poisoned, ret, failed>>

\* The configured runtimes are taken, and the lock is kept to the end.
ForceTakes(t) ==
    /\ mutex = NoThread
    /\ ~poisoned
    /\ mutex' = t
    /\ globals' = config
    /\ config' = Nothing
    /\ alreadyInit' = TRUE
    /\ Goto(t, "force_lock", "force_create")
    /\ UNCHANGED <<once, lazy, poisoned, ret, failed>>

\* lock().unwrap() panics: the Lazy has given its closure away for nothing.
ForceUnwrapPanics(t) ==
    /\ mutex = NoThread
    /\ poisoned
    /\ lazy' = "poisoned"
    /\ Return(t, "force_lock", "panicked")
    /\ UNCHANGED <<once, mutex, poisoned, data, failed>>

\* unwrap_or_else: a runtime nobody configured is made with its default.
ForceCreates(t) ==
    /\ pc[t] = "force_create"
    /\ \E k \in DOMAIN Kinds :
          /\ IsNext(globals, k)
          /\ globals' = [globals EXCEPT ![k] = "default"]
    /\ UNCHANGED <<locks, config, alreadyInit, pc, ret, failed>>

ForceCreateFails(t) ==
    /\ Missing(globals) # {}
    /\ lazy' = "poisoned"
    /\ mutex' = NoThread
    /\ poisoned' = TRUE
    /\ globals' = Nothing
    /\ failed' = TRUE
    /\ Return(t, "force_create", "panicked")
    /\ UNCHANGED <<once, config, alreadyInit>>

ForceReturns_LocksAgain(t) ==
    /\ Missing(globals) = {}
    /\ mutex = NoThread
    /\ lazy' = "ready"
    /\ Return(t, "force_create", "ok")
    /\ UNCHANGED <<once, mutex, poisoned, data, failed>>

ForceReturns(t) ==
    /\ Missing(globals) = {}
    /\ lazy' = "ready"
    /\ mutex' = NoThread
    /\ Return(t, "force_create", "ok")
    /\ UNCHANGED <<once, poisoned, data, failed>>

----------------------------------------------------------------------------

InitCall(t) == InitSkips(t) \/ InitPoisoned(t) \/ InitBegins(t)

InitGoesOn(t) ==
    \/ InitLocks(t) \/ InitUnwrapPanics(t)
    \/ InitAsserts(t) \/ InitAssertFails(t)
    \/ InitCreates(t) \/ InitCreateFails(t) \/ InitReturns(t)

AccessCall(t) == AccessReady(t) \/ AccessPoisoned(t) \/ AccessForces(t)

ForceGoesOn(t) ==
    \/ ForceTakes(t) \/ ForceUnwrapPanics(t)
    \/ ForceCreates(t) \/ ForceCreateFails(t) \/ ForceReturns(t)

Next ==
    \E t \in Threads :
        InitCall(t) \/ InitGoesOn(t) \/ AccessCall(t) \/ ForceGoesOn(t)

Spec == Init /\ [][Next]_vars

\* A thread inside a closure runs on; nobody has to make a call.
FairSpec ==
    /\ Spec
    /\ \A t \in Threads : WF_vars(InitGoesOn(t) \/ ForceGoesOn(t))

----------------------------------------------------------------------------

\* If init_global_runtimes() ever returned from its closure, then whoever forces
\* GLOBAL_RUNTIMES, whenever, gets all four configured runtimes
\* (global.rs:132-141 and 153-172).
ConfigIsUsed ==
    once = "done" /\ lazy = "ready" =>
        \A k \in DOMAIN Kinds : globals[k] = "configured"

\* The program never runs on a mixture of configured and default runtimes,
\* although a failing init leaves a part of them in the config: the poisoned
\* lock keeps them from being used (global.rs:133-140 and 154-171).
NoMixture ==
    lazy = "ready" =>
        \A j, k \in DOMAIN Kinds : globals[j] = globals[k]

\* The accessors stop working only because a runtime could not be made; a call
\* of init_global_runtimes() that comes too late, whose assert panics with the
\* lock held, never breaks them (global.rs:133, 138 and 154-155).
OnlyFailureBreaksAccess == lazy = "poisoned" => failed

\* No configured runtime is made in vain: once the globals are there nobody
\* has put a runtime where it will never be taken (global.rs:134-138 and 155).
NothingLeftBehind == lazy = "ready" => config = Nothing

\* No thread waits for ever for the Once, the Lazy or the lock
\* (global.rs:132-173).
EveryCallReturns == \A t \in Threads : pc[t] # "idle" ~> pc[t] = "idle"

\* "Panics when the global runtimes are already initialized."  A call of
\* init_global_runtimes() that finds its Once done, or the Lazy ready, and
\* returns at all, panics (global.rs:148-149).
SecondInitPanics ==
    [][\A t \in Threads : InitSkips(t) => ret'[t] = "panicked"]_vars
=============================================================================
