---------------------------- MODULE RuntimeProofs ----------------------------
(***************************************************************************)
(* Proofs of the safety properties of Runtime, for any users, jobs and     *)
(* threads.                                                                *)
(***************************************************************************)
EXTENDS Runtime, FiniteSetTheorems, TLAPS

(***************************************************************************)
(* The inductive invariant.  That nothing is given up while it is owned is *)
(* a matter of order: the last clone, then the signal, then the drop of    *)
(* the tokio runtime, and only then does a worker stop (OwnerInv).  That   *)
(* nothing is left takes two more facts: a running job has a thread of its *)
(* own (WorkInv), and a thread that leaves closes the queue it served      *)
(* (QueueInv).  The gauges count threads (GaugeInv).                       *)
(***************************************************************************)

\* Nothing happens to a runtime that is not there yet, or was refused.
Untouched == \A j \in Jobs : job[j] = "new"

OwnerInv ==
    /\ signal => holders = {}
    /\ blocker \in {"none", "refused"} => holders = {} /\ ~signal /\ Untouched
    /\ blocker = "waiting" => \A j \in Jobs : job[j] # "cancelled"
    /\ blocker \in {"dropping", "exited"} => signal
    /\ \A j \in holders \cap Jobs : job[j] \notin {"new"} \cup Ended

ThreadInv ==
    /\ blocker = "none" => AllThreadsEnded
    /\ blocker = "waiting" => \A w \in Workers : thread[w] \in Scheduling
    /\ Down => AllThreadsEnded
    /\ \A x \in Extra : thread[x] \in Pooled

WorkInv ==
    /\ \A th \in Threads :
        /\ thread[th] = "polling" <=> work[th] \in Tasks
        /\ thread[th] = "running" <=> work[th] \in Functions
        /\ work[th] \in Jobs => job[work[th]] = "running"
    /\ \A th, tg \in Threads : work[th] = work[tg] /\ work[th] \in Jobs => th = tg
    /\ \A j \in Jobs : job[j] = "running" => \E th \in Threads : work[th] = j

QueueInv ==
    /\ \A f \in Functions : job[f] # "waiting"
    /\ SchedulerStopped => \A t \in Tasks : job[t] \notin {"queued", "waiting"}
    /\ blocker # "none" /\ (\E w \in Workers : thread[w] = "none")
         => Queued(Functions) = {}

Alive == {th \in Threads : thread[th] \notin {"none", "launched"}}
Parked == {w \in Workers : thread[w] = "parked"}

GaugeInv ==
    /\ alive = Cardinality(Alive)
    /\ idle = Cardinality(Parked)

StateTypeOK ==
    /\ holders \subseteq Users \cup Jobs
    /\ signal \in BOOLEAN
    /\ blocker \in {"none", "waiting", "dropping", "exited",
                    "refused", "returned"}
    /\ thread \in [Threads -> Scheduling \cup Pooled]
    /\ work \in [Threads -> Jobs \cup {Nobody}]
    /\ job \in [Jobs -> {"new", "queued", "running", "waiting"} \cup Ended]
    /\ handleOf \in [Jobs -> Users \cup Functions \cup {Nobody}]
    /\ blocked \subseteq Jobs

CoreInv == StateTypeOK /\ OwnerInv /\ ThreadInv /\ WorkInv /\ QueueInv

IInv == CoreInv /\ GaugeInv

----------------------------------------------------------------------------
(* What the helpers of the actions do                                      *)

\* Whoever lets go, the signal is sent only when nobody is left.
LEMMA Signalled ==
  ASSUME StateTypeOK, signal => holders = {}, NEW S, LetGo(S)
  PROVE  /\ holders' = holders \ S
         /\ signal' \in BOOLEAN
         /\ signal => signal'
         /\ signal' => holders' = {}
  BY DEF LetGo, StateTypeOK

LEMMA Moved ==
  ASSUME StateTypeOK, NEW th \in Threads, NEW from,
         NEW to \in Scheduling \cup Pooled, Moves(th, from, to)
  PROVE  /\ thread' \in [Threads -> Scheduling \cup Pooled]
         /\ thread[th] = from /\ thread'[th] = to
         /\ \A tg \in Threads : tg # th => thread'[tg] = thread[tg]
  BY DEF Moves, StateTypeOK

\* While somebody holds a clone the runtime serves, or was refused.
LEMMA Owned ==
  ASSUME CoreInv, holders # {}
  PROVE  /\ blocker \in {"waiting", "returned"} /\ ~signal /\ ~Closed
         /\ blocker = "waiting" <=> ~SchedulerStopped
         /\ blocker = "returned" <=> Down
<1>1. blocker \in {"waiting", "returned"} /\ ~signal
  BY DEF CoreInv, StateTypeOK, OwnerInv
<1>2. ASSUME blocker = "waiting"
      PROVE  ~SchedulerStopped
  BY <1>2 DEF CoreInv, ThreadInv, SchedulerStopped
<1>3. ASSUME blocker = "returned"
      PROVE  SchedulerStopped
  BY <1>3, ThreadsAssumption
  DEF CoreInv, ThreadInv, Down, AllThreadsEnded, SchedulerStopped, Threads,
      Scheduling
<1> QED
  BY <1>1, <1>2, <1>3 DEF Closed, Down

----------------------------------------------------------------------------
(* CoreInv is inductive                                                    *)

LEMMA CoreInit == Init => CoreInv
<1> SUFFICES ASSUME Init PROVE CoreInv
  OBVIOUS
<1>1. StateTypeOK
  BY DEF Init, StateTypeOK, Pooled
<1>2. OwnerInv
  BY DEF Init, OwnerInv, Untouched
<1>3. ThreadInv
  BY DEF Init, ThreadInv, AllThreadsEnded, Pooled, Threads, Down
<1>4. WorkInv
  BY JobsAssumption DEF Init, WorkInv, Jobs
<1>5. QueueInv
  BY DEF Init, QueueInv, SchedulerStopped, Jobs
<1> QED
  BY <1>1, <1>2, <1>3, <1>4, <1>5 DEF CoreInv

LEMMA CoreBuilding ==
  ASSUME CoreInv, Building
  PROVE  CoreInv'
<1> USE DEF CoreInv, StateTypeOK, OwnerInv, ThreadInv, WorkInv, QueueInv
<1>1. ASSUME blocker = "none", Launch, blocker' \in {"waiting", "refused"},
             holders' \subseteq Users, blocker' = "refused" => holders' = {},
             UNCHANGED <<signal, work, job, joins>>
      PROVE  CoreInv'
  <2>1. StateTypeOK'
    BY <1>1 DEF Launch, Scheduling, Pooled, joins
  <2>2. OwnerInv'
    BY <1>1, JobsAssumption DEF Untouched, Jobs
  <2>3. ThreadInv'
    BY <1>1, ThreadsAssumption, JobsAssumption
    DEF Launch, AllThreadsEnded, Scheduling, Pooled, Threads, Down
  <2>4. WorkInv'
    BY <1>1 DEF Launch, Untouched, AllThreadsEnded, Jobs
  <2>5. QueueInv'
    BY <1>1 DEF Launch, Untouched, Jobs, Queued
  <2> QED
    BY <2>1, <2>2, <2>3, <2>4, <2>5
<1>2. ASSUME NEW u \in Users, Build(u)
      PROVE  CoreInv'
  BY <1>1, <1>2 DEF Build
<1>3. CASE BuildRefused
  BY <1>1, <1>3 DEF BuildRefused, clones
<1>4. ASSUME NEW u \in Users, BuildReturns(u)
      PROVE  CoreInv'
  BY <1>4, JobsAssumption
  DEF BuildReturns, joins, Untouched, AllThreadsEnded, Jobs, Down, SchedulerStopped, Queued
<1> QED
  BY <1>2, <1>3, <1>4 DEF Building

\* A function gets a thread that was idle or is new, if there is one.
LEMMA Recruited ==
  ASSUME StateTypeOK, Recruit
  PROVE  /\ thread' \in [Threads -> Scheduling \cup Pooled]
         /\ \A th \in Threads :
               \/ thread'[th] = thread[th]
               \/ thread[th] = "idle" /\ thread'[th] = "notified"
               \/ thread[th] = "none" /\ thread'[th] = "launched"
  BY DEF Recruit, StateTypeOK, Scheduling, Pooled

\* Only a runtime that serves accepts a job.
LEMMA CoreAccepted ==
  ASSUME CoreInv, NEW a \in Users \cup Jobs, NEW j \in Jobs, Accepted(a, j),
         ~SchedulerStopped,
         (j \in Tasks /\ thread' = thread) \/ (j \in Functions /\ Recruit)
  PROVE  CoreInv'
<1>1. holders # {} /\ job[j] = "new"
  BY DEF Accepted, CanAct
<1>2. blocker = "waiting" /\ ~signal /\ UNCHANGED <<signal, blocker, work, blocked>>
  BY <1>1, Owned DEF Accepted, CoreInv, StateTypeOK
<1>3. job' = [job EXCEPT ![j] = "queued"] /\ holders' \in {holders, holders \cup {j}}
  BY DEF Accepted
<1>4. /\ thread' \in [Threads -> Scheduling \cup Pooled]
      /\ \A th \in Threads :
            \/ thread'[th] = thread[th]
            \/ thread[th] = "idle" /\ thread'[th] = "notified"
            \/ thread[th] = "none" /\ thread'[th] = "launched"
  BY Recruited DEF CoreInv, StateTypeOK
<1>5. \A w \in Workers : thread'[w] = thread[w] /\ thread[w] \in Scheduling
  BY <1>2, <1>4 DEF CoreInv, ThreadInv, Threads, Scheduling
<1>6. StateTypeOK'
  <2>1. handleOf' \in [Jobs -> Users \cup Functions \cup {Nobody}]
    BY JobsAssumption DEF Accepted, KeepHandle, CoreInv, StateTypeOK, Jobs
  <2> QED
    BY <1>2, <1>3, <1>4, <2>1 DEF CoreInv, StateTypeOK
<1>7. OwnerInv'
  BY <1>1, <1>2, <1>3 DEF CoreInv, StateTypeOK, OwnerInv, Ended
<1>8. ThreadInv'
  BY <1>2, <1>4, <1>5 DEF CoreInv, ThreadInv, Down, Threads, Pooled
<1>9. WorkInv'
  BY <1>1, <1>2, <1>3, <1>4 DEF CoreInv, StateTypeOK, WorkInv, Threads
<1>10. QueueInv'
  BY <1>1, <1>2, <1>3, <1>5
  DEF CoreInv, StateTypeOK, QueueInv, SchedulerStopped, Scheduling, Jobs
<1> QED
  BY <1>6, <1>7, <1>8, <1>9, <1>10 DEF CoreInv

\* Only one that was refused rejects it.
LEMMA CoreRejected ==
  ASSUME CoreInv, NEW a \in Users \cup Jobs, NEW j \in Jobs, Rejected(a, j),
         SchedulerStopped \/ Closed \/ Down
  PROVE  CoreInv'
<1>1. holders # {} /\ job[j] = "new"
  BY DEF Rejected, CanAct
<1>2. blocker = "returned"
  BY <1>1, Owned
<1>3. /\ job' = [job EXCEPT ![j] = "cancelled"]
      /\ UNCHANGED <<holders, signal, blocker, thread, work, blocked>>
  BY DEF Rejected, clones
<1>4. StateTypeOK'
  <2>1. handleOf' \in [Jobs -> Users \cup Functions \cup {Nobody}]
    BY JobsAssumption DEF Rejected, KeepHandle, CoreInv, StateTypeOK, Jobs
  <2> QED
    BY <1>3, <2>1 DEF CoreInv, StateTypeOK, Ended
<1>5. OwnerInv'
  BY <1>1, <1>2, <1>3 DEF CoreInv, StateTypeOK, OwnerInv
<1>6. ThreadInv'
  BY <1>3 DEF CoreInv, ThreadInv, AllThreadsEnded, Down
<1>7. WorkInv'
  BY <1>1, <1>3 DEF CoreInv, StateTypeOK, WorkInv
<1>8. QueueInv'
  BY <1>1, <1>3 DEF CoreInv, StateTypeOK, QueueInv, SchedulerStopped, Queued, Jobs
<1> QED
  BY <1>4, <1>5, <1>6, <1>7, <1>8 DEF CoreInv

\* A holder shares its clone, gives the runtime a job, or waits for one.
LEMMA CoreHolding ==
  ASSUME CoreInv, NEW a \in Users \cup Jobs, Holding(a)
  PROVE  CoreInv'
<1>1. CASE Clone(a)
  <2>1. blocker \in {"waiting", "returned"} /\ ~signal
    BY <1>1, Owned DEF Clone, CanAct
  <2> QED
    BY <1>1, <2>1, JobsAssumption
    DEF Clone, joins, CoreInv, StateTypeOK, OwnerInv, ThreadInv, WorkInv, QueueInv,
        AllThreadsEnded, Down, SchedulerStopped, Queued, Jobs
<1>2. CASE Drop(a)
  <2>1. /\ holders' \subseteq holders
        /\ signal' \in BOOLEAN /\ (signal => signal') /\ (signal' => holders' = {})
    BY <1>2, Signalled DEF Drop, CoreInv, OwnerInv
  <2>2. blocker \in {"waiting", "returned"}
    BY <1>2, Owned DEF Drop, CanAct
  <2> QED
    BY <1>2, <2>1, <2>2
    DEF Drop, joins, CoreInv, StateTypeOK, OwnerInv, ThreadInv, WorkInv, QueueInv,
        AllThreadsEnded, Down, SchedulerStopped, Queued
<1>3. ASSUME NEW t \in Tasks, Spawn(a, t)
      PROVE  CoreInv'
  <2>1. t \in Jobs
    BY DEF Jobs
  <2>2. CASE SchedulerStopped
    BY <1>3, <2>1, <2>2, CoreRejected DEF Spawn
  <2>3. CASE ~SchedulerStopped
    <3>1. Accepted(a, t) /\ thread' = thread
      BY <1>3, <2>3 DEF Spawn
    <3> QED
      BY <2>1, <2>3, <3>1, CoreAccepted
  <2> QED
    BY <2>2, <2>3
<1>4. ASSUME NEW f \in Functions, SpawnBlocking(a, f)
      PROVE  CoreInv'
  <2>1. CASE Closed \/ Down
    BY <1>4, <2>1, CoreRejected DEF SpawnBlocking, Jobs
  <2>2. CASE ~(Closed \/ Down)
    <3>1. ~SchedulerStopped
      BY <1>4, <2>2, Owned DEF SpawnBlocking, Accepted, CanAct
    <3> QED
      BY <1>4, <2>2, <3>1, CoreAccepted DEF SpawnBlocking, Jobs
  <2> QED
    BY <2>1, <2>2
<1>5. ASSUME NEW j \in Jobs, BlockOn(a, j)
      PROVE  CoreInv'
  BY <1>5
  DEF BlockOn, clones, CoreInv, StateTypeOK, OwnerInv, ThreadInv, WorkInv, QueueInv,
      AllThreadsEnded, Down, SchedulerStopped, Queued, Untouched
<1> QED
  BY <1>1, <1>2, <1>3, <1>4, <1>5 DEF Holding

\* A thread that has work, or looks for some, belongs to a runtime that is there.
LEMMA Present ==
  ASSUME CoreInv, NEW th \in Threads, thread[th] # "none"
  PROVE  blocker \in {"waiting", "dropping", "refused"}
  BY DEF CoreInv, StateTypeOK, ThreadInv, AllThreadsEnded, Down

\* A thread moves, and takes up or lays down no job.
LEMMA CoreMoves ==
  ASSUME CoreInv, NEW th \in Threads, NEW from \in Scheduling \cup Pooled,
         NEW to \in Scheduling \cup Pooled, Moves(th, from, to),
         {from, to} \cap {"none", "polling", "running"} = {},
         from = "launched"
            \/ {from, to} \subseteq Scheduling \ {"launched"}
            \/ {from, to} \subseteq Pooled \ {"launched"},
         to # "launched",
         from = "launched" => (th \in Workers <=> to \in Scheduling),
         UNCHANGED <<clones, blocker, work, job, joins>>
  PROVE  CoreInv'
<1>1. /\ thread' \in [Threads -> Scheduling \cup Pooled]
      /\ thread[th] = from /\ thread'[th] = to
      /\ \A tg \in Threads : tg # th => thread'[tg] = thread[tg]
  BY Moved DEF CoreInv
<1>2. blocker \in {"waiting", "dropping", "refused"}
  BY <1>1, Present
<1>3. UNCHANGED <<holders, signal, blocker, work, job, handleOf, blocked>>
  BY DEF clones, joins
<1>4. StateTypeOK' /\ OwnerInv'
  BY <1>1, <1>3 DEF CoreInv, StateTypeOK, OwnerInv, Untouched
<1>5. ThreadInv'
  <2>1. \A x \in Extra : x \notin Workers
    BY JobsAssumption
  <2>2. blocker = "waiting" /\ th \in Workers => to \in Scheduling
    BY <1>1 DEF CoreInv, ThreadInv, Scheduling, Pooled
  <2>3. th \in Extra => to \in Pooled
    BY <1>1, <2>1 DEF CoreInv, ThreadInv, Scheduling, Pooled
  <2>4. blocker' = "waiting" => \A w \in Workers : thread'[w] \in Scheduling
    BY <1>1, <1>3, <2>2 DEF CoreInv, ThreadInv, Threads
  <2>5. \A x \in Extra : thread'[x] \in Pooled
    BY <1>1, <2>3 DEF CoreInv, ThreadInv, Threads
  <2>6. blocker' # "none" /\ ~Down'
    BY <1>2, <1>3 DEF Down
  <2> QED
    BY <2>4, <2>5, <2>6 DEF ThreadInv
<1>6. WorkInv'
  <2>1. from \notin {"polling", "running"} /\ to \notin {"polling", "running"}
    OBVIOUS
  <2>2. /\ \A tg \in Threads : thread'[tg] = "polling" <=> thread[tg] = "polling"
        /\ \A tg \in Threads : thread'[tg] = "running" <=> thread[tg] = "running"
    BY <1>1, <2>1
  <2>3. work' = work /\ job' = job
    BY <1>3
  <2>4. WorkInv
    BY DEF CoreInv
  <2> QED
    BY <2>2, <2>3, <2>4 DEF WorkInv
<1>7. QueueInv'
  <2>1. SchedulerStopped' => SchedulerStopped
    BY <1>1, <1>3 DEF SchedulerStopped, Scheduling, Pooled, Threads
  <2> QED
    BY <1>1, <1>3, <2>1 DEF CoreInv, QueueInv, Queued, Threads
<1> QED
  BY <1>4, <1>5, <1>6, <1>7 DEF CoreInv

\* A thread is done with its job, which lets go of its clone.
LEMMA CoreFinishes ==
  ASSUME CoreInv, NEW th \in Threads, NEW from, NEW to, NEW outcome \in Ended,
         Finishes(th, from, to, outcome),
         \/ from = "polling" /\ to = "searching"
         \/ from = "running" /\ to = "busy",
         outcome = "cancelled" => SchedulerStopped
  PROVE  CoreInv'
<1>1. /\ thread' \in [Threads -> Scheduling \cup Pooled]
      /\ thread[th] = from /\ thread'[th] = to
      /\ \A tg \in Threads : tg # th => thread'[tg] = thread[tg]
  BY Moved DEF Finishes, CoreInv, Scheduling, Pooled
<1>2. /\ UNCHANGED <<blocker, handleOf, blocked>>
      /\ work' = [work EXCEPT ![th] = Nobody]
      /\ job' = [job EXCEPT ![work[th]] = outcome]
  BY DEF Finishes, joins
<1>3. work[th] \in Jobs /\ job[work[th]] = "running"
  BY <1>1 DEF CoreInv, WorkInv, Jobs
<1>4. blocker \in {"waiting", "dropping"}
  BY <1>1, <1>3, Present DEF CoreInv, OwnerInv, Untouched
<1>5. /\ holders' = holders \ {work[th]}
      /\ signal' \in BOOLEAN /\ (signal => signal') /\ (signal' => holders' = {})
  BY Signalled DEF Finishes, CoreInv, OwnerInv
<1>6. StateTypeOK'
  BY <1>1, <1>2, <1>3, <1>5 DEF CoreInv, StateTypeOK
<1>7. OwnerInv'
  <2>1. blocker = "waiting" => ~SchedulerStopped
    BY DEF CoreInv, ThreadInv, SchedulerStopped
  <2> QED
    BY <1>2, <1>3, <1>4, <1>5, <2>1 DEF CoreInv, StateTypeOK, OwnerInv, Ended
<1>8. ThreadInv'
  BY <1>1, <1>2, <1>4 DEF CoreInv, ThreadInv, Down, Threads, Scheduling, Pooled
<1>9. WorkInv'
  <2>1. Nobody \notin Jobs /\ work \in [Threads -> Jobs \cup {Nobody}]
    BY JobsAssumption DEF Jobs, CoreInv, StateTypeOK
  <2>2. /\ work'[th] = Nobody
        /\ \A tg \in Threads : tg # th => work'[tg] = work[tg] /\ work[tg] # work[th]
    BY <1>2, <1>3, <2>1 DEF CoreInv, WorkInv
  <2>3. \A j \in Jobs : j # work[th] => job'[j] = job[j]
    BY <1>2, <1>3 DEF CoreInv, StateTypeOK
  <2>4. job'[work[th]] # "running"
    BY <1>2, <1>3 DEF CoreInv, StateTypeOK, Ended
  <2> QED
    BY <1>1, <2>1, <2>2, <2>3, <2>4 DEF CoreInv, WorkInv, Jobs
<1>10. QueueInv'
  <2>1. SchedulerStopped' => SchedulerStopped
    BY <1>1, <1>2 DEF SchedulerStopped, Scheduling, Threads
  <2> QED
    BY <1>1, <1>2, <1>3, <2>1
    DEF CoreInv, StateTypeOK, QueueInv, Queued, Threads, Jobs, Ended
<1> QED
  BY <1>6, <1>7, <1>8, <1>9, <1>10 DEF CoreInv

\* A thread takes a job from its queue.
LEMMA CoreTakes ==
  ASSUME CoreInv, NEW th \in Threads, NEW j \in Jobs, job[j] = "queued",
         \/ /\ j \in Tasks /\ th \in Workers
            /\ Moves(th, "searching", "polling")
         \/ /\ j \in Functions
            /\ Moves(th, "busy", "running"),
         work' = [work EXCEPT ![th] = j],
         job' = [job EXCEPT ![j] = "running"],
         UNCHANGED <<clones, blocker, joins>>
  PROVE  CoreInv'
<1> DEFINE to == IF j \in Tasks THEN "polling" ELSE "running"
           from == IF j \in Tasks THEN "searching" ELSE "busy"
<1>1. /\ thread' \in [Threads -> Scheduling \cup Pooled]
      /\ thread[th] = from /\ thread'[th] = to
      /\ \A tg \in Threads : tg # th => thread'[tg] = thread[tg]
  BY Moved, JobsAssumption DEF CoreInv, Scheduling, Pooled
<1>2. blocker \in {"waiting", "dropping"}
  BY <1>1, Present DEF CoreInv, OwnerInv, Untouched
<1>3. work[th] \notin Jobs
  BY <1>1 DEF CoreInv, WorkInv, Jobs
<1>4. UNCHANGED <<holders, signal, blocker, handleOf, blocked>>
  BY DEF clones, joins
<1>5. StateTypeOK' /\ OwnerInv'
  BY <1>1, <1>2, <1>4 DEF CoreInv, StateTypeOK, OwnerInv, Ended
<1>6. ThreadInv'
  BY <1>1, <1>2, <1>4, ThreadsAssumption, JobsAssumption
  DEF CoreInv, ThreadInv, Down, Threads, Scheduling, Pooled
<1>7. WorkInv'
  <2>1. /\ work'[th] = j
        /\ \A tg \in Threads : tg # th => work'[tg] = work[tg] /\ work[tg] # j
    BY DEF CoreInv, StateTypeOK, WorkInv
  <2>2. /\ job'[j] = "running"
        /\ \A k \in Jobs : k # j => job'[k] = job[k]
    BY DEF CoreInv, StateTypeOK
  <2> QED
    BY <1>1, <1>3, <2>1, <2>2, JobsAssumption DEF CoreInv, WorkInv, Jobs
<1>8. QueueInv'
  <2>1. SchedulerStopped' => SchedulerStopped
    BY <1>1, <1>4 DEF SchedulerStopped, Scheduling, Threads
  <2> QED
    BY <1>1, <1>4, <2>1
    DEF CoreInv, StateTypeOK, QueueInv, Queued, Threads, Jobs
<1> QED
  BY <1>5, <1>6, <1>7, <1>8 DEF CoreInv

\* A poll that is Pending gives the worker back and leaves the task to wait.
LEMMA CoreWaits ==
  ASSUME CoreInv, NEW w \in Workers, ~SchedulerStopped,
         Moves(w, "polling", "searching"),
         job' = [job EXCEPT ![work[w]] = "waiting"],
         work' = [work EXCEPT ![w] = Nobody],
         UNCHANGED <<clones, blocker, joins>>
  PROVE  CoreInv'
<1>1. /\ thread' \in [Threads -> Scheduling \cup Pooled]
      /\ thread[w] = "polling" /\ thread'[w] = "searching"
      /\ \A tg \in Threads : tg # w => thread'[tg] = thread[tg]
  BY Moved DEF CoreInv, Scheduling, Threads
<1>2. w \in Threads /\ work[w] \in Tasks /\ job[work[w]] = "running"
  BY <1>1 DEF CoreInv, WorkInv, Threads, Jobs
<1>3. blocker \in {"waiting", "dropping"}
  BY <1>1, <1>2, Present DEF CoreInv, OwnerInv, Untouched, Jobs
<1>4. UNCHANGED <<holders, signal, blocker, handleOf, blocked>>
  BY DEF clones, joins
<1>5. StateTypeOK' /\ OwnerInv'
  BY <1>1, <1>2, <1>3, <1>4 DEF CoreInv, StateTypeOK, OwnerInv, Ended, Jobs
<1>6. ThreadInv'
  BY <1>1, <1>2, <1>3, <1>4 DEF CoreInv, ThreadInv, Down, Threads, Scheduling, Pooled
<1>7. WorkInv'
  <2>1. Nobody \notin Jobs /\ work \in [Threads -> Jobs \cup {Nobody}]
    BY JobsAssumption DEF Jobs, CoreInv, StateTypeOK
  <2>2. /\ work'[w] = Nobody
        /\ \A tg \in Threads : tg # w => work'[tg] = work[tg] /\ work[tg] # work[w]
    BY <1>2, <2>1 DEF CoreInv, WorkInv, Jobs
  <2>3. job'[work[w]] = "waiting" /\ \A j \in Jobs : j # work[w] => job'[j] = job[j]
    BY <1>2 DEF CoreInv, StateTypeOK, Jobs
  <2> QED
    BY <1>1, <2>1, <2>2, <2>3 DEF CoreInv, WorkInv, Jobs
<1>8. QueueInv'
  <2>1. ~SchedulerStopped'
    BY <1>1, <1>4 DEF SchedulerStopped, Scheduling, Threads
  <2> QED
    BY <1>1, <1>2, <1>4, <2>1, JobsAssumption
    DEF CoreInv, StateTypeOK, QueueInv, Queued, Threads, Jobs
<1> QED
  BY <1>5, <1>6, <1>7, <1>8 DEF CoreInv

\* A thread leaves the scheduler or the pool, and cancels what it served.  Nobody
\* holds a clone any more.
LEMMA CoreCloses ==
  ASSUME CoreInv, NEW th \in Threads, NEW from, NEW to, NEW S \in SUBSET Jobs,
         Closed, Moves(th, from, to), Cancel(S),
         \/ /\ from = "searching" /\ to = "busy" /\ th \in Workers
            /\ S = {t \in Tasks : job[t] \in {"queued", "waiting"}}
         \/ /\ from \in {"busy", "idle", "notified"} /\ to = "none"
            /\ S = Queued(Functions),
         UNCHANGED <<blocker, work, joins>>
  PROVE  CoreInv'
<1>1. /\ thread' \in [Threads -> Scheduling \cup Pooled]
      /\ thread[th] = from /\ thread'[th] = to
      /\ \A tg \in Threads : tg # th => thread'[tg] = thread[tg]
  BY Moved DEF CoreInv, Scheduling, Pooled
<1>2. blocker \in {"dropping", "refused"} /\ holders = {}
  BY DEF Closed, CoreInv, OwnerInv
<1>3. holders' = {} /\ signal' = signal
  BY <1>2 DEF Cancel, LetGo, CoreInv, StateTypeOK
<1>4. /\ job' = [j \in Jobs |-> IF j \in S THEN "cancelled" ELSE job[j]]
      /\ UNCHANGED <<handleOf, blocked>>
  BY DEF Cancel, joins
<1>5. \A j \in S : job[j] \in {"queued", "waiting"}
  BY DEF Queued
<1>6. blocker = "refused" => S = {}
  BY <1>5 DEF CoreInv, OwnerInv, Untouched
<1>7. StateTypeOK'
  BY <1>1, <1>3, <1>4 DEF CoreInv, StateTypeOK, Ended
<1>8. OwnerInv'
  BY <1>2, <1>3, <1>4, <1>6 DEF CoreInv, OwnerInv, Untouched
<1>9. ThreadInv'
  <2>1. th \in Extra => to \in Pooled
    BY <1>1, JobsAssumption DEF CoreInv, ThreadInv, Scheduling, Pooled
  <2> QED
    BY <1>1, <1>2, <2>1 DEF CoreInv, ThreadInv, Down, Threads
<1>10. WorkInv'
  <2>1. \A j \in Jobs : job'[j] = "running" <=> job[j] = "running"
    BY <1>4, <1>5
  <2> QED
    BY <1>1, <2>1 DEF CoreInv, WorkInv, Jobs
<1>11. QueueInv'
  <2>1. \A t \in Tasks : job[t] \notin {"queued", "waiting"} => job'[t] = job[t]
    BY <1>4, <1>5 DEF Jobs
  <2>2. CASE from = "searching"
    <3>1. \A t \in Tasks : job'[t] \notin {"queued", "waiting"}
      BY <1>4, <2>2 DEF Jobs
    <3>2. \A f \in Functions : job'[f] = job[f]
      BY <1>4, <2>2, JobsAssumption DEF Jobs
    <3> QED
      BY <1>1, <1>2, <2>2, <3>1, <3>2
      DEF CoreInv, QueueInv, Queued, Threads, Scheduling, Jobs
  <2>3. CASE from # "searching"
    <3>1. \A f \in Functions : job'[f] # "waiting"
      BY <1>4 DEF Jobs, CoreInv, QueueInv
    <3>2. Queued(Functions)' = {}
      BY <1>4, <2>3 DEF Queued, Jobs
    <3>3. SchedulerStopped' => SchedulerStopped
      BY <1>1, <1>2, <2>3 DEF SchedulerStopped, Scheduling, Threads
    <3> QED
      BY <2>1, <3>1, <3>2, <3>3 DEF CoreInv, QueueInv
  <2> QED
    BY <2>2, <2>3
<1> QED
  BY <1>7, <1>8, <1>9, <1>10, <1>11 DEF CoreInv

\* A thread that nobody needed for a while ends: no worker, as long as it serves.
LEMMA CoreKeepAliveEnds ==
  ASSUME CoreInv, NEW th \in Threads, KeepAliveEnds(th)
  PROVE  CoreInv'
<1>1. /\ thread' \in [Threads -> Scheduling \cup Pooled]
      /\ thread[th] = "idle" /\ thread'[th] = "none"
      /\ \A tg \in Threads : tg # th => thread'[tg] = thread[tg]
  BY Moved DEF KeepAliveEnds, CoreInv, Scheduling, Pooled
<1>2. blocker = "waiting" /\ th \in Extra
  BY <1>1, Present DEF KeepAliveEnds, Closed, CoreInv, ThreadInv, Scheduling, Threads
<1>3. UNCHANGED <<holders, signal, blocker, work, job, handleOf, blocked>>
  BY DEF KeepAliveEnds, clones, joins
<1>4. \A w \in Workers : thread'[w] = thread[w]
  BY <1>1, <1>2, JobsAssumption DEF Threads
<1>5. StateTypeOK' /\ OwnerInv'
  BY <1>1, <1>3 DEF CoreInv, StateTypeOK, OwnerInv, Untouched
<1>6. ThreadInv'
  BY <1>1, <1>2, <1>3, <1>4 DEF CoreInv, ThreadInv, Down, Threads, Pooled
<1>7. WorkInv'
  BY <1>1, <1>3 DEF CoreInv, WorkInv
<1>8. QueueInv'
  BY <1>3, <1>4 DEF CoreInv, QueueInv, SchedulerStopped, Queued
<1> QED
  BY <1>5, <1>6, <1>7, <1>8 DEF CoreInv

LEMMA CoreScheduler ==
  ASSUME CoreInv, NEW w \in Workers, Scheduler(w)
  PROVE  CoreInv'
<1> w \in Threads
  BY DEF Threads
<1>1. CASE Park(w)
  BY <1>1, CoreMoves DEF Park, Scheduling
<1>2. CASE Unpark(w)
  BY <1>2, CoreMoves DEF Unpark, Scheduling
<1>3. ASSUME NEW t \in Tasks, TakeTask(w, t)
      PROVE  CoreInv'
  BY <1>3, CoreTakes DEF TakeTask, Jobs
<1>4. CASE PollReady(w)
  BY <1>4, CoreFinishes DEF PollReady, Ended
<1>5. CASE PollPending(w) /\ SchedulerStopped
  BY <1>5, CoreFinishes DEF PollPending, Ended
<1>6. CASE PollPending(w) /\ ~SchedulerStopped
  BY <1>6, CoreWaits DEF PollPending
<1>7. CASE WorkerStops(w)
  BY <1>7, CoreCloses DEF WorkerStops, Jobs
<1> QED
  BY <1>1, <1>2, <1>3, <1>4, <1>5, <1>6, <1>7 DEF Scheduler

LEMMA CorePool ==
  ASSUME CoreInv, NEW th \in Threads, Pool(th)
  PROVE  CoreInv'
<1>1. CASE ThreadStarts(th)
  BY <1>1, CoreMoves DEF ThreadStarts, Scheduling, Pooled
<1>2. ASSUME NEW f \in Functions, TakeFunction(th, f)
      PROVE  CoreInv'
  BY <1>2, CoreTakes DEF TakeFunction, Jobs
<1>3. CASE FunctionReturns(th)
  BY <1>3, CoreFinishes DEF FunctionReturns, Ended
<1>4. CASE Rest(th) \/ Notified(th)
  BY <1>4, CoreMoves DEF Rest, Notified, Pooled
<1>5. CASE KeepAliveEnds(th)
  BY <1>5, CoreKeepAliveEnds
<1>6. CASE ThreadStops(th)
  BY <1>6, CoreCloses DEF ThreadStops, Queued, Jobs
<1> QED
  BY <1>1, <1>2, <1>3, <1>4, <1>5, <1>6 DEF Pool

\* A JoinHandle is answered, a task wakes, the blocker thread goes on.
LEMMA CoreRest ==
  ASSUME CoreInv,
         \/ \E j \in Jobs : BlockOnReturns(j)
         \/ \E t \in Tasks : TaskWakes(t)
         \/ BlockerWakes \/ BlockerExits
  PROVE  CoreInv'
<1> USE DEF CoreInv, StateTypeOK, OwnerInv, ThreadInv, WorkInv, QueueInv
<1>1. ASSUME NEW j \in Jobs, BlockOnReturns(j)
      PROVE  CoreInv'
  BY <1>1 DEF BlockOnReturns, clones, AllThreadsEnded, Down, SchedulerStopped,
              Queued, Untouched
<1>2. ASSUME NEW t \in Tasks, TaskWakes(t)
      PROVE  CoreInv'
  <2>1. t \in Jobs /\ t \notin Functions
    BY JobsAssumption DEF Jobs
  <2>2. /\ job[t] = "waiting" /\ job' = [job EXCEPT ![t] = "queued"]
        /\ UNCHANGED <<holders, signal, blocker, thread, work, handleOf, blocked>>
    BY <1>2 DEF TaskWakes, clones, joins
  <2>3. ~SchedulerStopped /\ blocker \notin {"none", "refused"}
    BY <2>1, <2>2 DEF Untouched
  <2> QED
    BY <2>1, <2>2, <2>3 DEF AllThreadsEnded, Down, SchedulerStopped, Queued, Jobs, Ended
<1>3. CASE BlockerWakes
  BY <1>3 DEF BlockerWakes, clones, joins, AllThreadsEnded, Down, SchedulerStopped,
              Queued
<1>4. CASE BlockerExits
  BY <1>4 DEF BlockerExits, clones, joins, AllThreadsEnded, Down, SchedulerStopped,
              Queued
<1> QED
  BY <1>1, <1>2, <1>3, <1>4

LEMMA CoreStep == CoreInv /\ [Next]_vars => CoreInv'
<1> SUFFICES ASSUME CoreInv, [Next]_vars PROVE CoreInv'
  OBVIOUS
<1>1. CASE Next
  BY <1>1, CoreBuilding, CoreHolding, CoreScheduler, CorePool, CoreRest DEF Next
<1>2. CASE UNCHANGED vars
  BY <1>2
  DEF vars, clones, joins, gauges, CoreInv, StateTypeOK, OwnerInv, ThreadInv,
      WorkInv, QueueInv, AllThreadsEnded, Down, SchedulerStopped, Queued, Untouched
<1> QED
  BY <1>1, <1>2

\* When the threads have all ended, every job that was accepted is over.
LEMMA NothingLeft ==
  ASSUME CoreInv, AllThreadsEnded, blocker # "none"
  PROVE  \A j \in Jobs : job[j] \notin {"queued", "running", "waiting"}
<1>1. \A j \in Jobs : job[j] # "running"
  BY JobsAssumption DEF CoreInv, WorkInv, AllThreadsEnded, Jobs
<1>2. SchedulerStopped /\ \E w \in Workers : thread[w] = "none"
  BY ThreadsAssumption DEF SchedulerStopped, AllThreadsEnded, Threads, Scheduling
<1>3. \A j \in Jobs : job[j] \notin {"queued", "waiting"}
  BY <1>2 DEF CoreInv, QueueInv, Queued, Jobs
<1> QED
  BY <1>1, <1>3

----------------------------------------------------------------------------
(* The gauges count threads                                                *)

LEMMA Countable ==
  /\ IsFiniteSet(Threads) /\ IsFiniteSet(Alive) /\ IsFiniteSet(Parked)
  /\ Cardinality(Alive) \in 0 .. Cardinality(Threads)
  /\ Cardinality(Parked) \in 0 .. Cardinality(Workers)
<1>1. IsFiniteSet(Threads)
  BY FS_Union, ThreadsAssumption DEF Threads
<1>2. Alive \in SUBSET Threads /\ Parked \in SUBSET Workers
  BY DEF Alive, Parked
<1> QED
  BY <1>1, <1>2, FS_Subset, FS_CardinalityType, ThreadsAssumption

\* One thread more, or one less, or as many as before.
LEMMA Counted ==
  ASSUME StateTypeOK, NEW th \in Threads, NEW from,
         NEW to \in Scheduling \cup Pooled, Moves(th, from, to)
  PROVE  /\ from = "launched" /\ to \notin {"none", "launched"} =>
               Cardinality(Alive') = Cardinality(Alive) + 1
         /\ from \notin {"none", "launched"} /\ to = "none" =>
               Cardinality(Alive') = Cardinality(Alive) - 1
         /\ {from, to} \cap {"none", "launched"} = {} =>
               Cardinality(Alive') = Cardinality(Alive)
         /\ th \in Workers /\ from # "parked" /\ to = "parked" =>
               Cardinality(Parked') = Cardinality(Parked) + 1
         /\ th \in Workers /\ from = "parked" /\ to # "parked" =>
               Cardinality(Parked') = Cardinality(Parked) - 1
         /\ from # "parked" /\ to # "parked" =>
               Cardinality(Parked') = Cardinality(Parked)
<1>1. /\ thread' \in [Threads -> Scheduling \cup Pooled]
      /\ thread[th] = from /\ thread'[th] = to
      /\ \A tg \in Threads : tg # th => thread'[tg] = thread[tg]
  BY Moved
<1>2. IsFiniteSet(Alive) /\ IsFiniteSet(Parked)
  BY Countable
<1>3. ASSUME from = "launched", to \notin {"none", "launched"}
      PROVE  Alive' = Alive \cup {th} /\ th \notin Alive
  BY <1>1, <1>3 DEF Alive
<1>4. ASSUME from \notin {"none", "launched"}, to = "none"
      PROVE  Alive' = Alive \ {th} /\ th \in Alive
  BY <1>1, <1>4 DEF Alive
<1>5. ASSUME {from, to} \cap {"none", "launched"} = {}
      PROVE  Alive' = Alive
  BY <1>1, <1>5 DEF Alive
<1>6. ASSUME th \in Workers, from # "parked", to = "parked"
      PROVE  Parked' = Parked \cup {th} /\ th \notin Parked
  BY <1>1, <1>6 DEF Parked, Threads
<1>7. ASSUME th \in Workers, from = "parked", to # "parked"
      PROVE  Parked' = Parked \ {th} /\ th \in Parked
  BY <1>1, <1>7 DEF Parked, Threads
<1>8. ASSUME from # "parked", to # "parked"
      PROVE  Parked' = Parked
  BY <1>1, <1>8 DEF Parked, Threads
<1> QED
  BY <1>2, <1>3, <1>4, <1>5, <1>6, <1>7, <1>8, FS_AddElement, FS_RemoveElement

\* A step that moves no gauge and no thread in or out of those they count.
LEMMA GaugeSame ==
  ASSUME GaugeInv, UNCHANGED gauges, Alive' = Alive, Parked' = Parked
  PROVE  GaugeInv'
  BY DEF GaugeInv, gauges

LEMMA GaugeInit == Init => GaugeInv
<1> SUFFICES ASSUME Init PROVE GaugeInv
  OBVIOUS
<1>1. Alive = {} /\ Parked = {}
  BY DEF Init, Alive, Parked, Threads
<1> QED
  BY <1>1, FS_EmptySet DEF Init, GaugeInv

\* A runtime that is made has no thread yet that its hooks have seen.
LEMMA GaugeBuilding ==
  ASSUME CoreInv, GaugeInv, Building
  PROVE  GaugeInv'
<1>1. UNCHANGED gauges
  BY DEF Building, BuildRefused, Build, BuildReturns
<1>2. CASE blocker = "none"
  <2>1. AllThreadsEnded /\ Launch
    BY <1>2 DEF CoreInv, ThreadInv, Building, BuildRefused, Build, BuildReturns
  <2> QED
    BY <1>1, <2>1, GaugeSame DEF AllThreadsEnded, Launch, Alive, Parked, Threads
<1>3. CASE blocker # "none"
  BY <1>1, <1>3, GaugeSame
  DEF Building, BuildRefused, Build, BuildReturns, Alive, Parked
<1> QED
  BY <1>2, <1>3

LEMMA GaugeScheduler ==
  ASSUME CoreInv, GaugeInv, NEW w \in Workers, Scheduler(w)
  PROVE  GaugeInv'
<1> w \in Threads
  BY DEF Threads
<1> USE Countable DEF CoreInv, GaugeInv, Scheduling, Pooled
<1>1. CASE Park(w)
  BY <1>1, Counted DEF Park
<1>2. CASE Unpark(w)
  BY <1>2, Counted DEF Unpark
<1>3. CASE \E t \in Tasks : TakeTask(w, t)
  BY <1>3, Counted DEF TakeTask, gauges
<1>4. CASE PollReady(w) \/ PollPending(w)
  BY <1>4, Counted DEF PollReady, PollPending, Finishes, gauges
<1>5. CASE WorkerStops(w)
  BY <1>5, Counted DEF WorkerStops, gauges
<1> QED
  BY <1>1, <1>2, <1>3, <1>4, <1>5 DEF Scheduler

LEMMA GaugePool ==
  ASSUME CoreInv, GaugeInv, NEW th \in Threads, Pool(th)
  PROVE  GaugeInv'
<1> USE Countable DEF CoreInv, GaugeInv, Scheduling, Pooled
<1>1. CASE ThreadStarts(th)
  BY <1>1, Counted DEF ThreadStarts
<1>2. CASE \E f \in Functions : TakeFunction(th, f)
  BY <1>2, Counted DEF TakeFunction, gauges
<1>3. CASE FunctionReturns(th)
  BY <1>3, Counted DEF FunctionReturns, Finishes, gauges
<1>4. CASE Rest(th) \/ Notified(th)
  BY <1>4, Counted DEF Rest, Notified, gauges
<1>5. CASE KeepAliveEnds(th)
  BY <1>5, Counted DEF KeepAliveEnds
<1>6. CASE ThreadStops(th)
  BY <1>6, Counted DEF ThreadStops
<1> QED
  BY <1>1, <1>2, <1>3, <1>4, <1>5, <1>6 DEF Pool

\* What a holder, a JoinHandle, a wake-up or the blocker does is no business of
\* the hooks: the thread that spawn_blocking() launches has not started yet.
LEMMA GaugeRest ==
  ASSUME CoreInv, GaugeInv,
         \/ \E a \in Users \cup Jobs : Holding(a)
         \/ \E j \in Jobs : BlockOnReturns(j)
         \/ \E t \in Tasks : TaskWakes(t)
         \/ BlockerWakes \/ BlockerExits
  PROVE  GaugeInv'
<1>1. ASSUME NEW a \in Users \cup Jobs, NEW f \in Functions, SpawnBlocking(a, f)
      PROVE  GaugeInv'
  <2>1. UNCHANGED gauges /\ (thread' = thread \/ Recruit)
    BY <1>1 DEF SpawnBlocking, Accepted, Rejected
  <2>2. CASE thread' = thread
    BY <2>1, <2>2, GaugeSame DEF Alive, Parked
  <2>3. CASE Recruit
    <3>1. \A th \in Threads :
            /\ thread'[th] \in {"none", "launched"}
                 <=> thread[th] \in {"none", "launched"}
            /\ thread'[th] = "parked" <=> thread[th] = "parked"
      BY <2>3, Recruited DEF CoreInv
    <3>2. Alive' = Alive /\ Parked' = Parked
      BY <3>1 DEF Alive, Parked, Threads
    <3> QED
      BY <2>1, <3>2, GaugeSame
  <2> QED
    BY <2>1, <2>2, <2>3
<1>2. ASSUME UNCHANGED <<thread, gauges>>
      PROVE  GaugeInv'
  BY <1>2, GaugeSame DEF Alive, Parked
<1>3. ASSUME NEW a \in Users \cup Jobs, Holding(a)
      PROVE  GaugeInv'
  BY <1>1, <1>2, <1>3
  DEF Holding, Clone, Drop, Spawn, Accepted, Rejected, BlockOn
<1>4. CASE (\E j \in Jobs : BlockOnReturns(j)) \/ \E t \in Tasks : TaskWakes(t)
  BY <1>2, <1>4 DEF BlockOnReturns, TaskWakes
<1>5. CASE BlockerWakes \/ BlockerExits
  BY <1>2, <1>5 DEF BlockerWakes, BlockerExits
<1> QED
  BY <1>3, <1>4, <1>5

LEMMA InvStep == IInv /\ [Next]_vars => IInv'
<1> SUFFICES ASSUME IInv, [Next]_vars PROVE IInv'
  OBVIOUS
<1>1. CoreInv'
  BY CoreStep DEF IInv
<1>2. GaugeInv'
  <2>1. CASE Next
    BY <2>1, GaugeBuilding, GaugeScheduler, GaugePool, GaugeRest DEF Next, IInv
  <2>2. CASE UNCHANGED vars
    BY <2>2, GaugeSame DEF vars, gauges, Alive, Parked, IInv
  <2> QED
    BY <2>1, <2>2
<1> QED
  BY <1>1, <1>2 DEF IInv

----------------------------------------------------------------------------
(* What follows                                                            *)

\* Every reachable state satisfies the inductive invariant.
THEOREM Invariant == Spec => []IInv
  BY CoreInit, GaugeInit, InvStep, PTL DEF Spec, IInv

\* Every variable keeps its type, and no gauge goes below zero or above the
\* number of threads it counts (runtime.rs:32-51 and 184-214, metrics.rs).
THEOREM TypeCorrect == Spec => []TypeOK
<1>1. IInv => TypeOK
  BY Countable DEF IInv, CoreInv, StateTypeOK, GaugeInv, TypeOK
<1> QED
  BY <1>1, Invariant, PTL

\* No job is given up while anybody, a job included, still holds a clone
\* (runtime.rs:46-51 and 158-171).
THEOREM OwnedIsServed == Spec => []NothingCancelledWhileOwned
<1>1. IInv => NothingCancelledWhileOwned
  BY DEF IInv, CoreInv, StateTypeOK, OwnerInv, Untouched, NothingCancelledWhileOwned
<1> QED
  BY <1>1, Invariant, PTL

\* A runtime that is down has left no job, no thread and no count behind
\* (runtime.rs:161 and 184-214).
THEOREM CleanEnd == Spec => []DownIsClean
<1>1. ASSUME IInv, Down
      PROVE  DownIsClean
  <2>1. AllThreadsEnded /\ blocker # "none"
    BY <1>1 DEF IInv, CoreInv, ThreadInv, Down
  <2>2. \A j \in Jobs : job[j] \notin {"queued", "running", "waiting"}
    BY <1>1, <2>1, NothingLeft DEF IInv
  <2>3. Alive = {} /\ Parked = {}
    BY <2>1 DEF AllThreadsEnded, Alive, Parked, Threads
  <2>4. alive = 0 /\ idle = 0
    BY <1>1, <2>3, FS_EmptySet DEF IInv, GaugeInv
  <2> QED
    BY <1>1, <2>1, <2>2, <2>4
    DEF IInv, CoreInv, StateTypeOK, DownIsClean, Ended
<1>2. IInv => DownIsClean
  BY <1>1 DEF DownIsClean
<1> QED
  BY <1>2, Invariant, PTL

----------------------------------------------------------------------------
(***************************************************************************)
(* Each step is one of OwnedPool or changes nothing in it.                 *)
(***************************************************************************)

LEMMA ProgressOf ==
  ASSUME StateTypeOK, NEW j \in Jobs
  PROVE  /\ job[j] = "new" <=> Progress[j] = "new"
         /\ job[j] \in {"queued", "running", "waiting"} <=> Progress[j] = "accepted"
         /\ job[j] = "done" <=> Progress[j] = "done"
         /\ job[j] = "cancelled" <=> Progress[j] = "dropped"
  BY DEF StateTypeOK, Progress, Ended

\* One job goes on.
LEMMA ProgressStep ==
  ASSUME StateTypeOK, NEW j \in Jobs,
         NEW to \in {"new", "queued", "running", "waiting"} \cup Ended,
         job' = [job EXCEPT ![j] = to]
  PROVE  /\ to \in {"queued", "running", "waiting"} =>
               Progress' = [Progress EXCEPT ![j] = "accepted"]
         /\ to = "done" => Progress' = [Progress EXCEPT ![j] = "done"]
         /\ to = "cancelled" => Progress' = [Progress EXCEPT ![j] = "dropped"]
<1>1. job'[j] = to /\ \A k \in Jobs : k # j => job'[k] = job[k]
  BY DEF StateTypeOK
<1> QED
  BY <1>1 DEF Progress, Ended

\* A job that was accepted and still is.
LEMMA ProgressSame ==
  ASSUME StateTypeOK, NEW j \in Jobs, job[j] \in {"queued", "running", "waiting"},
         NEW to \in {"queued", "running", "waiting"}, job' = [job EXCEPT ![j] = to]
  PROVE  Progress' = Progress
<1>1. job'[j] = to /\ \A k \in Jobs : k # j => job'[k] = job[k]
  BY DEF StateTypeOK
<1> QED
  BY <1>1 DEF Progress

LEMMA AbstractInit == Init => Abstract!Init
  BY DEF Init, Abstract!Init, Phase, Progress, Down

\* Nothing that OwnedPool sees changes.
LEMMA Stutters ==
  ASSUME UNCHANGED <<holders, blocker>>, Progress' = Progress
  PROVE  UNCHANGED Abstract!vars
  BY DEF Abstract!vars, Phase, Down

LEMMA AbstractBuilding ==
  ASSUME CoreInv, Building
  PROVE  [Abstract!Next]_(Abstract!vars)
<1>1. Progress' = Progress
  BY DEF Building, BuildRefused, Build, BuildReturns, Progress
<1>2. ASSUME NEW u \in Users, Build(u)
      PROVE  Abstract!Open
  BY <1>1, <1>2 DEF Build, Abstract!Open, Phase, Down
<1>3. CASE BuildRefused
  BY <1>1, <1>3 DEF BuildRefused, clones, Abstract!vars, Phase, Down
<1>4. ASSUME NEW u \in Users, BuildReturns(u)
      PROVE  Abstract!OpenBroken
  BY <1>1, <1>4 DEF BuildReturns, Abstract!OpenBroken, Phase, Down
<1> QED
  BY <1>2, <1>3, <1>4 DEF Building, Abstract!Next

LEMMA AbstractHolding ==
  ASSUME CoreInv, NEW a \in Users \cup Jobs, Holding(a)
  PROVE  [Abstract!Next]_(Abstract!vars)
<1>1. CASE Clone(a)
  <2>1. Progress' = Progress /\ Phase' = Phase
    BY <1>1 DEF Clone, Progress, Phase, Down
  <2>2. Abstract!Share
    BY <1>1, <2>1 DEF Clone, CanAct, Abstract!Share, Abstract!Owners
  <2> QED
    BY <2>2 DEF Abstract!Next
<1>2. CASE Drop(a)
  <2>1. Progress' = Progress /\ Phase' = Phase
    BY <1>2 DEF Drop, Progress, Phase, Down
  <2>2. Abstract!Release
    BY <1>2, <2>1 DEF Drop, LetGo, CanAct, Abstract!Release
  <2> QED
    BY <2>2 DEF Abstract!Next
<1>3. ASSUME NEW j \in Jobs, Accepted(a, j), ~SchedulerStopped
      PROVE  Abstract!Submit(j)
  <2>1. holders # {} /\ job[j] = "new"
    BY <1>3 DEF Accepted, CanAct
  <2>2. blocker = "waiting" /\ blocker' = blocker
    BY <1>3, <2>1, Owned DEF Accepted
  <2>3. Progress[j] = "new" /\ Progress' = [Progress EXCEPT ![j] = "accepted"]
    BY <1>3, <2>1, ProgressOf, ProgressStep DEF Accepted, CoreInv
  <2>4. holders' \in {holders, holders \cup {j}}
    BY <1>3 DEF Accepted
  <2> QED
    BY <2>1, <2>2, <2>3, <2>4 DEF Abstract!Submit, Phase, Down
<1>4. ASSUME NEW j \in Jobs, Rejected(a, j), SchedulerStopped \/ Closed \/ Down
      PROVE  Abstract!Submit(j)
  <2>1. holders # {} /\ job[j] = "new"
    BY <1>4 DEF Rejected, CanAct
  <2>2. blocker = "returned" /\ UNCHANGED <<blocker, holders>>
    BY <1>4, <2>1, Owned DEF Rejected, clones
  <2>3. Progress[j] = "new" /\ Progress' = [Progress EXCEPT ![j] = "dropped"]
    BY <1>4, <2>1, ProgressOf, ProgressStep DEF Rejected, CoreInv, Ended
  <2> QED
    BY <2>1, <2>2, <2>3 DEF Abstract!Submit, Phase, Down
<1>5. ASSUME NEW t \in Tasks, Spawn(a, t)
      PROVE  Abstract!Next
  BY <1>3, <1>4, <1>5 DEF Spawn, Jobs, Abstract!Next
<1>6. ASSUME NEW f \in Functions, SpawnBlocking(a, f)
      PROVE  Abstract!Next
  <2>1. Accepted(a, f) /\ ~Closed /\ ~Down => ~SchedulerStopped
    BY Owned DEF Accepted, CanAct
  <2> QED
    BY <1>3, <1>4, <1>6, <2>1 DEF SpawnBlocking, Jobs, Abstract!Next
<1>7. ASSUME NEW j \in Jobs, BlockOn(a, j)
      PROVE  UNCHANGED Abstract!vars
  BY <1>7, Stutters DEF BlockOn, clones, Progress
<1> QED
  BY <1>1, <1>2, <1>5, <1>6, <1>7 DEF Holding

\* A job that is done lets go of its clone in the same step.
LEMMA AbstractFinishes ==
  ASSUME CoreInv, NEW th \in Threads, NEW from, NEW to,
         Finishes(th, from, to, "done"), from \in {"polling", "running"}
  PROVE  Abstract!Next
<1>1. work[th] \in Jobs /\ job[work[th]] = "running"
  BY DEF Finishes, Moves, CoreInv, WorkInv, Jobs
<1>2. /\ Progress[work[th]] = "accepted"
      /\ Progress' = [Progress EXCEPT ![work[th]] = "done"]
  BY <1>1, ProgressOf, ProgressStep DEF Finishes, CoreInv, Ended
<1>3. holders' = holders \ {work[th]} /\ Phase' = Phase
  BY DEF Finishes, LetGo, Phase, Down
<1>4. Abstract!Finish(work[th])
  BY <1>2, <1>3 DEF Abstract!Finish
<1> QED
  BY <1>1, <1>4 DEF Abstract!Next

\* Jobs are cancelled only by a runtime that closes, and that nobody holds.
LEMMA AbstractCancels ==
  ASSUME CoreInv, NEW S \in SUBSET Jobs, Closed, Cancel(S), blocker' = blocker,
         \A j \in S : job[j] \in {"queued", "running", "waiting"}
  PROVE  [Abstract!Next]_(Abstract!vars)
<1>1. /\ holders = {} /\ holders' = {}
      /\ job' = [j \in Jobs |-> IF j \in S THEN "cancelled" ELSE job[j]]
  BY DEF Cancel, LetGo, Closed, CoreInv, OwnerInv
<1>2. CASE blocker = "refused"
  <2>1. S = {}
    BY <1>2 DEF CoreInv, OwnerInv, Untouched
  <2>2. Progress' = Progress
    BY <1>1, <2>1 DEF Progress
  <2> QED
    BY <1>1, <2>2, Stutters
<1>3. CASE blocker = "dropping"
  <2>1. S \in SUBSET Abstract!Accepted
    BY ProgressOf DEF CoreInv, Abstract!Accepted
  <2>2. Progress' = [j \in Jobs |-> IF j \in S THEN "dropped" ELSE Progress[j]]
    BY <1>1 DEF Progress
  <2>3. Abstract!DropJobs
    BY <1>1, <1>3, <2>1, <2>2 DEF Abstract!DropJobs, Phase, Down
  <2> QED
    BY <2>3 DEF Abstract!Next
<1> QED
  BY <1>2, <1>3 DEF Closed

LEMMA AbstractScheduler ==
  ASSUME CoreInv, NEW w \in Workers, Scheduler(w)
  PROVE  [Abstract!Next]_(Abstract!vars)
<1> w \in Threads
  BY DEF Threads
<1>1. CASE Park(w) \/ Unpark(w)
  BY <1>1, Stutters DEF Park, Unpark, clones, Progress
<1>2. ASSUME NEW t \in Tasks, TakeTask(w, t)
      PROVE  UNCHANGED Abstract!vars
  BY <1>2, ProgressSame, Stutters DEF TakeTask, clones, CoreInv, Jobs
<1>3. CASE PollReady(w)
  BY <1>3, AbstractFinishes DEF PollReady
<1>4. CASE PollPending(w) /\ ~SchedulerStopped
  <2>1. work[w] \in Jobs /\ job[work[w]] = "running"
    BY <1>4 DEF PollPending, Moves, CoreInv, WorkInv, Jobs
  <2> QED
    BY <1>4, <2>1, ProgressSame, Stutters DEF PollPending, clones, CoreInv
<1>5. CASE PollPending(w) /\ SchedulerStopped
  <2>1. work[w] \in Jobs /\ job[work[w]] = "running"
    BY <1>5 DEF PollPending, Finishes, Moves, CoreInv, WorkInv, Jobs
  <2>2. Closed
    <3>1. thread[w] # "none" /\ blocker # "waiting"
      BY <1>5
      DEF PollPending, Finishes, Moves, CoreInv, ThreadInv, SchedulerStopped
    <3> QED
      BY <3>1, Present DEF Closed
  <2>3. /\ job' = [j \in Jobs |-> IF j \in {work[w]} THEN "cancelled" ELSE job[j]]
        /\ LetGo({work[w]}) /\ blocker' = blocker
    BY <1>5 DEF PollPending, Finishes, CoreInv, StateTypeOK
  <2> QED
    BY <2>1, <2>2, <2>3, AbstractCancels DEF Cancel
<1>6. CASE WorkerStops(w)
  BY <1>6, AbstractCancels DEF WorkerStops, Jobs
<1> QED
  BY <1>1, <1>2, <1>3, <1>4, <1>5, <1>6 DEF Scheduler

LEMMA AbstractPool ==
  ASSUME CoreInv, NEW th \in Threads, Pool(th)
  PROVE  [Abstract!Next]_(Abstract!vars)
<1>1. CASE ThreadStarts(th) \/ Rest(th) \/ Notified(th) \/ KeepAliveEnds(th)
  BY <1>1, Stutters
  DEF ThreadStarts, Rest, Notified, KeepAliveEnds, clones, Progress
<1>2. ASSUME NEW f \in Functions, TakeFunction(th, f)
      PROVE  UNCHANGED Abstract!vars
  BY <1>2, ProgressSame, Stutters DEF TakeFunction, clones, CoreInv, Jobs
<1>3. CASE FunctionReturns(th)
  BY <1>3, AbstractFinishes DEF FunctionReturns
<1>4. CASE ThreadStops(th)
  BY <1>4, AbstractCancels DEF ThreadStops, Queued, Jobs
<1> QED
  BY <1>1, <1>2, <1>3, <1>4 DEF Pool

LEMMA AbstractRest ==
  ASSUME IInv,
         \/ \E j \in Jobs : BlockOnReturns(j)
         \/ \E t \in Tasks : TaskWakes(t)
         \/ BlockerWakes \/ BlockerExits
  PROVE  [Abstract!Next]_(Abstract!vars)
<1>1. ASSUME NEW j \in Jobs, BlockOnReturns(j)
      PROVE  UNCHANGED Abstract!vars
  BY <1>1, Stutters DEF BlockOnReturns, clones, Progress
<1>2. ASSUME NEW t \in Tasks, TaskWakes(t)
      PROVE  UNCHANGED Abstract!vars
  BY <1>2, ProgressSame, Stutters DEF TaskWakes, clones, IInv, CoreInv, Jobs
<1>3. CASE BlockerWakes
  <2>1. Progress' = Progress /\ holders = {}
    BY <1>3 DEF BlockerWakes, Progress, IInv, CoreInv, OwnerInv
  <2>2. Abstract!Close
    BY <1>3, <2>1 DEF BlockerWakes, clones, Abstract!Close, Phase, Down
  <2> QED
    BY <2>2 DEF Abstract!Next
<1>4. CASE BlockerExits
  <2>1. Progress' = Progress /\ holders' = holders
    BY <1>4 DEF BlockerExits, Progress, clones
  <2>2. \A j \in Jobs : job[j] \notin {"queued", "running", "waiting"}
    BY <1>4, NothingLeft DEF BlockerExits, IInv
  <2>3. Abstract!Accepted = {}
    BY <2>2, ProgressOf DEF Abstract!Accepted, IInv, CoreInv
  <2>4. Abstract!GoDown
    BY <1>4, <2>1, <2>3 DEF BlockerExits, Abstract!GoDown, Phase, Down
  <2> QED
    BY <2>4 DEF Abstract!Next
<1> QED
  BY <1>1, <1>2, <1>3, <1>4

\* A Runtime is an OwnedPool, whatever the blocker thread and the threads of
\* tokio do in between (runtime.rs:32-82 and 143-173).
THEOREM Refinement == Spec => ImplementsOwnedPool
<1>1. IInv /\ [Next]_vars => [Abstract!Next]_(Abstract!vars)
  <2> SUFFICES ASSUME IInv, [Next]_vars
               PROVE  [Abstract!Next]_(Abstract!vars)
    OBVIOUS
  <2>1. CASE UNCHANGED vars
    BY <2>1, Stutters DEF vars, clones, Progress
  <2>2. CASE Next
    BY <2>2, AbstractBuilding, AbstractHolding, AbstractScheduler, AbstractPool,
       AbstractRest DEF Next, IInv
  <2> QED
    BY <2>1, <2>2
<1> QED
  BY <1>1, AbstractInit, Invariant, PTL
  DEF Spec, ImplementsOwnedPool, Abstract!Spec

----------------------------------------------------------------------------
(***************************************************************************)
(* No function waits without reason.  A function that is queued has a      *)
(* thread of the pool coming for it, or the pool is full.  For one         *)
(* function that is not inductive, since a thread takes any of those that  *)
(* wait: ServeInv counts the functions and the threads.                    *)
(***************************************************************************)

\* The threads that will look at the queue, and those one could recruit.
Coming == {x \in Extra : thread[x] \in {"launched", "notified", "busy"}}
Spare == {x \in Extra : thread[x] \in {"none", "idle"}}

ServeInv ==
    blocker = "waiting" =>
        /\ IsFiniteSet(Queued(Functions))
        /\ Spare # {} => Cardinality(Queued(Functions)) <= Cardinality(Coming)

\* While the Runtime serves, a function waits only if a thread of the pool is on
\* its way to the queue, or max_blocking_threads() of them are all running
\* (runtime.rs:69-77 and 115-122).
FunctionsHaveThreads ==
    blocker = "waiting" /\ Queued(Functions) # {} =>
        Coming # {} \/ \A x \in Extra : thread[x] = "running"

LEMMA Sizes ==
  ASSUME ServeInv, blocker = "waiting"
  PROVE  /\ IsFiniteSet(Coming) /\ Cardinality(Coming) \in Nat
         /\ IsFiniteSet(Queued(Functions)) /\ Cardinality(Queued(Functions)) \in Nat
<1>1. Coming \subseteq Extra
  BY DEF Coming
<1> QED
  BY <1>1, FS_Subset, FS_CardinalityType, ThreadsAssumption DEF ServeInv

\* Nobody is queued who was not, no thread turns away, none becomes spare.
LEMMA ServeSame ==
  ASSUME ServeInv, blocker = "waiting", Coming \subseteq Coming',
         Queued(Functions)' \subseteq Queued(Functions), Spare' \subseteq Spare
  PROVE  ServeInv'
<1>1. IsFiniteSet(Coming')
  BY FS_Subset, ThreadsAssumption DEF Coming
<1>2. /\ IsFiniteSet(Queued(Functions)')
      /\ Cardinality(Queued(Functions)') <= Cardinality(Queued(Functions))
  BY Sizes, FS_Subset
<1>3. Cardinality(Coming) <= Cardinality(Coming')
  BY <1>1, FS_Subset
<1>4. /\ Cardinality(Coming) \in Nat /\ Cardinality(Coming') \in Nat
      /\ Cardinality(Queued(Functions)) \in Nat
      /\ Cardinality(Queued(Functions)') \in Nat
  BY <1>1, <1>2, Sizes, FS_CardinalityType
<1>5. Spare' # {} =>
         Cardinality(Queued(Functions)') <= Cardinality(Coming')
  BY <1>2, <1>3, <1>4 DEF ServeInv
<1> QED
  BY <1>2, <1>5 DEF ServeInv

\* With nobody queued there is nothing to say.
LEMMA ServeNobody ==
  ASSUME Queued(Functions)' = {}
  PROVE  ServeInv'
<1>1. IsFiniteSet(Coming')
  BY FS_Subset, ThreadsAssumption DEF Coming
<1>2. Cardinality(Coming') \in Nat
  BY <1>1, FS_CardinalityType
<1> QED
  BY <1>2, FS_EmptySet DEF ServeInv

\* A thread of the pool takes a function: one less of each.
LEMMA ServeTakes ==
  ASSUME CoreInv, ServeInv, NEW th \in Threads, NEW f \in Functions,
         TakeFunction(th, f)
  PROVE  ServeInv'
<1>1. CASE blocker # "waiting"
  BY <1>1 DEF TakeFunction, ServeInv
<1>2. CASE blocker = "waiting"
  <2>1. th \in Extra /\ th \in Coming
    BY <1>2 DEF TakeFunction, Moves, CoreInv, ThreadInv, Scheduling, Threads, Coming
  <2>2. Coming' = Coming \ {th} /\ Spare' = Spare
    BY <2>1 DEF TakeFunction, Moves, CoreInv, StateTypeOK, Coming, Spare, Threads
  <2>3. f \in Queued(Functions) /\ Queued(Functions)' = Queued(Functions) \ {f}
    BY DEF TakeFunction, CoreInv, StateTypeOK, Queued, Jobs
  <2>4. /\ IsFiniteSet(Queued(Functions)')
        /\ Cardinality(Queued(Functions)') = Cardinality(Queued(Functions)) - 1
    <3>1. IsFiniteSet(Queued(Functions))
      BY <1>2, Sizes
    <3> QED
      BY <2>3, <3>1, FS_RemoveElement
  <2>5. Cardinality(Coming') = Cardinality(Coming) - 1
    <3>1. IsFiniteSet(Coming)
      BY <1>2, Sizes
    <3> QED
      BY <2>1, <2>2, <3>1, FS_RemoveElement
  <2> QED
    BY <1>2, <2>2, <2>4, <2>5, Sizes DEF ServeInv
<1> QED
  BY <1>1, <1>2

\* spawn_blocking(): one more of each, or no thread is left to recruit.
LEMMA ServeSpawns ==
  ASSUME CoreInv, ServeInv, NEW a \in Users \cup Jobs, NEW f \in Functions,
         SpawnBlocking(a, f)
  PROVE  ServeInv'
<1> USE DEF CoreInv, StateTypeOK
<1>1. CASE blocker # "waiting"
  BY <1>1 DEF SpawnBlocking, Accepted, Rejected, ServeInv
<1>2. CASE blocker = "waiting"
  <2>1. Accepted(a, f) /\ Recruit
    BY <1>2 DEF SpawnBlocking, Closed, Down
  <2>2. /\ f \notin Queued(Functions)
        /\ Queued(Functions)' = Queued(Functions) \cup {f}
    BY <2>1 DEF Accepted, Queued, Jobs
  <2>3. /\ IsFiniteSet(Queued(Functions)')
        /\ Cardinality(Queued(Functions)') = Cardinality(Queued(Functions)) + 1
    BY <1>2, <2>2, Sizes, FS_AddElement
  <2>4. \A th \in Threads : thread[th] \in {"none", "idle"} => th \in Spare
    BY <1>2 DEF ThreadInv, Scheduling, Threads, Spare
  <2>5. CASE \E th \in Threads : thread[th] \in {"none", "idle"}
    <3>1. PICK th \in Threads :
             /\ thread[th] \in {"none", "idle"}
             /\ \E to \in {"launched", "notified"} :
                   thread' = [thread EXCEPT ![th] = to]
      BY <2>1, <2>5 DEF Recruit
    <3>2. th \in Spare
      BY <2>4, <3>1
    <3>3. th \notin Coming /\ Coming' = Coming \cup {th}
      BY <3>1, <3>2 DEF Coming, Spare, Threads
    <3>4. Cardinality(Coming') = Cardinality(Coming) + 1
      BY <1>2, <3>3, Sizes, FS_AddElement
    <3> QED
      BY <1>2, <2>3, <3>2, <3>4, Sizes DEF ServeInv
  <2>6. CASE ~ \E th \in Threads : thread[th] \in {"none", "idle"}
    <3>1. Spare' = {}
      BY <2>1, <2>6 DEF Recruit, Spare, Threads
    <3> QED
      BY <2>3, <3>1 DEF ServeInv
  <2> QED
    BY <2>5, <2>6
<1> QED
  BY <1>1, <1>2

\* A thread moves while no function is queued: if it is one of the pool it does
\* not turn away from the queue, nor become spare.
LEMMA ServeMoves ==
  ASSUME CoreInv, ServeInv, NEW th \in Threads, NEW from,
         NEW to \in Scheduling \cup Pooled, Moves(th, from, to),
         UNCHANGED blocker, Queued(Functions)' \subseteq Queued(Functions),
         blocker = "waiting" /\ th \in Extra =>
            /\ from \in {"launched", "notified", "busy"} =>
                  to \in {"launched", "notified", "busy"}
            /\ to \in {"none", "idle"} => from \in {"none", "idle"}
  PROVE  ServeInv'
<1>1. /\ thread' \in [Threads -> Scheduling \cup Pooled]
      /\ thread[th] = from /\ thread'[th] = to
      /\ \A tg \in Threads : tg # th => thread'[tg] = thread[tg]
  BY Moved DEF CoreInv
<1>2. CASE blocker # "waiting"
  BY <1>2 DEF ServeInv
<1>3. CASE blocker = "waiting"
  <2>1. Coming \subseteq Coming' /\ Spare' \subseteq Spare
    BY <1>1, <1>3 DEF Coming, Spare, Threads
  <2> QED
    BY <1>3, <2>1, ServeSame
<1> QED
  BY <1>2, <1>3

LEMMA ServeScheduler ==
  ASSUME CoreInv, ServeInv, NEW w \in Workers, Scheduler(w)
  PROVE  ServeInv'
<1>1. w \in Threads /\ w \notin Extra
  BY JobsAssumption DEF Threads
<1> USE <1>1, JobsAssumption DEF Queued, Jobs, Scheduling, Pooled
<1>2. CASE Park(w) \/ Unpark(w)
  BY <1>2, ServeMoves DEF Park, Unpark
<1>3. ASSUME NEW t \in Tasks, TakeTask(w, t)
      PROVE  ServeInv'
  BY <1>3, ServeMoves DEF TakeTask, CoreInv, StateTypeOK
<1>4. CASE PollReady(w) \/ PollPending(w)
  BY <1>4, ServeMoves
  DEF PollReady, PollPending, Finishes, CoreInv, StateTypeOK, WorkInv, Moves
<1>5. CASE WorkerStops(w)
  BY <1>5 DEF WorkerStops, Closed, ServeInv
<1> QED
  BY <1>2, <1>3, <1>4, <1>5 DEF Scheduler

LEMMA ServePool ==
  ASSUME CoreInv, ServeInv, NEW th \in Threads, Pool(th)
  PROVE  ServeInv'
<1> USE JobsAssumption DEF Scheduling, Pooled
<1>1. CASE ThreadStarts(th)
  BY <1>1, ServeMoves DEF ThreadStarts, Queued, Threads
<1>2. CASE \E f \in Functions : TakeFunction(th, f)
  BY <1>2, ServeTakes
<1>3. CASE FunctionReturns(th)
  <2>1. Queued(Functions)' \subseteq Queued(Functions)
    BY <1>3 DEF FunctionReturns, Finishes, Moves, Queued, CoreInv, StateTypeOK, Jobs
  <2> QED
    BY <1>3, <2>1, ServeMoves DEF FunctionReturns, Finishes
<1>4. CASE Rest(th)
  BY <1>4, ServeNobody DEF Rest, Queued
<1>5. CASE Notified(th)
  BY <1>5, ServeMoves DEF Notified, Queued
<1>6. CASE KeepAliveEnds(th)
  BY <1>6, ServeMoves DEF KeepAliveEnds, Queued
<1>7. CASE ThreadStops(th)
  BY <1>7 DEF ThreadStops, Closed, ServeInv
<1> QED
  BY <1>1, <1>2, <1>3, <1>4, <1>5, <1>6, <1>7 DEF Pool

LEMMA ServeRest ==
  ASSUME CoreInv, ServeInv,
         \/ Building
         \/ \E a \in Users \cup Jobs : Holding(a)
         \/ \E j \in Jobs : BlockOnReturns(j)
         \/ \E t \in Tasks : TaskWakes(t)
         \/ BlockerWakes \/ BlockerExits
  PROVE  ServeInv'
<1>1. ASSUME UNCHANGED <<blocker, thread>>,
             Queued(Functions)' \subseteq Queued(Functions)
      PROVE  ServeInv'
  <2>1. CASE blocker = "waiting"
    BY <1>1, <2>1, ServeSame DEF Coming, Spare
  <2>2. CASE blocker # "waiting"
    BY <1>1, <2>2 DEF ServeInv
  <2> QED
    BY <2>1, <2>2
<1>2. CASE Building
  <2>1. CASE blocker = "none"
    BY <1>2, <2>1, ServeNobody
    DEF Building, BuildRefused, Build, BuildReturns, CoreInv, OwnerInv,
        Untouched, Queued, Jobs
  <2>2. CASE blocker # "none"
    BY <1>2, <2>2 DEF Building, BuildRefused, Build, BuildReturns, ServeInv
  <2> QED
    BY <2>1, <2>2
<1>3. ASSUME NEW a \in Users \cup Jobs, NEW t \in Tasks, Spawn(a, t)
      PROVE  ServeInv'
  <2>1. /\ UNCHANGED <<blocker, thread>>
        /\ Queued(Functions)' \subseteq Queued(Functions)
    BY <1>3, JobsAssumption
    DEF Spawn, Accepted, Rejected, Queued, CoreInv, StateTypeOK, Jobs
  <2> QED
    BY <1>1, <2>1
<1>4. ASSUME NEW a \in Users \cup Jobs, Holding(a)
      PROVE  ServeInv'
  BY <1>1, <1>3, <1>4, ServeSpawns DEF Holding, Clone, Drop, BlockOn, Queued
<1>5. CASE \E j \in Jobs : BlockOnReturns(j)
  BY <1>1, <1>5 DEF BlockOnReturns, Queued
<1>6. ASSUME NEW t \in Tasks, TaskWakes(t)
      PROVE  ServeInv'
  <2>1. /\ UNCHANGED <<blocker, thread>>
        /\ Queued(Functions)' \subseteq Queued(Functions)
    BY <1>6, JobsAssumption DEF TaskWakes, Queued, CoreInv, StateTypeOK, Jobs
  <2> QED
    BY <1>1, <2>1
<1>7. CASE BlockerWakes \/ BlockerExits
  BY <1>7 DEF BlockerWakes, BlockerExits, ServeInv
<1> QED
  BY <1>2, <1>4, <1>5, <1>6, <1>7

LEMMA ServeStep == CoreInv /\ ServeInv /\ [Next]_vars => ServeInv'
<1> SUFFICES ASSUME CoreInv, ServeInv, [Next]_vars PROVE ServeInv'
  OBVIOUS
<1>1. CASE Next
  BY <1>1, ServeScheduler, ServePool, ServeRest DEF Next
<1>2. CASE UNCHANGED vars
  BY <1>2 DEF vars, ServeInv, Queued, Coming, Spare
<1> QED
  BY <1>1, <1>2

\* A function that waits while the Runtime serves has a thread coming for it, or
\* finds the pool full of running functions (runtime.rs:69-77 and 115-122).
THEOREM FunctionsServed == Spec => []FunctionsHaveThreads
<1>1. Init => ServeInv
  BY DEF Init, ServeInv
<1>2. IInv /\ ServeInv => FunctionsHaveThreads
  <2> SUFFICES ASSUME IInv, ServeInv, blocker = "waiting",
                      Queued(Functions) # {}, Coming = {}
               PROVE  \A x \in Extra : thread[x] = "running"
    BY DEF FunctionsHaveThreads
  <2>1. Cardinality(Queued(Functions)) # 0
    BY Sizes, FS_EmptySet
  <2>2. Cardinality(Coming) = 0
    BY FS_EmptySet
  <2>3. Spare = {}
    BY <2>1, <2>2, Sizes DEF ServeInv
  <2> QED
    BY <2>3 DEF IInv, CoreInv, ThreadInv, Pooled, Coming, Spare
<1>3. IInv /\ ServeInv /\ [Next]_vars => ServeInv'
  BY ServeStep DEF IInv
<1> QED
  BY <1>1, <1>2, <1>3, Invariant, PTL DEF Spec

----------------------------------------------------------------------------
(***************************************************************************)
(* The end of the runtime waits for its threads, however long they run, so *)
(* a function in a block_on() of a job that was cancelled, or that nobody  *)
(* will run any more, would hold it up.  There is none: block_on() borrows *)
(* the Runtime, so whoever is in it still has a clone.                     *)
(***************************************************************************)

BlockInv ==
    /\ \A j \in Jobs : job[j] = "new" => handleOf[j] = Nobody
    /\ \A j \in blocked :
        /\ job[j] # "new"
        /\ handleOf[j] \in holders
        /\ handleOf[j] \in Functions => job[handleOf[j]] = "running"

\* Once the Dropper has sent its oneshot nobody is in a block_on(): the drop of
\* the tokio runtime never waits for a function that waits for a job
\* (runtime.rs:46-51, 79-82 and 161).
NobodyBlocksTheEnd == signal => blocked = {}

\* A step that leaves the JoinHandles alone, and those who wait on one.
LEMMA BlockSame ==
  ASSUME CoreInv, BlockInv, UNCHANGED joins,
         \A j \in Jobs : job'[j] = "new" => job[j] = "new",
         \A j \in blocked :
            /\ handleOf[j] \in holders'
            /\ handleOf[j] \in Functions => job'[handleOf[j]] = "running"
  PROVE  BlockInv'
<1>1. \A j \in Jobs : job'[j] = "new" => handleOf'[j] = Nobody
  BY DEF joins, BlockInv
<1>2. ASSUME NEW j \in blocked
      PROVE  /\ job'[j] # "new"
             /\ handleOf[j] \in holders'
             /\ handleOf[j] \in Functions => job'[handleOf[j]] = "running"
  BY DEF CoreInv, StateTypeOK, BlockInv
<1> QED
  BY <1>1, <1>2 DEF BlockInv, joins

LEMMA BlockBuilding ==
  ASSUME CoreInv, BlockInv, Building
  PROVE  BlockInv'
<1>1. UNCHANGED joins /\ job' = job
  BY DEF Building, BuildRefused, Build, BuildReturns
<1>2. blocked = {}
  BY DEF Building, BuildRefused, Build, BuildReturns, CoreInv, StateTypeOK,
         OwnerInv, Untouched, BlockInv
<1> QED
  BY <1>1, <1>2, BlockSame

\* A job that comes has no JoinHandle yet, so that nobody waits for it.
LEMMA BlockSpawns ==
  ASSUME CoreInv, BlockInv, NEW a \in Users \cup Jobs, NEW j \in Jobs,
         Accepted(a, j) \/ Rejected(a, j)
  PROVE  BlockInv'
<1>1. /\ job[j] = "new" /\ job'[j] # "new"
      /\ \A i \in Jobs \ {j} : job'[i] = job[i]
  BY DEF Accepted, Rejected, CoreInv, StateTypeOK
<1>2. holders \subseteq holders' /\ blocked' = blocked
  BY DEF Accepted, Rejected, clones
<1>3. \A i \in Jobs \ {j} : handleOf'[i] = handleOf[i]
  BY DEF Accepted, Rejected, KeepHandle, CoreInv, StateTypeOK
<1>4. blocked \subseteq Jobs \ {j}
  BY <1>1 DEF BlockInv, CoreInv, StateTypeOK
<1>5. \A i \in Jobs : job'[i] = "new" => handleOf'[i] = Nobody
  BY <1>1, <1>3 DEF BlockInv
<1>6. ASSUME NEW i \in blocked
      PROVE  /\ job'[i] # "new"
             /\ handleOf'[i] \in holders'
             /\ handleOf'[i] \in Functions => job'[handleOf'[i]] = "running"
  <2>1. i \in Jobs \ {j} /\ handleOf'[i] = handleOf[i]
    BY <1>3, <1>4
  <2>2. handleOf[i] \in Functions => handleOf[i] \in Jobs \ {j}
    BY <1>1 DEF BlockInv, Jobs
  <2> QED
    BY <1>1, <1>2, <2>1, <2>2 DEF BlockInv
<1> QED
  BY <1>2, <1>5, <1>6 DEF BlockInv

LEMMA BlockHolding ==
  ASSUME CoreInv, BlockInv, NEW a \in Users \cup Jobs, Holding(a)
  PROVE  BlockInv'
<1>1. CASE Clone(a)
  BY <1>1, BlockSame DEF Clone, BlockInv
<1>2. CASE Drop(a)
  BY <1>2, BlockSame DEF Drop, CanAct, LetGo, BlockInv
<1>3. CASE \E j \in Jobs : Accepted(a, j) \/ Rejected(a, j)
  BY <1>3, BlockSpawns
<1>4. ASSUME NEW j \in Jobs, BlockOn(a, j)
      PROVE  BlockInv'
  <2>1. /\ a \in holders /\ (a \in Functions => job[a] = "running")
        /\ handleOf[j] = a /\ blocked' = blocked \cup {j}
        /\ UNCHANGED <<holders, job, handleOf>>
    BY <1>4 DEF BlockOn, CanAct, clones, Jobs
  <2>2. job[j] # "new"
    BY <2>1, JobsAssumption DEF BlockInv, Jobs
  <2> QED
    BY <2>1, <2>2 DEF BlockInv
<1> QED
  BY <1>1, <1>2, <1>3, <1>4 DEF Holding, Spawn, SpawnBlocking, Jobs

\* A job that ends is not one that waits: a task may not, and a function that
\* does has not returned.
LEMMA BlockFinishes ==
  ASSUME CoreInv, BlockInv, NEW th \in Threads, NEW from, NEW to,
         NEW outcome \in Ended, work[th] \in Jobs, Finishes(th, from, to, outcome),
         \A j \in blocked : handleOf[j] # work[th]
  PROVE  BlockInv'
<1>1. \A i \in Jobs : job'[i] = IF i = work[th] THEN outcome ELSE job[i]
  BY DEF Finishes, CoreInv, StateTypeOK
<1>2. holders' = holders \ {work[th]} /\ UNCHANGED joins
  BY DEF Finishes, LetGo
<1>3. \A j \in Jobs : job'[j] = "new" => job[j] = "new"
  BY <1>1 DEF Ended
<1> QED
  BY <1>1, <1>2, <1>3, BlockSame DEF BlockInv, Jobs

LEMMA BlockCancels ==
  ASSUME CoreInv, BlockInv, NEW S, Cancel(S), UNCHANGED joins,
         \A j \in S : j \in Jobs /\ job[j] \in {"queued", "waiting"}
  PROVE  BlockInv'
<1>1. \A i \in Jobs : job'[i] = IF i \in S THEN "cancelled" ELSE job[i]
  BY DEF Cancel
<1>2. holders' = holders \ S
  BY DEF Cancel, LetGo
<1>3. \A j \in blocked : handleOf[j] \notin S
  BY JobsAssumption DEF BlockInv, CoreInv, StateTypeOK, Jobs
<1>4. \A j \in Jobs : job'[j] = "new" => job[j] = "new"
  BY <1>1
<1> QED
  BY <1>1, <1>2, <1>3, <1>4, BlockSame DEF BlockInv, Jobs

LEMMA BlockThreads ==
  ASSUME CoreInv, BlockInv, NEW th \in Threads,
         (th \in Workers /\ Scheduler(th)) \/ Pool(th)
  PROVE  BlockInv'
<1>1. ASSUME UNCHANGED <<joins, job, holders>>
      PROVE  BlockInv'
  BY <1>1, BlockSame DEF BlockInv
<1>2. CASE Park(th) \/ Unpark(th) \/ ThreadStarts(th) \/ Rest(th) \/ Notified(th)
           \/ KeepAliveEnds(th)
  BY <1>1, <1>2
  DEF Park, Unpark, ThreadStarts, Rest, Notified, KeepAliveEnds, clones
<1>3. ASSUME NEW i \in Jobs, job[i] # "new", NEW v \in {"running", "waiting"},
             job' = [job EXCEPT ![i] = v], UNCHANGED <<joins, holders>>,
             v = "waiting" => i \in Tasks
      PROVE  BlockInv'
  <2>1. \A k \in Jobs : job'[k] = "new" => job[k] = "new"
    BY <1>3 DEF CoreInv, StateTypeOK
  <2>2. \A f \in Functions : job[f] = "running" => job'[f] = "running"
    BY <1>3, JobsAssumption DEF CoreInv, StateTypeOK, Jobs
  <2> QED
    BY <1>3, <2>1, <2>2, BlockSame DEF BlockInv
<1>4. CASE \E t \in Tasks : TakeTask(th, t)
  BY <1>3, <1>4 DEF TakeTask, clones, Jobs
<1>5. CASE \E f \in Functions : TakeFunction(th, f)
  BY <1>3, <1>5 DEF TakeFunction, clones, Jobs
<1>6. CASE PollReady(th) \/ PollPending(th)
  <2>1. work[th] \in Tasks /\ job[work[th]] = "running"
    BY <1>6 DEF PollReady, PollPending, Finishes, Moves, CoreInv, WorkInv, Jobs
  <2>2. \A j \in blocked : handleOf[j] # work[th]
    BY <2>1, JobsAssumption DEF CoreInv, StateTypeOK, Jobs
  <2>3. CASE \E outcome \in Ended : Finishes(th, "polling", "searching", outcome)
    BY <2>1, <2>2, <2>3, BlockFinishes DEF Jobs
  <2>4. CASE ~ \E outcome \in Ended : Finishes(th, "polling", "searching", outcome)
    <3>1. /\ job' = [job EXCEPT ![work[th]] = "waiting"]
          /\ UNCHANGED <<joins, holders>>
      BY <1>6, <2>4 DEF PollReady, PollPending, clones, Ended
    <3> QED
      BY <1>3, <2>1, <3>1 DEF Jobs
  <2> QED
    BY <2>3, <2>4
<1>7. CASE FunctionReturns(th)
  <2>1. work[th] \in Jobs
    BY <1>7 DEF FunctionReturns, Finishes, Moves, CoreInv, WorkInv, Jobs
  <2> QED
    BY <1>7, <2>1, BlockFinishes DEF FunctionReturns, Ended
<1>8. CASE WorkerStops(th)
  BY <1>8, BlockCancels DEF WorkerStops, Jobs
<1>9. CASE ThreadStops(th)
  BY <1>9, BlockCancels DEF ThreadStops, Queued, Jobs
<1> QED
  BY <1>2, <1>4, <1>5, <1>6, <1>7, <1>8, <1>9 DEF Scheduler, Pool

LEMMA BlockRest ==
  ASSUME CoreInv, BlockInv,
         \/ \E j \in Jobs : BlockOnReturns(j)
         \/ \E t \in Tasks : TaskWakes(t)
         \/ BlockerWakes \/ BlockerExits
  PROVE  BlockInv'
<1>1. ASSUME NEW j \in Jobs, BlockOnReturns(j)
      PROVE  BlockInv'
  <2>1. /\ blocked' = blocked \ {j}
        /\ handleOf' = [handleOf EXCEPT ![j] = Nobody]
        /\ UNCHANGED <<holders, job>>
    BY <1>1 DEF BlockOnReturns, clones
  <2>2. /\ handleOf'[j] = Nobody
        /\ \A i \in Jobs \ {j} : handleOf'[i] = handleOf[i]
    BY <2>1 DEF CoreInv, StateTypeOK
  <2>3. \A i \in Jobs : job'[i] = "new" => handleOf'[i] = Nobody
    BY <2>1, <2>2 DEF BlockInv
  <2>4. \A i \in blocked' : i \in blocked /\ i \in Jobs \ {j}
    BY <2>1 DEF CoreInv, StateTypeOK
  <2> QED
    BY <2>1, <2>2, <2>3, <2>4 DEF BlockInv
<1>2. ASSUME NEW t \in Tasks, TaskWakes(t)
      PROVE  BlockInv'
  <2>1. /\ t \in Jobs /\ job[t] = "waiting"
        /\ \A i \in Jobs : job'[i] = IF i = t THEN "queued" ELSE job[i]
    BY <1>2 DEF TaskWakes, CoreInv, StateTypeOK, Jobs
  <2>2. UNCHANGED <<joins, holders>>
    BY <1>2 DEF TaskWakes, clones
  <2>3. \A i \in Jobs : job'[i] = "new" => job[i] = "new"
    BY <2>1
  <2> QED
    BY <2>1, <2>2, <2>3, BlockSame DEF BlockInv, Jobs
<1>3. CASE BlockerWakes \/ BlockerExits
  BY <1>3, BlockSame DEF BlockerWakes, BlockerExits, clones, BlockInv
<1> QED
  BY <1>1, <1>2, <1>3

\* No block_on() is left when the last clone has gone, so none can hold up the
\* end of the runtime (runtime.rs:46-51, 79-82 and 161).
THEOREM EndMeetsNoBlockOn == Spec => []NobodyBlocksTheEnd
<1>1. Init => BlockInv
  BY DEF Init, BlockInv
<1>2. IInv /\ BlockInv /\ [Next]_vars => BlockInv'
  <2> SUFFICES ASSUME CoreInv, BlockInv, [Next]_vars PROVE BlockInv'
    BY DEF IInv
  <2>1. CASE Next
    BY <2>1, BlockBuilding, BlockHolding, BlockThreads, BlockRest DEF Next, Threads
  <2>2. CASE UNCHANGED vars
    BY <2>2 DEF vars, clones, joins, BlockInv
  <2> QED
    BY <2>1, <2>2
<1>3. IInv /\ BlockInv => NobodyBlocksTheEnd
  BY DEF IInv, CoreInv, OwnerInv, BlockInv, NobodyBlocksTheEnd
<1> QED
  BY <1>1, <1>2, <1>3, Invariant, PTL DEF Spec
=============================================================================
