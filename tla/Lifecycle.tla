----------------------------- MODULE Lifecycle -----------------------------
(***************************************************************************)
(* The life of the threads of a JITEngine: the pool workers                *)
(* (tools/ThreadPool), the reclaimer thread and the main thread from       *)
(* construction to Ebr_shutdown, with registration in runtime/Ebr.c.       *)
(*                                                                         *)
(* Epochs are relative: a critical section lags the global epoch by 0 or   *)
(* 1, retired garbage is 0 or 1 epochs old, and goes at 2.  How            *)
(* Ebr_synchronize_and_reclaim works inside its mutex is the subject of    *)
(* Ebr; here it is one step.  A task retires one object.                   *)
(***************************************************************************)
EXTENDS Integers, Sequences

CONSTANTS
  Workers,     \* threads of the pools
  Main,
  Reclaimer,
  Tasks        \* tasks that main may enqueue

ASSUME ThreadsAssumption ==
  Main # Reclaimer /\ {Main, Reclaimer} \cap Workers = {}

\* The constructor of JITEngine gives the pool at least one thread.
ASSUME WorkersAssumption == Workers # {}

Threads == Workers \cup {Main, Reclaimer}

VARIABLES
  slots,           \* the ThreadStates, in the order they were linked
  state,           \* state[t]: t's thread_state, as an index of slots, or 0
  cursor,          \* cursor[t]: the ThreadState t looks at when it registers
  active_threads,
  running,         \* reclaimer_running
  stop,            \* ThreadPool::stop
  tasks,           \* the queue of the pool
  task,            \* task[w]: the task a worker has taken
  garbage,         \* garbage[k]: what has become of the object of task k
  notify,          \* enqueue has still to call notify_one
  freed,           \* the ThreadStates have been deallocated
  pc

vars == <<slots, state, cursor, active_threads, running, stop, tasks, task,
          garbage, notify, freed, pc>>
regVars  == <<slots, state, cursor, active_threads>>
poolVars == <<stop, tasks, task, notify>>

Slot == [active : BOOLEAN, terminated : BOOLEAN, lag : {0, 1}]

WorkerSteps == {"new", "count", "scan", "check", "asleep", "enter", "task",
                "leave", "unreg_count", "unreg1", "unreg2", "exited",
                "lock", "sync"}
MainSteps == {"pools", "count", "scan", "critical", "run", "join", "leave",
              "force1", "sync1", "force2", "sync2", "unreg_count", "unreg1",
              "unreg2", "shutdown", "broadcast", "join_reclaimer", "free",
              "ended"}

TypeOK ==
  /\ slots \in Seq(Slot)
  /\ state \in [Threads -> 0 .. Len(slots)]
  /\ cursor \in [Threads -> 0 .. Len(slots)]
  /\ active_threads \in Int
  /\ running \in BOOLEAN
  /\ stop \in BOOLEAN
  /\ tasks \in Seq(Tasks)
  /\ task \in [Workers -> SUBSET Tasks]
  /\ garbage \in [Tasks -> {"none", "queued", "0", "1", "released"}]
  /\ notify \in BOOLEAN
  /\ freed \in BOOLEAN
  /\ pc \in [Threads -> MainSteps \cup WorkerSteps]
  /\ pc[Main] \in MainSteps
  /\ \A t \in Threads \ {Main} : pc[t] \in WorkerSteps

Init ==
  /\ slots = <<>>
  /\ state = [t \in Threads |-> 0]
  /\ cursor = [t \in Threads |-> 0]
  /\ active_threads = 0
  /\ running = TRUE
  /\ stop = FALSE
  /\ tasks = <<>>
  /\ task = [w \in Workers |-> {}]
  /\ garbage = [k \in Tasks |-> "none"]
  /\ notify = FALSE
  /\ freed = FALSE
  /\ pc = [t \in Threads |-> IF t = Main THEN "pools" ELSE "new"]

-----------------------------------------------------------------------------
Goto(t, from, to) == pc[t] = from /\ pc' = [pc EXCEPT ![t] = to]

\* Where a thread goes on after Ebr_register_thread and Ebr_unregister_thread.
Registered(t) == CASE t = Main -> "critical"
                   [] t = Reclaimer -> "lock"
                   [] OTHER -> "check"
Unregistered(t) == IF t = Main THEN "shutdown" ELSE "exited"

\* Ebr_register_thread: count, then look for a terminated ThreadState from the
\* newest to the oldest.
RegisterCount(t) ==
  /\ Goto(t, "count", "scan")
  /\ active_threads' = active_threads + 1
  /\ cursor' = [cursor EXCEPT ![t] = Len(slots)]
  /\ UNCHANGED <<slots, state, running, poolVars, garbage, freed>>

\* Mutant: a ThreadState is taken over without the compare-and-swap.
ClaimedBlind(s) == [s EXCEPT !.active = FALSE, !.lag = 0]

\* A ThreadState that was taken over.
Claimed(s) == [s EXCEPT !.terminated = FALSE, !.active = FALSE, !.lag = 0]

RegisterScan(t) ==
  LET c == cursor[t] IN
  /\ pc[t] = "scan"
  /\ c # 0
  /\ IF slots[c].terminated
     THEN /\ slots' = [slots EXCEPT ![c] = Claimed(@)]
          /\ state' = [state EXCEPT ![t] = c]
          /\ cursor' = [cursor EXCEPT ![t] = 0]
          /\ pc' = [pc EXCEPT ![t] = Registered(t)]
     ELSE /\ cursor' = [cursor EXCEPT ![t] = c - 1]
          /\ UNCHANGED <<slots, state, pc>>
  /\ UNCHANGED <<active_threads, running, poolVars, garbage, freed>>

\* None was free: a new one becomes the head of the registry.
RegisterNew(t) ==
  /\ pc[t] = "scan"
  /\ cursor[t] = 0
  /\ slots' = Append(slots, [active |-> FALSE, terminated |-> FALSE, lag |-> 0])
  /\ state' = [state EXCEPT ![t] = Len(slots) + 1]
  /\ pc' = [pc EXCEPT ![t] = Registered(t)]
  /\ UNCHANGED <<cursor, active_threads, running, poolVars, garbage, freed>>

\* Ebr_unregister_thread: uncount, then two stores.
UnregisterCount(t) ==
  /\ Goto(t, "unreg_count", "unreg1")
  /\ active_threads' = active_threads - 1
  /\ UNCHANGED <<slots, state, cursor, running, poolVars, garbage, freed>>

Deactivated(s) == [s EXCEPT !.active = FALSE]
Terminated(s)  == [s EXCEPT !.terminated = TRUE]

UnregisterStore1(t) ==
  /\ Goto(t, "unreg1", "unreg2")
  /\ slots' = [slots EXCEPT ![state[t]] = Deactivated(@)]
  /\ UNCHANGED <<state, cursor, active_threads, running, poolVars, garbage, freed>>

UnregisterStore2(t) ==
  /\ Goto(t, "unreg2", Unregistered(t))
  /\ slots' = [slots EXCEPT ![state[t]] = Terminated(@)]
  /\ state' = [state EXCEPT ![t] = 0]
  /\ UNCHANGED <<cursor, active_threads, running, poolVars, garbage, freed>>

-----------------------------------------------------------------------------
\* Ebr_synchronize_and_reclaim.
CanAdvance == \A i \in DOMAIN slots : ~(slots[i].active /\ slots[i].lag = 1)

Synchronize ==
  IF CanAdvance
  THEN /\ slots' = [i \in DOMAIN slots |->
                      IF slots[i].active THEN [slots[i] EXCEPT !.lag = 1]
                      ELSE slots[i]]
       /\ garbage' = [k \in Tasks |-> CASE garbage[k] = "0" -> "1"
                                        [] garbage[k] = "1" -> "released"
                                        [] OTHER -> garbage[k]]
  ELSE UNCHANGED <<slots, garbage>>

\* pthread_cond_signal or pthread_cond_broadcast of reclaimer_cond: it is lost
\* unless the reclaimer is in pthread_cond_wait.
Wake(p) == IF p[Reclaimer] = "asleep" THEN [p EXCEPT ![Reclaimer] = "sync"] ELSE p

\* Ebr_reclaimer_thread_func: under reclaimer_mutex, stop or wait; no condition
\* is looked at again after the wait.
ReclaimerWait ==
  /\ pc[Reclaimer] = "lock"
  /\ pc' = [pc EXCEPT ![Reclaimer] = IF running THEN "asleep" ELSE "unreg_count"]
  /\ UNCHANGED <<regVars, running, poolVars, garbage, freed>>

ReclaimerSync ==
  /\ Goto(Reclaimer, "sync", "lock")
  /\ Synchronize
  /\ UNCHANGED <<state, cursor, active_threads, running, poolVars, freed>>

-----------------------------------------------------------------------------
\* A worker holds queueMutex while it looks at the queue, and until it has
\* unregistered when it leaves.
QueueLocked == \E w \in Workers : pc[w] \in {"unreg_count", "unreg1", "unreg2"}

\* A worker of ThreadPool: wait(lock, stop or a task).
WorkerSleep(w) ==
  /\ ~QueueLocked
  /\ ~stop /\ tasks = <<>>
  /\ Goto(w, "check", "asleep")
  /\ UNCHANGED <<regVars, running, poolVars, garbage, freed>>

WorkerTake(w) ==
  /\ ~QueueLocked
  /\ tasks # <<>>
  /\ Goto(w, "check", "enter")
  /\ task' = [task EXCEPT ![w] = {Head(tasks)}]
  /\ tasks' = Tail(tasks)
  /\ UNCHANGED <<regVars, running, stop, notify, garbage, freed>>

\* Mutant: a worker leaves as soon as the pool stops.
MayExitAtOnce == stop

MayExit == stop /\ tasks = <<>>

WorkerExit(w) ==
  /\ ~QueueLocked
  /\ MayExit
  /\ Goto(w, "check", "unreg_count")
  /\ UNCHANGED <<regVars, running, poolVars, garbage, freed>>

\* Ebr_enter_critical, task(), Ebr_leave_critical.
WorkerEnter(w) ==
  /\ Goto(w, "enter", "task")
  /\ slots' = [slots EXCEPT ![state[w]].active = TRUE, ![state[w]].lag = 0]
  /\ UNCHANGED <<state, cursor, active_threads, running, poolVars, garbage, freed>>

\* The task retires an object; the first autorelease of a thread signals the
\* reclaimer, later ones every EBR_RECLAIM_THRESHOLD times.
WorkerTask(w) ==
  /\ pc[w] = "task"
  /\ \E k \in task[w] : garbage' = [garbage EXCEPT ![k] = "0"]
  /\ \E p \in {pc, Wake(pc)} : pc' = [p EXCEPT ![w] = "leave"]
  /\ UNCHANGED <<regVars, running, poolVars, freed>>

WorkerLeave(w) ==
  /\ Goto(w, "leave", "check")
  /\ slots' = [slots EXCEPT ![state[w]].active = FALSE]
  /\ task' = [task EXCEPT ![w] = {}]
  /\ UNCHANGED <<state, cursor, active_threads, running, stop, tasks, notify,
                 garbage, freed>>

-----------------------------------------------------------------------------
\* The constructor of JITEngine starts the pools, then Ebr_init starts the
\* reclaimer.
StartPools ==
  /\ pc[Main] = "pools"
  /\ pc' = [t \in Threads |-> "count"]
  /\ UNCHANGED <<regVars, running, poolVars, garbage, freed>>

MainEnter ==
  /\ Goto(Main, "critical", "run")
  /\ slots' = [slots EXCEPT ![state[Main]].active = TRUE, ![state[Main]].lag = 0]
  /\ UNCHANGED <<state, cursor, active_threads, running, poolVars, garbage, freed>>

\* The code that main runs calls Ebr_flush_critical before methods return.
MainFlush ==
  /\ pc[Main] = "run"
  /\ slots' = [slots EXCEPT ![state[Main]].lag = 0]
  /\ UNCHANGED <<state, cursor, active_threads, running, poolVars, garbage, freed, pc>>

\* ThreadPool::enqueue: under the lock, then notify_one.
Enqueue(k) ==
  /\ pc[Main] = "run"
  /\ ~notify
  /\ garbage[k] = "none"
  /\ tasks' = Append(tasks, k)
  /\ garbage' = [garbage EXCEPT ![k] = "queued"]
  /\ notify' = TRUE
  /\ UNCHANGED <<regVars, running, stop, task, freed, pc>>

NotifyOne ==
  /\ notify
  /\ notify' = FALSE
  /\ IF \E w \in Workers : pc[w] = "asleep"
     THEN \E w \in Workers : Goto(w, "asleep", "check")
     ELSE UNCHANGED pc
  /\ UNCHANGED <<regVars, running, stop, tasks, task, garbage, freed>>

\* ThreadPool::~ThreadPool: stop, notify_all, join.
StopPool ==
  /\ ~notify
  /\ pc[Main] = "run"
  /\ stop' = TRUE
  /\ pc' = [t \in Threads |-> CASE t = Main -> "join"
                                [] t \in Workers /\ pc[t] = "asleep" -> "check"
                                [] OTHER -> pc[t]]
  /\ UNCHANGED <<regVars, running, tasks, task, notify, garbage, freed>>

JoinPool ==
  /\ \A w \in Workers : pc[w] = "exited"
  /\ Goto(Main, "join", "leave")
  /\ UNCHANGED <<regVars, running, poolVars, garbage, freed>>

\* JITEngine::Finaliser: Ebr_leave_critical, Ebr_force_reclaim, then
\* RuntimeInterface_cleanup with a second Ebr_force_reclaim.
MainLeave ==
  /\ Goto(Main, "leave", "force1")
  /\ slots' = [slots EXCEPT ![state[Main]].active = FALSE]
  /\ UNCHANGED <<state, cursor, active_threads, running, poolVars, garbage, freed>>

\* Ebr_force_reclaim waits for the other threads to unregister.
ForceWait(from, to) ==
  /\ active_threads <= 2
  /\ Goto(Main, from, to)
  /\ UNCHANGED <<regVars, running, poolVars, garbage, freed>>

\* Then it synchronizes until nothing is pending.
ForceSync(from, to) ==
  /\ pc[Main] = from
  /\ Synchronize
  /\ pc' = [pc EXCEPT ![Main] =
              IF \E k \in Tasks : garbage'[k] \in {"0", "1"} THEN from ELSE to]
  /\ UNCHANGED <<state, cursor, active_threads, running, poolVars, freed>>

\* Ebr_shutdown: clear the flag under reclaimer_mutex, broadcast, join.
ShutdownFlag ==
  /\ Goto(Main, "shutdown", "broadcast")
  /\ running' = FALSE
  /\ UNCHANGED <<regVars, poolVars, garbage, freed>>

\* Mutant: the reclaimer is not woken.
ShutdownNoBroadcast ==
  /\ Goto(Main, "broadcast", "join_reclaimer")
  /\ UNCHANGED <<regVars, running, poolVars, garbage, freed>>

ShutdownBroadcast ==
  /\ pc[Main] = "broadcast"
  /\ pc' = [Wake(pc) EXCEPT ![Main] = "join_reclaimer"]
  /\ UNCHANGED <<regVars, running, poolVars, garbage, freed>>

\* Mutant: nobody waits for the reclaimer.
ShutdownJoinNot ==
  /\ Goto(Main, "join_reclaimer", "free")
  /\ UNCHANGED <<regVars, running, poolVars, garbage, freed>>

ShutdownJoin ==
  /\ pc[Reclaimer] = "exited"
  /\ Goto(Main, "join_reclaimer", "free")
  /\ UNCHANGED <<regVars, running, poolVars, garbage, freed>>

\* What is still pending is released and the ThreadStates deallocated.
ShutdownFree ==
  /\ Goto(Main, "free", "ended")
  /\ garbage' = [k \in Tasks |-> IF garbage[k] \in {"0", "1"} THEN "released"
                                 ELSE garbage[k]]
  /\ freed' = TRUE
  /\ UNCHANGED <<regVars, running, poolVars>>

Ended == pc[Main] = "ended" /\ UNCHANGED vars

-----------------------------------------------------------------------------
Registration(t) ==
  \/ RegisterCount(t) \/ RegisterScan(t) \/ RegisterNew(t)
  \/ UnregisterCount(t) \/ UnregisterStore1(t) \/ UnregisterStore2(t)

WorkerStep(w) ==
  \/ Registration(w)
  \/ WorkerSleep(w) \/ WorkerTake(w) \/ WorkerExit(w)
  \/ WorkerEnter(w) \/ WorkerTask(w) \/ WorkerLeave(w)

ReclaimerStep == Registration(Reclaimer) \/ ReclaimerWait \/ ReclaimerSync

MainStep ==
  \/ Registration(Main)
  \/ StartPools \/ MainEnter \/ NotifyOne \/ StopPool \/ JoinPool \/ MainLeave
  \/ ForceWait("force1", "sync1") \/ ForceSync("sync1", "force2")
  \/ ForceWait("force2", "sync2") \/ ForceSync("sync2", "unreg_count")
  \/ ShutdownFlag \/ ShutdownBroadcast \/ ShutdownJoin \/ ShutdownFree
  \/ \E k \in Tasks : Enqueue(k)

Next ==
  \/ MainStep
  \/ MainFlush
  \/ ReclaimerStep
  \/ \E w \in Workers : WorkerStep(w)
  \/ Ended

Spec == Init /\ [][Next]_vars

\* Every thread is scheduled; the tasks that main enqueues are finite.
FairSpec ==
  /\ Spec
  /\ WF_vars(MainStep)
  /\ WF_vars(ReclaimerStep)
  /\ \A w \in Workers : WF_vars(WorkerStep(w))

-----------------------------------------------------------------------------
\* Ebr_register_thread gives a ThreadState to one thread at a time, however the
\* scans and the unregistrations interleave.
OneOwner ==
  \A t, u \in Threads : state[t] # 0 /\ state[t] = state[u] => t = u

\* Ebr_shutdown frees no ThreadState that a thread still uses.
NoUseAfterFree == freed => \A t \in Threads : state[t] = 0

\* At the end of Ebr_shutdown every task that was enqueued has been run and all
\* that the tasks retired has been released.
AllReleased ==
  pc[Main] = "ended" => \A k \in Tasks : garbage[k] \in {"none", "released"}

\* Shutdown ends: no wakeup that it needs is lost.
ShutdownEnds == <>(pc[Main] = "ended")
=============================================================================
