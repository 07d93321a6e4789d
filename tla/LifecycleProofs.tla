-------------------------- MODULE LifecycleProofs --------------------------
(***************************************************************************)
(* Registration and shutdown are safe for any number of workers and tasks: *)
(* a ThreadState has one owner, it is not freed while it has one, and what *)
(* the tasks retired is released at the end.                               *)
(***************************************************************************)
EXTENDS Lifecycle, SequenceTheorems, TLAPS

\* Where a thread has no ThreadState.
Outside == {"new", "pools", "count", "scan", "exited", "shutdown", "broadcast",
            "join_reclaimer", "free", "ended"}

\* A thread has a ThreadState from its registration to its unregistration, and
\* the ThreadState is in the registry and not up for a take-over.
Owned(t) ==
  /\ state[t] = 0 <=> pc[t] \in Outside
  /\ state[t] # 0 => ~slots[state[t]].terminated

\* Steps of main before it stops the pool and after it has joined the workers.
BeforeStop == {"pools", "count", "scan", "critical", "run"}
AfterJoin  == MainSteps \ (BeforeStop \cup {"join"})

\* The order of shutdown: the workers leave when the pool has stopped and the
\* queue is empty, main goes on when they have left, and frees the ThreadStates
\* when the reclaimer has.
LeavingSteps == {"unreg_count", "unreg1", "unreg2", "exited"}
ShutdownOrder ==
  /\ pc[Main] = "pools" => \A t \in Threads \ {Main} : pc[t] = "new"
  /\ stop => pc[Main] \notin BeforeStop
  /\ \A w \in Workers : pc[w] \in LeavingSteps => stop /\ tasks = <<>>
  /\ pc[Main] \in AfterJoin => \A w \in Workers : pc[w] = "exited"
  /\ pc[Main] \in {"free", "ended"} => pc[Reclaimer] = "exited"
  /\ freed => pc[Main] = "ended"

\* A task that was enqueued and has not run is in the queue or with the worker
\* that took it.
Pending(k) ==
  \/ \E i \in 1 .. Len(tasks) : tasks[i] = k
  \/ \E w \in Workers : pc[w] \in {"enter", "task"} /\ task[w] = {k}
TasksKept ==
  /\ \A w \in Workers : pc[w] \in {"enter", "task"} => \E k \in Tasks : task[w] = {k}
  /\ \A k \in Tasks : garbage[k] = "queued" => Pending(k)

LifecycleInv ==
  /\ TypeOK
  /\ \A t \in Threads : Owned(t)
  /\ OneOwner
  /\ ShutdownOrder
  /\ TasksKept
  /\ AllReleased

-----------------------------------------------------------------------------
\* The registry keeps its ThreadStates, and which of them are terminated.
SlotsKept ==
  /\ slots' \in Seq(Slot)
  /\ Len(slots') = Len(slots)
  /\ \A i \in 1 .. Len(slots) : slots'[i].terminated = slots[i].terminated

\* A store to one ThreadState.
LEMMA SlotStore ==
  ASSUME slots \in Seq(Slot), NEW i \in 1 .. Len(slots), NEW x \in Slot,
         slots' = [slots EXCEPT ![i] = x]
  PROVE  /\ slots' \in Seq(Slot) /\ Len(slots') = Len(slots)
         /\ slots'[i] = x
         /\ \A j \in 1 .. Len(slots) : j # i => slots'[j] = slots[j]
BY ExceptSeq

\* Ebr_synchronize_and_reclaim ends no registration and runs no task.
LEMMA SynchronizeKeeps ==
  ASSUME TypeOK, Synchronize
  PROVE  /\ SlotsKept
         /\ garbage' \in [Tasks -> {"none", "queued", "0", "1", "released"}]
         /\ \A k \in Tasks : garbage'[k] = "queued" <=> garbage[k] = "queued"
<1>1. CASE CanAdvance
  <2> DEFINE Later(i) == IF slots[i].active THEN [slots[i] EXCEPT !.lag = 1] ELSE slots[i]
  <2>1. slots' = [i \in 1 .. Len(slots) |-> Later(i)] /\ Len(slots) \in Nat
    BY <1>1, LenProperties DEF Synchronize, TypeOK
  <2>2. \A i \in 1 .. Len(slots) :
          Later(i) \in Slot /\ Later(i).terminated = slots[i].terminated
    <3> SUFFICES ASSUME NEW i \in 1 .. Len(slots)
                 PROVE  Later(i) \in Slot /\ Later(i).terminated = slots[i].terminated
      OBVIOUS
    <3>1. slots[i] \in Slot
      BY ElementOfSeq DEF TypeOK
    <3>2. QED
      BY <3>1 DEF Slot
  <2> HIDE DEF Later
  <2>3. slots' \in Seq(Slot) /\ Len(slots') = Len(slots)
    BY <2>1, <2>2, IsASeq
  <2>4. SlotsKept
    BY <2>1, <2>2, <2>3 DEF SlotsKept
  <2>5. \A k \in Tasks :
          /\ garbage'[k] \in {"none", "queued", "0", "1", "released"}
          /\ garbage'[k] = "queued" <=> garbage[k] = "queued"
    BY <1>1 DEF Synchronize, TypeOK
  <2>6. QED
    BY <1>1, <2>4, <2>5 DEF Synchronize
<1>2. CASE ~CanAdvance
  BY <1>2 DEF Synchronize, SlotsKept, TypeOK
<1>3. QED
  BY <1>1, <1>2

\* Such a step of the registry leaves its owners alone.
LEMMA OwnersKept ==
  ASSUME LifecycleInv, SlotsKept, UNCHANGED state,
         \A t \in Threads : pc'[t] \in Outside <=> pc[t] \in Outside
  PROVE  (\A t \in Threads : Owned(t)') /\ OneOwner'
<1>1. \A t \in Threads : state[t] # 0 => state[t] \in 1 .. Len(slots)
  BY LenProperties DEF LifecycleInv, TypeOK
<1>2. \A t \in Threads : Owned(t)'
  BY <1>1 DEF LifecycleInv, Owned, SlotsKept
<1>3. OneOwner'
  BY DEF LifecycleInv, OneOwner
<1>4. QED
  BY <1>2, <1>3

\* The ThreadState of a registered thread.
LEMMA OwnSlot ==
  ASSUME LifecycleInv, NEW t \in Threads, pc[t] \notin Outside
  PROVE  state[t] \in 1 .. Len(slots) /\ slots[state[t]] \in Slot
<1>1. state[t] \in 1 .. Len(slots)
  BY LenProperties DEF LifecycleInv, TypeOK, Owned
<1>2. QED
  BY <1>1, ElementOfSeq DEF LifecycleInv, TypeOK

\* A thread changes active or lag of its own ThreadState.
LEMMA OwnStore ==
  ASSUME LifecycleInv, NEW t \in Threads, pc[t] \notin Outside,
         NEW x \in Slot, x.terminated = slots[state[t]].terminated,
         slots' = [slots EXCEPT ![state[t]] = x]
  PROVE  SlotsKept
<1>1. state[t] \in 1 .. Len(slots)
  BY OwnSlot
<1>2. QED
  BY <1>1, SlotStore DEF SlotsKept, LifecycleInv, TypeOK

\* A step that neither enqueues nor takes nor runs a task.
LEMMA TasksUntouched ==
  ASSUME LifecycleInv, UNCHANGED <<tasks, task>>,
         \A k \in Tasks : garbage'[k] = "queued" => garbage[k] = "queued",
         \A w \in Workers : pc'[w] \in {"enter", "task"} <=> pc[w] \in {"enter", "task"}
  PROVE  TasksKept'
BY DEF LifecycleInv, TasksKept, Pending

-----------------------------------------------------------------------------
\* Ebr_register_thread: count.
LEMMA RegisterCountStep ==
  ASSUME LifecycleInv, NEW t \in Threads, RegisterCount(t)
  PROVE  LifecycleInv'
<1> USE DEF LifecycleInv, RegisterCount, Goto, poolVars
<1>1. TypeOK'
  BY LenProperties DEF TypeOK, MainSteps, WorkerSteps
<1>2. (\A u \in Threads : Owned(u)') /\ OneOwner'
  BY OwnersKept DEF TypeOK, SlotsKept, Outside
<1>3. ShutdownOrder'
  BY DEF TypeOK, ShutdownOrder, BeforeStop, AfterJoin, MainSteps, LeavingSteps, Threads
<1>4. TasksKept'
  BY TasksUntouched DEF TypeOK, Threads
<1>5. AllReleased'
  BY DEF TypeOK, AllReleased
<1>6. QED
  BY <1>1, <1>2, <1>3, <1>4, <1>5

\* Where a registered thread goes on.
LEMMA RegisteredLabel ==
  ASSUME NEW t \in Threads
  PROVE  /\ t = Main => Registered(t) = "critical"
         /\ t = Reclaimer => Registered(t) = "lock"
         /\ t \in Workers => Registered(t) = "check"
BY ThreadsAssumption DEF Registered, Threads

\* The thread takes over a ThreadState that nobody owns or appends a new one.
LEMMA RegisteredStep ==
  ASSUME LifecycleInv, NEW t \in Threads, pc[t] = "scan",
         pc' = [pc EXCEPT ![t] = Registered(t)],
         NEW i \in 1 .. Len(slots'), state' = [state EXCEPT ![t] = i],
         slots' \in Seq(Slot), Len(slots) <= Len(slots'), ~slots'[i].terminated,
         \A j \in 1 .. Len(slots) : slots'[j].terminated = slots[j].terminated \/ j = i,
         \A u \in Threads : state[u] # i,
         cursor' \in [Threads -> 0 .. Len(slots')],
         UNCHANGED <<active_threads, running, stop, tasks, task, notify, garbage, freed>>
  PROVE  LifecycleInv'
<1> USE DEF LifecycleInv
<1>1. /\ pc'[t] = Registered(t) /\ \A u \in Threads \ {t} : pc'[u] = pc[u]
      /\ Registered(t) \in {"critical", "lock", "check"}
      /\ t = Main => Registered(t) = "critical"
      /\ t # Main => Registered(t) \in {"lock", "check"}
  BY RegisteredLabel DEF TypeOK, Threads
<1>2. /\ Len(slots) \in Nat /\ Len(slots') \in Nat
      /\ \A u \in Threads : state[u] \in 0 .. Len(slots)
  BY LenProperties DEF TypeOK
<1>3. TypeOK'
  <2>1. state' \in [Threads -> 0 .. Len(slots')]
    BY <1>2 DEF TypeOK
  <2>2. /\ pc' \in [Threads -> MainSteps \cup WorkerSteps]
        /\ pc'[Main] \in MainSteps
        /\ \A u \in Threads \ {Main} : pc'[u] \in WorkerSteps
    BY <1>1 DEF TypeOK, MainSteps, WorkerSteps, Threads
  <2>3. QED
    BY <2>1, <2>2 DEF TypeOK
<1>4. \A u \in Threads : Owned(u)'
  <2>1. Owned(t)'
    BY <1>1, <1>2 DEF TypeOK, Owned, Outside
  <2>2. ASSUME NEW u \in Threads, u # t PROVE Owned(u)'
    <3>1. state'[u] = state[u] /\ pc'[u] = pc[u] /\ Owned(u)
      BY <1>1, <2>2 DEF TypeOK
    <3>2. state[u] # 0 => slots'[state[u]].terminated = slots[state[u]].terminated
      BY <1>2
    <3>3. QED
      BY <3>1, <3>2 DEF Owned
  <2>3. QED
    BY <2>1, <2>2
<1>5. OneOwner'
  BY <1>2 DEF TypeOK, OneOwner
<1>6. ShutdownOrder'
  BY <1>1 DEF ShutdownOrder, BeforeStop, AfterJoin, MainSteps, LeavingSteps, Threads
<1>7. TasksKept'
  BY <1>1, TasksUntouched DEF Threads
<1>8. AllReleased'
  BY <1>1 DEF AllReleased, Threads
<1>9. QED
  BY <1>3, <1>4, <1>5, <1>6, <1>7, <1>8

\* Ebr_register_thread: the scan of the registry.
LEMMA RegisterScanStep ==
  ASSUME LifecycleInv, NEW t \in Threads, RegisterScan(t)
  PROVE  LifecycleInv'
<1> USE DEF LifecycleInv
<1> DEFINE c == cursor[t]
<1>1. /\ pc[t] = "scan" /\ c \in 1 .. Len(slots) /\ Len(slots) \in Nat
      /\ slots[c] \in Slot
      /\ UNCHANGED <<active_threads, running, stop, tasks, task, notify, garbage, freed>>
  <2>1. c \in 1 .. Len(slots) /\ Len(slots) \in Nat
    BY LenProperties DEF RegisterScan, TypeOK
  <2>2. QED
    BY <2>1, ElementOfSeq DEF RegisterScan, TypeOK, poolVars
<1>2. CASE slots[c].terminated
  <2>1. /\ slots' = [slots EXCEPT ![c] = Claimed(slots[c])]
        /\ state' = [state EXCEPT ![t] = c]
        /\ cursor' = [cursor EXCEPT ![t] = 0]
        /\ pc' = [pc EXCEPT ![t] = Registered(t)]
    BY <1>1, <1>2 DEF RegisterScan
  <2>2. Claimed(slots[c]) \in Slot /\ ~Claimed(slots[c]).terminated
    BY <1>1 DEF Claimed, Slot
  <2>3. /\ slots' \in Seq(Slot) /\ Len(slots') = Len(slots)
        /\ slots'[c] = Claimed(slots[c])
        /\ \A j \in 1 .. Len(slots) : j # c => slots'[j] = slots[j]
    BY <1>1, <2>1, <2>2, SlotStore DEF TypeOK
  <2>4. \A u \in Threads : state[u] # c
    BY <1>1, <1>2 DEF Owned
  <2>5. cursor' \in [Threads -> 0 .. Len(slots')]
    BY <1>1, <2>1, <2>3 DEF TypeOK
  <2>6. c \in 1 .. Len(slots') /\ Len(slots) <= Len(slots')
    BY <1>1, <2>3
  <2>7. /\ ~slots'[c].terminated
        /\ \A j \in 1 .. Len(slots) : slots'[j].terminated = slots[j].terminated \/ j = c
    BY <2>2, <2>3
  <2> HIDE DEF c
  <2>8. QED
    BY <1>1, <2>1, <2>3, <2>4, <2>5, <2>6, <2>7, RegisteredStep
<1>3. CASE ~slots[c].terminated
  <2>1. cursor' = [cursor EXCEPT ![t] = c - 1] /\ UNCHANGED <<slots, state, pc>>
    BY <1>3 DEF RegisterScan
  <2>2. TypeOK'
    BY <1>1, <2>1 DEF TypeOK
  <2>3. (\A u \in Threads : Owned(u)') /\ OneOwner'
    BY <2>1, OwnersKept DEF TypeOK, SlotsKept
  <2>4. ShutdownOrder' /\ TasksKept' /\ AllReleased'
    BY <1>1, <2>1 DEF ShutdownOrder, TasksKept, Pending, AllReleased
  <2>5. QED
    BY <2>2, <2>3, <2>4
<1>4. QED
  BY <1>2, <1>3

\* Ebr_register_thread: a new ThreadState.
LEMMA RegisterNewStep ==
  ASSUME LifecycleInv, NEW t \in Threads, RegisterNew(t)
  PROVE  LifecycleInv'
<1> USE DEF LifecycleInv
<1> DEFINE x == [active |-> FALSE, terminated |-> FALSE, lag |-> 0]
           n == Len(slots) + 1
<1>1. x \in Slot /\ ~x.terminated
  BY DEF Slot
<1>2. /\ pc[t] = "scan" /\ slots' = Append(slots, x)
      /\ state' = [state EXCEPT ![t] = n]
      /\ pc' = [pc EXCEPT ![t] = Registered(t)]
      /\ UNCHANGED <<cursor, active_threads, running, stop, tasks, task, notify,
                     garbage, freed>>
  BY DEF RegisterNew, poolVars
<1> HIDE DEF x
<1>3. /\ slots' \in Seq(Slot) /\ Len(slots') = n /\ slots'[n] = x
      /\ \A j \in 1 .. Len(slots) : slots'[j] = slots[j]
      /\ Len(slots) \in Nat
  BY <1>1, <1>2, AppendProperties, LenProperties DEF TypeOK
<1>4. \A u \in Threads : state[u] # n
  BY <1>3 DEF TypeOK
<1>5. cursor' \in [Threads -> 0 .. Len(slots')]
  BY <1>2, <1>3 DEF TypeOK
<1>6. n \in 1 .. Len(slots') /\ Len(slots) <= Len(slots')
  BY <1>3
<1> HIDE DEF n
<1>7. QED
  BY <1>1, <1>2, <1>3, <1>4, <1>5, <1>6, RegisteredStep

\* Ebr_unregister_thread: uncount, then the store that ends a critical section.
LEMMA UnregisterStep ==
  ASSUME LifecycleInv, NEW t \in Threads, UnregisterCount(t) \/ UnregisterStore1(t)
  PROVE  LifecycleInv'
<1> USE DEF LifecycleInv
<1>1. PICK l \in {"unreg1", "unreg2"} :
        /\ pc' = [pc EXCEPT ![t] = l]
        /\ pc[t] \in {"unreg_count", "unreg1"}
        /\ active_threads' \in Int
        /\ UNCHANGED <<state, cursor, running, stop, tasks, task, notify, garbage, freed>>
  BY DEF UnregisterCount, UnregisterStore1, Goto, TypeOK, poolVars
<1>2. SlotsKept
  <2>1. CASE UNCHANGED slots
    BY <2>1 DEF SlotsKept, TypeOK
  <2>2. CASE slots' = [slots EXCEPT ![state[t]] = Deactivated(@)]
    <3>1. state[t] \in 1 .. Len(slots) /\ slots[state[t]] \in Slot
      BY <1>1, OwnSlot DEF Outside
    <3>2. /\ Deactivated(slots[state[t]]) \in Slot
          /\ Deactivated(slots[state[t]]).terminated = slots[state[t]].terminated
      BY <3>1 DEF Deactivated, Slot
    <3>3. slots' = [slots EXCEPT ![state[t]] = Deactivated(slots[state[t]])]
      BY <2>2
    <3>4. QED
      BY <3>1, <3>2, <3>3, SlotStore DEF SlotsKept, TypeOK
  <2>3. QED
    BY <2>1, <2>2 DEF UnregisterCount, UnregisterStore1
<1>3. TypeOK'
  BY <1>1, <1>2 DEF TypeOK, SlotsKept, MainSteps, WorkerSteps
<1>4. (\A u \in Threads : Owned(u)') /\ OneOwner'
  BY <1>1, <1>2, OwnersKept DEF TypeOK, Outside
<1>5. ShutdownOrder'
  BY <1>1 DEF TypeOK, ShutdownOrder, BeforeStop, AfterJoin, MainSteps, LeavingSteps, Threads
<1>6. TasksKept'
  BY <1>1, TasksUntouched DEF TypeOK, Threads
<1>7. AllReleased'
  BY <1>1 DEF TypeOK, AllReleased
<1>8. QED
  BY <1>3, <1>4, <1>5, <1>6, <1>7

\* Ebr_unregister_thread: the ThreadState is given up.
LEMMA TerminateStep ==
  ASSUME LifecycleInv, NEW t \in Threads, UnregisterStore2(t)
  PROVE  LifecycleInv'
<1> USE DEF LifecycleInv
<1>1. /\ pc[t] = "unreg2" /\ pc' = [pc EXCEPT ![t] = Unregistered(t)]
      /\ slots' = [slots EXCEPT ![state[t]] = Terminated(slots[state[t]])]
      /\ state' = [state EXCEPT ![t] = 0]
      /\ UNCHANGED <<cursor, active_threads, running, stop, tasks, task, notify,
                     garbage, freed>>
  BY DEF UnregisterStore2, Goto, poolVars
<1>2. state[t] \in 1 .. Len(slots) /\ slots[state[t]] \in Slot
  BY <1>1, OwnSlot DEF Outside
<1>3. Terminated(slots[state[t]]) \in Slot
  BY <1>2 DEF Terminated, Slot
<1>4. /\ slots' \in Seq(Slot) /\ Len(slots') = Len(slots)
      /\ \A j \in 1 .. Len(slots) : j # state[t] => slots'[j] = slots[j]
  BY <1>1, <1>2, <1>3, SlotStore DEF TypeOK
<1>5. /\ pc'[t] = Unregistered(t) /\ \A u \in Threads \ {t} : pc'[u] = pc[u]
      /\ Unregistered(t) = IF t = Main THEN "shutdown" ELSE "exited"
  BY <1>1 DEF TypeOK, Unregistered
<1>6. TypeOK'
  <2>1. /\ pc' \in [Threads -> MainSteps \cup WorkerSteps]
        /\ pc'[Main] \in MainSteps
        /\ \A u \in Threads \ {Main} : pc'[u] \in WorkerSteps
    BY <1>1, <1>5 DEF TypeOK, MainSteps, WorkerSteps, Threads
  <2>2. QED
    BY <1>1, <1>4, <2>1, LenProperties DEF TypeOK
<1>7. \A u \in Threads : Owned(u)'
  <2>1. Owned(t)'
    BY <1>1, <1>5 DEF TypeOK, Owned, Outside
  <2>2. ASSUME NEW u \in Threads, u # t PROVE Owned(u)'
    <3>1. state'[u] = state[u] /\ pc'[u] = pc[u] /\ Owned(u)
      BY <1>1, <2>2 DEF TypeOK
    <3>2. state[u] # 0 => state[u] \in 1 .. Len(slots) /\ state[u] # state[t]
      BY <1>2, <2>2, LenProperties DEF TypeOK, OneOwner
    <3>3. QED
      BY <1>4, <3>1, <3>2 DEF Owned
  <2>3. QED
    BY <2>1, <2>2
<1>8. OneOwner'
  BY <1>1 DEF TypeOK, OneOwner
<1>9. ShutdownOrder'
  BY <1>1, <1>5 DEF ShutdownOrder, BeforeStop, AfterJoin, MainSteps, LeavingSteps, Threads
<1>10. TasksKept'
  BY <1>1, <1>5, TasksUntouched DEF Threads
<1>11. AllReleased'
  BY <1>1, <1>5 DEF AllReleased, Threads
<1>12. QED
  BY <1>6, <1>7, <1>8, <1>9, <1>10, <1>11

\* Ebr_register_thread and Ebr_unregister_thread.
LEMMA RegistrationStep ==
  ASSUME LifecycleInv, NEW t \in Threads, Registration(t)
  PROVE  LifecycleInv'
BY RegisterCountStep, RegisterScanStep, RegisterNewStep, UnregisterStep, TerminateStep
   DEF Registration

-----------------------------------------------------------------------------
\* The reclaimer waits, leaves, or synchronizes.
LEMMA ReclaimerKeeps ==
  ASSUME LifecycleInv, ReclaimerWait \/ ReclaimerSync
  PROVE  LifecycleInv'
<1> USE DEF LifecycleInv
<1>1. PICK l \in {"asleep", "unreg_count", "lock"} :
        /\ pc' = [pc EXCEPT ![Reclaimer] = l]
        /\ pc[Reclaimer] \in {"lock", "sync"}
        /\ UNCHANGED <<state, cursor, active_threads, running, stop, tasks, task,
                       notify, freed>>
  BY DEF ReclaimerWait, ReclaimerSync, Goto, regVars, poolVars
<1>2. /\ SlotsKept
      /\ garbage' \in [Tasks -> {"none", "queued", "0", "1", "released"}]
      /\ \A k \in Tasks : garbage'[k] = "queued" <=> garbage[k] = "queued"
  <2>1. CASE UNCHANGED <<slots, garbage>>
    BY <2>1 DEF SlotsKept, TypeOK
  <2>2. CASE Synchronize
    BY <2>2, SynchronizeKeeps
  <2>3. QED
    BY <2>1, <2>2 DEF ReclaimerWait, ReclaimerSync, regVars
<1>3. /\ pc'[Reclaimer] = l /\ \A u \in Threads \ {Reclaimer} : pc'[u] = pc[u]
      /\ Reclaimer \in Threads /\ Main \in Threads /\ Reclaimer # Main
      /\ Reclaimer \notin Workers
  BY <1>1, ThreadsAssumption DEF TypeOK, Threads
<1>4. TypeOK'
  BY <1>1, <1>2, <1>3 DEF TypeOK, SlotsKept, MainSteps, WorkerSteps
<1>5. (\A u \in Threads : Owned(u)') /\ OneOwner'
  BY <1>1, <1>2, <1>3, OwnersKept DEF Outside
<1>6. ShutdownOrder'
  BY <1>1, <1>3 DEF ShutdownOrder, Threads
<1>7. TasksKept'
  BY <1>1, <1>2, <1>3, TasksUntouched DEF Threads
<1>8. AllReleased'
  BY <1>1, <1>3 DEF AllReleased, ShutdownOrder
<1>9. QED
  BY <1>4, <1>5, <1>6, <1>7, <1>8

-----------------------------------------------------------------------------
\* A worker between tasks: it sleeps, takes a task, or leaves.
LEMMA WorkerCheckStep ==
  ASSUME LifecycleInv, NEW w \in Workers, WorkerSleep(w) \/ WorkerExit(w) \/ WorkerTake(w)
  PROVE  LifecycleInv'
<1> USE DEF LifecycleInv
<1>1. PICK l \in {"asleep", "unreg_count", "enter"} :
        /\ pc[w] = "check" /\ pc' = [pc EXCEPT ![w] = l]
        /\ l = "unreg_count" => stop /\ tasks = <<>>
        /\ l = "enter" <=> WorkerTake(w)
        /\ UNCHANGED <<slots, state, cursor, active_threads, running, stop, notify,
                       garbage, freed>>
  BY DEF WorkerSleep, WorkerExit, WorkerTake, MayExit, Goto, regVars, poolVars
<1>2. /\ w \in Threads /\ w # Main /\ w # Reclaimer /\ Main \in Threads
      /\ Reclaimer \in Threads /\ Workers \subseteq Threads
      /\ pc'[w] = l /\ \A u \in Threads \ {w} : pc'[u] = pc[u]
  BY <1>1, ThreadsAssumption DEF TypeOK, Threads
<1>3. (\A u \in Threads : Owned(u)') /\ OneOwner'
  BY <1>1, <1>2, OwnersKept DEF SlotsKept, TypeOK, Outside
<1>4. AllReleased'
  BY <1>1, <1>2 DEF AllReleased
<1>5. CASE l # "enter"
  <2>1. UNCHANGED <<tasks, task>>
    BY <1>1, <1>5 DEF WorkerSleep, WorkerExit, poolVars
  <2>2. TypeOK'
    BY <1>1, <1>2, <2>1 DEF TypeOK, WorkerSteps
  <2>3. ShutdownOrder'
    BY <1>1, <1>2, <2>1 DEF ShutdownOrder, LeavingSteps
  <2>4. TasksKept'
    BY <1>1, <1>2, <1>5, <2>1, TasksUntouched
  <2>5. QED
    BY <1>3, <1>4, <2>2, <2>3, <2>4
<1>6. CASE l = "enter"
  <2>1. /\ tasks # <<>> /\ tasks' = Tail(tasks)
        /\ task' = [task EXCEPT ![w] = {Head(tasks)}]
    BY <1>1, <1>6 DEF WorkerTake
  <2>2. /\ Head(tasks) \in Tasks /\ Tail(tasks) \in Seq(Tasks)
        /\ Len(tasks) \in Nat /\ Len(tasks) > 0 /\ Len(tasks') = Len(tasks) - 1
        /\ Head(tasks) = tasks[1]
        /\ \A i \in 1 .. Len(tasks) - 1 : tasks'[i] = tasks[i + 1]
    BY <2>1, HeadTailProperties, LenProperties, EmptySeq DEF TypeOK
  <2>3. TypeOK'
    BY <1>1, <1>2, <2>1, <2>2 DEF TypeOK, WorkerSteps
  <2>4. ShutdownOrder'
    BY <1>1, <1>2, <1>6, <2>1 DEF ShutdownOrder, LeavingSteps
  <2>5. TasksKept'
    <3>1. \A u \in Workers : pc'[u] \in {"enter", "task"} => \E k \in Tasks : task'[u] = {k}
      BY <1>1, <1>2, <2>1, <2>2 DEF TypeOK, TasksKept
    <3>2. ASSUME NEW k \in Tasks, garbage'[k] = "queued" PROVE Pending(k)'
      <4>1. CASE \E u \in Workers : pc[u] \in {"enter", "task"} /\ task[u] = {k}
        BY <1>1, <1>2, <2>1, <4>1 DEF TypeOK, Pending
      <4>2. CASE k = tasks[1]
        BY <1>2, <1>6, <2>1, <2>2, <4>2 DEF TypeOK, Pending
      <4>3. CASE \E i \in 2 .. Len(tasks) : tasks[i] = k
        <5>1. PICK i \in 2 .. Len(tasks) : tasks[i] = k
          BY <4>3
        <5>2. i - 1 \in 1 .. Len(tasks') /\ tasks'[i - 1] = k
          BY <2>2, <5>1
        <5>3. QED
          BY <5>2 DEF Pending
      <4>4. Pending(k)
        BY <1>1, <3>2 DEF TasksKept
      <4>5. QED
        BY <2>2, <4>1, <4>2, <4>3, <4>4, SMTT(30) DEF Pending
    <3>3. QED
      BY <3>1, <3>2 DEF TasksKept
  <2>6. QED
    BY <1>3, <1>4, <2>3, <2>4, <2>5
<1>7. QED
  BY <1>5, <1>6

\* A worker enters or leaves the critical section of its task.
LEMMA WorkerCriticalStep ==
  ASSUME LifecycleInv, NEW w \in Workers, WorkerEnter(w) \/ WorkerLeave(w)
  PROVE  LifecycleInv'
<1> USE DEF LifecycleInv
<1>1. PICK l \in {"task", "check"} :
        /\ pc' = [pc EXCEPT ![w] = l]
        /\ l = "task" => pc[w] = "enter" /\ UNCHANGED task
        /\ l = "check" => pc[w] = "leave" /\ task' = [task EXCEPT ![w] = {}]
        /\ UNCHANGED <<state, cursor, active_threads, running, stop, tasks, notify,
                       garbage, freed>>
  BY DEF WorkerEnter, WorkerLeave, Goto, poolVars
<1>2. /\ w \in Threads /\ w # Main /\ w # Reclaimer /\ Main \in Threads
      /\ Reclaimer \in Threads /\ Workers \subseteq Threads
      /\ pc'[w] = l /\ \A u \in Threads \ {w} : pc'[u] = pc[u]
  BY <1>1, ThreadsAssumption DEF TypeOK, Threads
<1>3. SlotsKept
  <2>1. slots[state[w]] \in Slot /\ pc[w] \notin Outside
    BY <1>1, <1>2, OwnSlot DEF Outside
  <2>2. PICK x \in Slot : /\ x.terminated = slots[state[w]].terminated
                          /\ slots' = [slots EXCEPT ![state[w]] = x]
    <3>1. CASE WorkerEnter(w)
      <4> DEFINE x == [slots[state[w]] EXCEPT !.active = TRUE, !.lag = 0]
      <4>1. x \in Slot /\ x.terminated = slots[state[w]].terminated
        BY <2>1 DEF Slot
      <4>2. slots' = [slots EXCEPT ![state[w]] = x]
        BY <2>1, <3>1, OwnSlot, <1>2 DEF WorkerEnter, TypeOK, Slot
      <4>3. QED
        BY <4>1, <4>2
    <3>2. CASE WorkerLeave(w)
      <4> DEFINE x == [slots[state[w]] EXCEPT !.active = FALSE]
      <4>1. x \in Slot /\ x.terminated = slots[state[w]].terminated
        BY <2>1 DEF Slot
      <4>2. slots' = [slots EXCEPT ![state[w]] = x]
        BY <3>2 DEF WorkerLeave
      <4>3. QED
        BY <4>1, <4>2
    <3>3. QED
      BY <3>1, <3>2
  <2>3. QED
    BY <1>2, <2>1, <2>2, OwnStore
<1>4. TypeOK'
  BY <1>1, <1>2, <1>3 DEF TypeOK, SlotsKept, WorkerSteps
<1>5. (\A u \in Threads : Owned(u)') /\ OneOwner'
  BY <1>1, <1>2, <1>3, OwnersKept DEF Outside
<1>6. ShutdownOrder'
  BY <1>1, <1>2 DEF ShutdownOrder, LeavingSteps
<1>7. TasksKept'
  <2>1. \A u \in Workers : pc'[u] \in {"enter", "task"}
                             => pc[u] \in {"enter", "task"} /\ task'[u] = task[u]
    BY <1>1, <1>2 DEF TypeOK
  <2>2. \A u \in Workers : pc[u] \in {"enter", "task"}
                             => pc'[u] \in {"enter", "task"} /\ task'[u] = task[u]
    BY <1>1, <1>2 DEF TypeOK
  <2>3. QED
    BY <1>1, <2>1, <2>2 DEF TasksKept, Pending
<1>8. AllReleased'
  BY <1>1, <1>2 DEF AllReleased
<1>9. QED
  BY <1>4, <1>5, <1>6, <1>7, <1>8

\* A worker runs its task, which may wake the reclaimer.
LEMMA WorkerTaskStep ==
  ASSUME LifecycleInv, NEW w \in Workers, WorkerTask(w)
  PROVE  LifecycleInv'
<1> USE DEF LifecycleInv
<1>1. /\ pc[w] = "task"
      /\ UNCHANGED <<slots, state, cursor, active_threads, running, stop, tasks, task,
                     notify, freed>>
  BY DEF WorkerTask, regVars, poolVars
<1>2. PICK k \in Tasks : task[w] = {k} /\ garbage' = [garbage EXCEPT ![k] = "0"]
  BY <1>1 DEF WorkerTask, TasksKept
<1>3. PICK p \in {pc, Wake(pc)} : pc' = [p EXCEPT ![w] = "leave"]
  BY DEF WorkerTask
<1>4. /\ w \in Threads /\ w # Main /\ w # Reclaimer /\ Main \in Threads
      /\ Reclaimer \in Threads /\ Main # Reclaimer /\ Reclaimer \notin Workers
      /\ Workers \subseteq Threads
  BY ThreadsAssumption DEF Threads
<1>5. /\ pc'[w] = "leave" /\ \A u \in Threads \ {w, Reclaimer} : pc'[u] = pc[u]
      /\ \/ pc'[Reclaimer] = pc[Reclaimer]
         \/ pc[Reclaimer] = "asleep" /\ pc'[Reclaimer] = "sync"
      /\ pc' \in [Threads -> MainSteps \cup WorkerSteps]
  BY <1>3, <1>4 DEF Wake, TypeOK, WorkerSteps
<1>6. TypeOK'
  BY <1>1, <1>2, <1>4, <1>5 DEF TypeOK, WorkerSteps
<1>7. (\A u \in Threads : Owned(u)') /\ OneOwner'
  BY <1>1, <1>4, <1>5, OwnersKept DEF SlotsKept, TypeOK, Outside
<1>8. ShutdownOrder'
  BY <1>1, <1>4, <1>5 DEF ShutdownOrder, LeavingSteps
<1>9. TasksKept'
  <2>1. \A u \in Workers : pc'[u] \in {"enter", "task"}
                             => pc[u] \in {"enter", "task"} /\ task'[u] = task[u]
    BY <1>1, <1>4, <1>5
  <2>2. ASSUME NEW j \in Tasks, garbage'[j] = "queued" PROVE Pending(j)'
    <3>1. garbage[j] = "queued" /\ j # k
      BY <1>2, <2>2 DEF TypeOK
    <3>2. CASE \E i \in 1 .. Len(tasks) : tasks[i] = j
      BY <1>1, <3>2 DEF Pending
    <3>3. CASE \E u \in Workers : pc[u] \in {"enter", "task"} /\ task[u] = {j}
      <4>1. PICK u \in Workers : pc[u] \in {"enter", "task"} /\ task[u] = {j}
        BY <3>3
      <4>2. u # w
        BY <1>2, <3>1, <4>1
      <4>3. QED
        BY <1>1, <1>4, <1>5, <4>1, <4>2 DEF Pending
    <3>4. QED
      BY <3>1, <3>2, <3>3 DEF TasksKept, Pending
  <2>3. QED
    BY <2>1, <2>2 DEF TasksKept
<1>10. AllReleased'
  BY <1>1, <1>4, <1>5 DEF AllReleased, ShutdownOrder, AfterJoin, MainSteps, BeforeStop
<1>11. QED
  BY <1>6, <1>7, <1>8, <1>9, <1>10

-----------------------------------------------------------------------------
\* A step of main from one label to another, which leaves the queue and the
\* owners of the ThreadStates alone.
LEMMA MainMoves ==
  ASSUME LifecycleInv, SlotsKept,
         NEW l \in MainSteps, pc' = [pc EXCEPT ![Main] = l],
         l \in Outside <=> pc[Main] \in Outside,
         l \in BeforeStop => pc[Main] \in BeforeStop,
         l \in AfterJoin => \A w \in Workers : pc[w] = "exited",
         l \in {"free", "ended"} => pc[Reclaimer] = "exited",
         l # "pools", l # "ended", pc[Main] # "ended",
         garbage' \in [Tasks -> {"none", "queued", "0", "1", "released"}],
         \A k \in Tasks : garbage'[k] = "queued" <=> garbage[k] = "queued",
         running' \in BOOLEAN,
         UNCHANGED <<state, cursor, active_threads, stop, tasks, task, notify, freed>>
  PROVE  LifecycleInv'
<1> USE DEF LifecycleInv
<1>1. /\ Main \in Threads /\ Main \notin Workers /\ Main # Reclaimer
      /\ Reclaimer \in Threads /\ Workers \subseteq Threads
      /\ pc'[Main] = l /\ \A u \in Threads \ {Main} : pc'[u] = pc[u]
  BY ThreadsAssumption DEF TypeOK, Threads
<1>2. TypeOK'
  BY <1>1 DEF TypeOK, SlotsKept
<1>3. (\A u \in Threads : Owned(u)') /\ OneOwner'
  BY <1>1, OwnersKept
<1>4. ShutdownOrder'
  BY <1>1 DEF ShutdownOrder
<1>5. TasksKept'
  BY <1>1, TasksUntouched
<1>6. AllReleased'
  BY <1>1 DEF AllReleased
<1>7. QED
  BY <1>2, <1>3, <1>4, <1>5, <1>6

\* Main waits for the workers, for the counter or for the reclaimer, and clears
\* the flag of the reclaimer.
LEMMA MainWaitStep ==
  ASSUME LifecycleInv,
         \/ JoinPool \/ ForceWait("force1", "sync1") \/ ForceWait("force2", "sync2")
         \/ ShutdownFlag \/ ShutdownJoin
  PROVE  LifecycleInv'
<1> USE DEF LifecycleInv
<1>1. SlotsKept /\ UNCHANGED <<state, cursor, active_threads, stop, tasks, task, notify,
                               freed, garbage>>
  BY DEF JoinPool, ForceWait, ShutdownFlag, ShutdownJoin, SlotsKept, TypeOK, regVars,
         poolVars
<1>2. running' \in BOOLEAN
  BY DEF JoinPool, ForceWait, ShutdownFlag, ShutdownJoin, TypeOK
<1>3. PICK l \in {"leave", "sync1", "sync2", "broadcast", "free"} :
        /\ pc' = [pc EXCEPT ![Main] = l]
        /\ l = "leave" => pc[Main] = "join" /\ \A w \in Workers : pc[w] = "exited"
        /\ l = "sync1" => pc[Main] = "force1"
        /\ l = "sync2" => pc[Main] = "force2"
        /\ l = "broadcast" => pc[Main] = "shutdown"
        /\ l = "free" => pc[Main] = "join_reclaimer" /\ pc[Reclaimer] = "exited"
  BY DEF JoinPool, ForceWait, ShutdownFlag, ShutdownJoin, Goto
<1>4. /\ l \in MainSteps /\ l \notin BeforeStop /\ l # "pools"
      /\ l \in Outside <=> pc[Main] \in Outside
      /\ l # "ended" /\ pc[Main] # "ended"
      /\ \A w \in Workers : pc[w] = "exited"
      /\ l = "free" => pc[Reclaimer] = "exited"
  BY <1>3 DEF MainSteps, BeforeStop, Outside, ShutdownOrder, AfterJoin
<1>5. QED
  BY <1>1, <1>2, <1>3, <1>4, MainMoves DEF TypeOK

\* Main enters, flushes or leaves its critical section.
LEMMA MainCriticalStep ==
  ASSUME LifecycleInv, MainEnter \/ MainFlush \/ MainLeave
  PROVE  LifecycleInv'
<1> USE DEF LifecycleInv
<1>1. UNCHANGED <<state, cursor, active_threads, stop, tasks, task, notify, freed,
                  garbage, running>>
  BY DEF MainEnter, MainFlush, MainLeave, poolVars
<1>2. PICK l \in {"run", "force1"} :
        /\ pc' = [pc EXCEPT ![Main] = l]
        /\ l = "run" => pc[Main] \in {"critical", "run"}
        /\ l = "force1" => pc[Main] = "leave"
  BY DEF MainEnter, MainFlush, MainLeave, Goto, TypeOK
<1>3. Main \in Threads /\ pc[Main] \notin Outside
  BY <1>2 DEF Threads, Outside
<1>4. slots[state[Main]] \in Slot
  BY <1>3, OwnSlot
<1>5. PICK x \in Slot : /\ x.terminated = slots[state[Main]].terminated
                        /\ slots' = [slots EXCEPT ![state[Main]] = x]
  <2>1. CASE MainEnter
    <3> DEFINE x == [slots[state[Main]] EXCEPT !.active = TRUE, !.lag = 0]
    <3>1. x \in Slot /\ x.terminated = slots[state[Main]].terminated
      BY <1>4 DEF Slot
    <3>2. slots' = [slots EXCEPT ![state[Main]] = x]
      BY <1>3, <1>4, <2>1, OwnSlot DEF MainEnter, TypeOK, Slot
    <3>3. QED
      BY <3>1, <3>2
  <2>2. CASE MainFlush
    <3> DEFINE x == [slots[state[Main]] EXCEPT !.lag = 0]
    <3>1. x \in Slot /\ x.terminated = slots[state[Main]].terminated
      BY <1>4 DEF Slot
    <3>2. slots' = [slots EXCEPT ![state[Main]] = x]
      BY <2>2 DEF MainFlush
    <3>3. QED
      BY <3>1, <3>2
  <2>3. CASE MainLeave
    <3> DEFINE x == [slots[state[Main]] EXCEPT !.active = FALSE]
    <3>1. x \in Slot /\ x.terminated = slots[state[Main]].terminated
      BY <1>4 DEF Slot
    <3>2. slots' = [slots EXCEPT ![state[Main]] = x]
      BY <2>3 DEF MainLeave
    <3>3. QED
      BY <3>1, <3>2
  <2>4. QED
    BY <2>1, <2>2, <2>3
<1>6. SlotsKept
  BY <1>3, <1>5, OwnStore
<1>7. /\ l \in MainSteps /\ l # "pools" /\ l # "ended" /\ pc[Main] # "ended"
      /\ l \in Outside <=> pc[Main] \in Outside
      /\ l \in BeforeStop => pc[Main] \in BeforeStop
      /\ l \in AfterJoin => \A w \in Workers : pc[w] = "exited"
      /\ l \notin {"free", "ended"}
  BY <1>2 DEF MainSteps, BeforeStop, Outside, ShutdownOrder, AfterJoin
<1>8. QED
  BY <1>1, <1>2, <1>6, <1>7, MainMoves DEF TypeOK

\* Ebr_force_reclaim synchronizes.
LEMMA ForceSyncStep ==
  ASSUME LifecycleInv,
         ForceSync("sync1", "force2") \/ ForceSync("sync2", "unreg_count")
  PROVE  LifecycleInv'
<1> USE DEF LifecycleInv
<1>1. Synchronize /\ UNCHANGED <<state, cursor, active_threads, running, stop, tasks,
                                 task, notify, freed>>
  BY DEF ForceSync, poolVars
<1>2. PICK l \in {"sync1", "sync2", "force2", "unreg_count"} :
        pc' = [pc EXCEPT ![Main] = l] /\ pc[Main] \in {"sync1", "sync2"}
  BY DEF ForceSync
<1>3. /\ l \in MainSteps /\ l # "pools" /\ l # "ended" /\ pc[Main] # "ended"
      /\ l \in Outside <=> pc[Main] \in Outside
      /\ l \notin BeforeStop /\ l \notin {"free", "ended"}
      /\ \A w \in Workers : pc[w] = "exited"
  BY <1>2 DEF MainSteps, BeforeStop, Outside, ShutdownOrder, AfterJoin
<1>4. QED
  BY <1>1, <1>2, <1>3, SynchronizeKeeps, MainMoves DEF TypeOK

\* The pools start.
LEMMA StartPoolsStep ==
  ASSUME LifecycleInv, StartPools
  PROVE  LifecycleInv'
<1> USE DEF LifecycleInv
<1>1. /\ pc[Main] = "pools" /\ pc' = [t \in Threads |-> "count"]
      /\ UNCHANGED <<slots, state, cursor, active_threads, running, stop, tasks, task,
                     notify, garbage, freed>>
  BY DEF StartPools, regVars, poolVars
<1>2. Main \in Threads /\ Reclaimer \in Threads /\ Workers \subseteq Threads
  BY DEF Threads
<1>3. TypeOK'
  BY <1>1, <1>2 DEF TypeOK, MainSteps, WorkerSteps
<1>4. \A t \in Threads : pc[t] \in Outside
  BY <1>1 DEF ShutdownOrder, Outside, Threads, TypeOK
<1>5. (\A u \in Threads : Owned(u)') /\ OneOwner'
  BY <1>1, <1>4, OwnersKept DEF SlotsKept, TypeOK, Outside
<1>6. ShutdownOrder'
  BY <1>1, <1>2 DEF ShutdownOrder, BeforeStop, AfterJoin, LeavingSteps
<1>7. TasksKept'
  BY <1>1, <1>2, <1>4, TasksUntouched DEF Outside
<1>8. AllReleased'
  BY <1>1, <1>2 DEF AllReleased
<1>9. QED
  BY <1>3, <1>5, <1>6, <1>7, <1>8

\* ThreadPool::enqueue puts a task into the queue.
LEMMA EnqueueStep ==
  ASSUME LifecycleInv, NEW k \in Tasks, Enqueue(k)
  PROVE  LifecycleInv'
<1> USE DEF LifecycleInv
<1>1. /\ pc[Main] = "run" /\ tasks' = Append(tasks, k)
      /\ garbage' = [garbage EXCEPT ![k] = "queued"]
      /\ notify' = TRUE
      /\ UNCHANGED <<slots, state, cursor, active_threads, running, stop, task, freed, pc>>
  BY DEF Enqueue, regVars
<1>2. /\ tasks' \in Seq(Tasks) /\ Len(tasks) \in Nat /\ Len(tasks') = Len(tasks) + 1
      /\ tasks'[Len(tasks) + 1] = k
      /\ \A i \in 1 .. Len(tasks) : tasks'[i] = tasks[i]
  BY <1>1, AppendProperties, LenProperties DEF TypeOK
<1>3. TypeOK'
  BY <1>1, <1>2 DEF TypeOK
<1>4. (\A u \in Threads : Owned(u)') /\ OneOwner'
  BY <1>1, OwnersKept DEF SlotsKept, TypeOK
<1>5. ShutdownOrder'
  BY <1>1 DEF ShutdownOrder, BeforeStop, AfterJoin
<1>6. TasksKept'
  <2>1. ASSUME NEW j \in Tasks, garbage'[j] = "queued" PROVE Pending(j)'
    <3>1. CASE j = k
      BY <1>2, <3>1 DEF Pending
    <3>2. CASE j # k
      <4>1. Pending(j)
        BY <1>1, <2>1, <3>2 DEF TypeOK, TasksKept
      <4>2. QED
        BY <1>1, <1>2, <4>1 DEF Pending
    <3>3. QED
      BY <3>1, <3>2
  <2>2. QED
    BY <1>1, <2>1 DEF TasksKept
<1>7. AllReleased'
  BY <1>1 DEF AllReleased
<1>8. QED
  BY <1>3, <1>4, <1>5, <1>6, <1>7

\* A sleeping worker is woken by notify_one, all of them by the destructor.
LEMMA WakeStep ==
  ASSUME LifecycleInv, NotifyOne \/ StopPool
  PROVE  LifecycleInv'
<1> USE DEF LifecycleInv
<1>1. /\ Main \in Threads /\ Main \notin Workers /\ Main # Reclaimer
      /\ Reclaimer \in Threads /\ Reclaimer \notin Workers /\ Workers \subseteq Threads
  BY ThreadsAssumption DEF Threads
<1>2. /\ UNCHANGED <<slots, state, cursor, active_threads, running, tasks, task, garbage,
                     freed>>
      /\ notify' \in BOOLEAN
  BY DEF NotifyOne, StopPool, regVars, TypeOK
<1>3. /\ pc' \in [Threads -> MainSteps \cup WorkerSteps]
      /\ \A w \in Workers : pc'[w] = pc[w] \/ (pc[w] = "asleep" /\ pc'[w] = "check")
      /\ pc'[Reclaimer] = pc[Reclaimer]
      /\ \/ pc'[Main] = pc[Main] /\ stop' = stop
         \/ pc[Main] = "run" /\ pc'[Main] = "join" /\ stop' = TRUE
  <2>1. CASE NotifyOne
    BY <1>1, <2>1 DEF NotifyOne, Goto, TypeOK, WorkerSteps
  <2>2. CASE StopPool
    <3>1. /\ pc[Main] = "run" /\ stop' = TRUE
          /\ pc' = [t \in Threads |-> CASE t = Main -> "join"
                                        [] t \in Workers /\ pc[t] = "asleep" -> "check"
                                        [] OTHER -> pc[t]]
      BY <2>2 DEF StopPool
    <3>2. pc'[Main] = "join" /\ pc'[Reclaimer] = pc[Reclaimer]
      BY <1>1, <3>1
    <3>3. \A w \in Workers : pc'[w] = IF pc[w] = "asleep" THEN "check" ELSE pc[w]
      BY <1>1, <3>1
    <3>4. pc' \in [Threads -> MainSteps \cup WorkerSteps]
      BY <1>1, <3>1, <3>2, <3>3 DEF TypeOK, MainSteps, WorkerSteps, Threads
    <3>5. QED
      BY <3>1, <3>2, <3>3, <3>4
  <2>3. QED
    BY <2>1, <2>2
<1>4. TypeOK'
  BY <1>1, <1>2, <1>3 DEF TypeOK, MainSteps, WorkerSteps, Threads
<1>5. (\A u \in Threads : Owned(u)') /\ OneOwner'
  BY <1>1, <1>2, <1>3, OwnersKept DEF SlotsKept, TypeOK, Outside, Threads
<1>6. ShutdownOrder'
  <2>1. pc'[Main] = "pools" => \A t \in Threads \ {Main} : pc'[t] = "new"
    BY <1>1, <1>3 DEF ShutdownOrder, Threads
  <2>2. stop' => pc'[Main] \notin BeforeStop
    BY <1>3 DEF ShutdownOrder, BeforeStop
  <2>3. \A w \in Workers : pc'[w] \in LeavingSteps => stop' /\ tasks' = <<>>
    BY <1>2, <1>3 DEF ShutdownOrder, LeavingSteps
  <2>4. pc'[Main] \in AfterJoin => \A w \in Workers : pc'[w] = "exited"
    BY <1>3 DEF ShutdownOrder, AfterJoin, MainSteps
  <2>5. /\ pc'[Main] \in {"free", "ended"} => pc'[Reclaimer] = "exited"
        /\ freed' => pc'[Main] = "ended"
    BY <1>2, <1>3 DEF ShutdownOrder
  <2>6. QED
    BY <2>1, <2>2, <2>3, <2>4, <2>5 DEF ShutdownOrder
<1>7. TasksKept'
  BY <1>1, <1>2, <1>3, TasksUntouched
<1>8. AllReleased'
  BY <1>2, <1>3 DEF AllReleased
<1>9. QED
  BY <1>4, <1>5, <1>6, <1>7, <1>8

\* Ebr_shutdown wakes the reclaimer.
LEMMA BroadcastStep ==
  ASSUME LifecycleInv, ShutdownBroadcast
  PROVE  LifecycleInv'
<1> USE DEF LifecycleInv
<1>1. /\ Main \in Threads /\ Main \notin Workers /\ Main # Reclaimer
      /\ Reclaimer \in Threads /\ Reclaimer \notin Workers /\ Workers \subseteq Threads
  BY ThreadsAssumption DEF Threads
<1>2. UNCHANGED <<slots, state, cursor, active_threads, running, stop, tasks, task,
                  notify, garbage, freed>>
  BY DEF ShutdownBroadcast, regVars, poolVars
<1>3. /\ pc[Main] = "broadcast" /\ pc'[Main] = "join_reclaimer"
      /\ \/ pc'[Reclaimer] = pc[Reclaimer]
         \/ pc[Reclaimer] = "asleep" /\ pc'[Reclaimer] = "sync"
      /\ \A w \in Workers : pc'[w] = pc[w]
      /\ pc' \in [Threads -> MainSteps \cup WorkerSteps]
  BY <1>1 DEF ShutdownBroadcast, Wake, TypeOK, MainSteps, WorkerSteps
<1>4. TypeOK'
  BY <1>1, <1>2, <1>3 DEF TypeOK, MainSteps, WorkerSteps, Threads
<1>5. (\A u \in Threads : Owned(u)') /\ OneOwner'
  BY <1>1, <1>2, <1>3, OwnersKept DEF SlotsKept, TypeOK, Outside, Threads
<1>6. ShutdownOrder'
  BY <1>1, <1>2, <1>3 DEF ShutdownOrder, BeforeStop, AfterJoin, MainSteps
<1>7. TasksKept'
  BY <1>1, <1>2, <1>3, TasksUntouched
<1>8. AllReleased'
  BY <1>3 DEF AllReleased
<1>9. QED
  BY <1>4, <1>5, <1>6, <1>7, <1>8

\* Ebr_shutdown releases what is pending: the workers have left an empty queue,
\* so every task has run.
LEMMA FreeStep ==
  ASSUME LifecycleInv, ShutdownFree
  PROVE  LifecycleInv'
<1> USE DEF LifecycleInv
<1>1. /\ pc[Main] = "free" /\ pc' = [pc EXCEPT ![Main] = "ended"]
      /\ garbage' = [k \in Tasks |-> IF garbage[k] \in {"0", "1"} THEN "released"
                                     ELSE garbage[k]]
      /\ freed' = TRUE
      /\ UNCHANGED <<slots, state, cursor, active_threads, running, stop, tasks, task,
                     notify>>
  BY DEF ShutdownFree, Goto, regVars, poolVars
<1>2. /\ Main \in Threads /\ Main \notin Workers /\ Main # Reclaimer
      /\ Reclaimer \in Threads /\ Workers \subseteq Threads
      /\ pc'[Main] = "ended" /\ \A u \in Threads \ {Main} : pc'[u] = pc[u]
  BY <1>1, ThreadsAssumption DEF TypeOK, Threads
<1>3. /\ \A w \in Workers : pc[w] = "exited"
      /\ pc[Reclaimer] = "exited" /\ tasks = <<>>
  BY <1>1, WorkersAssumption
     DEF ShutdownOrder, AfterJoin, BeforeStop, MainSteps, LeavingSteps
<1>4. TypeOK'
  BY <1>1, <1>2 DEF TypeOK, MainSteps
<1>5. (\A u \in Threads : Owned(u)') /\ OneOwner'
  BY <1>1, <1>2, OwnersKept DEF SlotsKept, TypeOK, Outside
<1>6. ShutdownOrder'
  BY <1>1, <1>2, <1>3 DEF ShutdownOrder, BeforeStop, LeavingSteps
<1>7. TasksKept'
  BY <1>1, <1>2, TasksUntouched DEF TypeOK
<1>8. AllReleased'
  <2>1. ASSUME NEW k \in Tasks, garbage[k] = "queued" PROVE FALSE
    BY <1>3, <2>1, EmptySeq DEF TasksKept, Pending
  <2>2. QED
    BY <1>1, <2>1 DEF TypeOK, AllReleased
<1>9. QED
  BY <1>4, <1>5, <1>6, <1>7, <1>8

-----------------------------------------------------------------------------
\* The inductive invariant of the threads.
THEOREM LifecycleInvariant == Spec => []LifecycleInv
<1>1. Init => LifecycleInv
  <2> SUFFICES ASSUME Init PROVE LifecycleInv
    OBVIOUS
  <2>1. Main \in Threads /\ Reclaimer \in Threads /\ Workers \subseteq Threads
    BY DEF Threads
  <2>2. TypeOK
    <3>1. slots \in Seq(Slot) /\ tasks \in Seq(Tasks) /\ Len(slots) = 0
      BY EmptySeq DEF Init
    <3>2. state \in [Threads -> 0 .. Len(slots)] /\ cursor \in [Threads -> 0 .. Len(slots)]
      BY <3>1 DEF Init
    <3>3. task \in [Workers -> SUBSET Tasks]
      BY DEF Init
    <3>4. garbage \in [Tasks -> {"none", "queued", "0", "1", "released"}]
      BY DEF Init
    <3>5. /\ pc \in [Threads -> MainSteps \cup WorkerSteps]
          /\ pc[Main] \in MainSteps
          /\ \A t \in Threads \ {Main} : pc[t] \in WorkerSteps
      BY <2>1 DEF Init, MainSteps, WorkerSteps
    <3>6. active_threads \in Int
      BY DEF Init
    <3>7. running \in BOOLEAN /\ stop \in BOOLEAN /\ notify \in BOOLEAN /\ freed \in BOOLEAN
      BY DEF Init
    <3>8. QED
      BY <3>1, <3>2, <3>3, <3>4, <3>5, <3>6, <3>7 DEF TypeOK
  <2>3. (\A t \in Threads : Owned(t)) /\ OneOwner
    BY DEF Init, Owned, OneOwner, Outside
  <2>4. ShutdownOrder /\ TasksKept /\ AllReleased
    BY <2>1, ThreadsAssumption
       DEF Init, ShutdownOrder, TasksKept, AllReleased, BeforeStop, AfterJoin,
           LeavingSteps
  <2>5. QED
    BY <2>2, <2>3, <2>4 DEF LifecycleInv
<1>2. LifecycleInv /\ [Next]_vars => LifecycleInv'
  <2>1. ASSUME LifecycleInv, Next PROVE LifecycleInv'
    <3>1. ASSUME MainStep \/ MainFlush PROVE LifecycleInv'
      BY <2>1, <3>1, RegistrationStep, StartPoolsStep, MainCriticalStep, WakeStep,
         MainWaitStep, ForceSyncStep, BroadcastStep, FreeStep, EnqueueStep
         DEF MainStep, Threads
    <3>2. ASSUME ReclaimerStep PROVE LifecycleInv'
      BY <2>1, <3>2, RegistrationStep, ReclaimerKeeps DEF ReclaimerStep, Threads
    <3>3. ASSUME NEW w \in Workers, WorkerStep(w) PROVE LifecycleInv'
      BY <2>1, <3>3, RegistrationStep, WorkerCheckStep, WorkerCriticalStep,
         WorkerTaskStep DEF WorkerStep, Threads
    <3>4. ASSUME Ended PROVE LifecycleInv'
      BY <2>1, <3>4 DEF Ended, vars, LifecycleInv, TypeOK, Owned, OneOwner,
         ShutdownOrder, TasksKept, Pending, AllReleased
    <3>5. QED
      BY <2>1, <3>1, <3>2, <3>3, <3>4 DEF Next
  <2>2. ASSUME LifecycleInv, UNCHANGED vars PROVE LifecycleInv'
    BY <2>2 DEF vars, LifecycleInv, TypeOK, Owned, OneOwner, ShutdownOrder,
       TasksKept, Pending, AllReleased
  <2>3. QED
    BY <2>1, <2>2
<1>3. QED
  BY <1>1, <1>2, PTL DEF Spec

\* Ebr_register_thread gives a ThreadState to one thread at a time.
THEOREM OneOwnerTheorem == Spec => []OneOwner
<1>1. LifecycleInv => OneOwner
  BY DEF LifecycleInv
<1>2. QED
  BY <1>1, LifecycleInvariant, PTL

\* Ebr_shutdown frees no ThreadState that a thread still uses.
THEOREM NoUseAfterFreeTheorem == Spec => []NoUseAfterFree
<1>1. LifecycleInv => NoUseAfterFree
  <2> SUFFICES ASSUME LifecycleInv, freed, NEW t \in Threads PROVE state[t] = 0
    BY DEF NoUseAfterFree
  <2>1. pc[t] \in Outside
    BY DEF LifecycleInv, ShutdownOrder, AfterJoin, BeforeStop, MainSteps, Outside,
           Threads
  <2>2. QED
    BY <2>1 DEF LifecycleInv, Owned
<1>2. QED
  BY <1>1, LifecycleInvariant, PTL

\* When Ebr_shutdown has ended, every task has run and what it retired has been
\* released.
THEOREM AllReleasedTheorem == Spec => []AllReleased
<1>1. LifecycleInv => AllReleased
  BY DEF LifecycleInv
<1>2. QED
  BY <1>1, LifecycleInvariant, PTL
=============================================================================
