-------------------------------- MODULE Ebr --------------------------------
(***************************************************************************)
(* Epoch-based reclamation, backend/runtime/Ebr.c: critical sections,      *)
(* autorelease and Ebr_synchronize_and_reclaim.                            *)
(*                                                                         *)
(* A step is one access to shared memory.  Loads take effect in program    *)
(* order.  The plain stores of a thread to its ThreadState (active and     *)
(* local_epoch) go through a first-in first-out store buffer that memory   *)
(* receives later: that is what the asymmetric barrier of                  *)
(* issue_global_barrier is there for.  Every buffered element is the whole *)
(* pair [active, epoch] as the thread wrote it.                            *)
(***************************************************************************)
EXTENDS Integers, Sequences

CONSTANTS
  Threads,          \* registered threads, the reclaimer among them
  Objects,          \* objects that a shared location may hold
  NoThread,         \* the synchronization mutex is free
  NoObject,         \* the thread retires nothing at the moment
  MaxEpoch,         \* bound: no synchronization starts at this epoch
  StoreBufferSize   \* bound: stores a processor keeps back

ASSUME NoThreadAssumption == NoThread \notin Threads
ASSUME NoObjectAssumption == NoObject \notin Objects
ASSUME MaxEpochAssumption == MaxEpoch \in Nat
ASSUME StoreBufferAssumption == StoreBufferSize \in Nat \ {0}

VARIABLES
  global_epoch,
  mem,            \* mem[t]: t's [active, epoch] as other threads read it
  view,           \* view[t]: t's [active, epoch] in its program order
  stores,         \* stores[t]: values on their way from view to mem
  pc,             \* pc[t]: where t is inside the Ebr functions
  current,        \* current[t]: the epoch t loaded last
  entered,        \* history: the global epoch when t wrote its local epoch
  borrowed,       \* borrowed[t]: objects t loaded since then
  hand,           \* hand[t]: the object t is passing to autorelease
  where,          \* where[o]: the place that holds o
  epoch_retired,  \* epoch_retired[o]: the field of o's RetiredObject
  holder,         \* owner of synchronization_mutex
  step,           \* where the holder is in Ebr_synchronize_and_reclaim
  current_global, \* its local variable
  can_advance,    \* its local variable
  todo,           \* threads its barrier or its scan has still to visit
  suspect         \* the thread whose local_epoch it reads next

vars == <<global_epoch, mem, view, stores, pc, current, entered, borrowed,
          hand, where, epoch_retired, holder, step, current_global,
          can_advance, todo, suspect>>

threadVars == <<view, stores, pc, current, entered, borrowed, hand>>
objectVars == <<where, epoch_retired>>
syncVars   == <<holder, step, current_global, can_advance, todo, suspect>>

Slot   == [active : BOOLEAN, epoch : Nat]
Places == {"fresh", "linked", "unlinked", "dated", "pending", "stolen",
           "kept", "reclaimed"}

TypeOK ==
  /\ global_epoch \in Nat
  /\ mem \in [Threads -> Slot]
  /\ view \in [Threads -> Slot]
  /\ stores \in [Threads -> Seq(Slot)]
  /\ pc \in [Threads -> {"run", "enter_active", "enter_epoch", "flush_store",
                         "sync"}]
  /\ current \in [Threads -> Nat]
  /\ entered \in [Threads -> Nat]
  /\ borrowed \in [Threads -> SUBSET Objects]
  /\ hand \in [Threads -> Objects \cup {NoObject}]
  /\ where \in [Objects -> Places]
  /\ epoch_retired \in [Objects -> Nat]
  /\ holder \in Threads \cup {NoThread}
  /\ step \in {"idle", "barrier", "scan", "check", "steal", "walk"}
  /\ current_global \in Nat
  /\ can_advance \in BOOLEAN
  /\ todo \in SUBSET Threads
  /\ suspect \in Threads \cup {NoThread}

Init ==
  /\ global_epoch = 0
  /\ mem = [t \in Threads |-> [active |-> FALSE, epoch |-> 0]]
  /\ view = [t \in Threads |-> [active |-> FALSE, epoch |-> 0]]
  /\ stores = [t \in Threads |-> <<>>]
  /\ pc = [t \in Threads |-> "run"]
  /\ current = [t \in Threads |-> 0]
  /\ entered = [t \in Threads |-> 0]
  /\ borrowed = [t \in Threads |-> {}]
  /\ hand = [t \in Threads |-> NoObject]
  /\ where = [o \in Objects |-> "fresh"]
  /\ epoch_retired = [o \in Objects |-> 0]
  /\ holder = NoThread
  /\ step = "idle"
  /\ current_global = 0
  /\ can_advance = FALSE
  /\ todo = {}
  /\ suspect = NoThread

-----------------------------------------------------------------------------
\* A thread that is in no Ebr function.
Free(t) == pc[t] = "run" /\ hand[t] = NoObject

\* Moves of a thread through the Ebr functions.
Goto(t, from, to) == pc[t] = from /\ pc' = [pc EXCEPT ![t] = to]

\* t writes v to its own ThreadState; other threads see it later.
Store(t, v) ==
  /\ Len(stores[t]) < StoreBufferSize
  /\ view' = [view EXCEPT ![t] = v]
  /\ stores' = [stores EXCEPT ![t] = Append(@, v)]

\* t is between Ebr_enter_critical and Ebr_leave_critical.
InCritical(t) == view[t].active /\ pc[t] \notin {"enter_active", "enter_epoch"}

\* The oldest store kept back by t's processor reaches memory.
Drain(t) ==
  /\ stores[t] # <<>>
  /\ mem' = [mem EXCEPT ![t] = Head(stores[t])]
  /\ stores' = [stores EXCEPT ![t] = Tail(@)]
  /\ UNCHANGED <<global_epoch, view, pc, current, entered, borrowed, hand,
                 objectVars, syncVars>>

-----------------------------------------------------------------------------
\* Ebr_enter_critical: load the epoch, store active, store local_epoch.
EnterLoad(t) ==
  /\ Free(t)
  /\ Goto(t, "run", "enter_active")
  /\ ~view[t].active
  /\ current' = [current EXCEPT ![t] = global_epoch]
  /\ UNCHANGED <<global_epoch, mem, view, stores, entered, borrowed, hand,
                 objectVars, syncVars>>

EnterActive(t) ==
  /\ Goto(t, "enter_active", "enter_epoch")
  /\ Store(t, [active |-> TRUE, epoch |-> view[t].epoch])
  /\ UNCHANGED <<global_epoch, mem, current, entered, borrowed, hand,
                 objectVars, syncVars>>

EnterEpoch(t) ==
  /\ Goto(t, "enter_epoch", "run")
  /\ Store(t, [active |-> view[t].active, epoch |-> current[t]])
  /\ entered' = [entered EXCEPT ![t] = global_epoch]
  /\ UNCHANGED <<global_epoch, mem, current, borrowed, hand, objectVars,
                 syncVars>>

\* Ebr_flush_critical: load the epoch, store local_epoch with release order,
\* after which t no longer uses what it loaded before.
FlushLoad(t) ==
  /\ Free(t)
  /\ Goto(t, "run", "flush_store")
  /\ current' = [current EXCEPT ![t] = global_epoch]
  /\ UNCHANGED <<global_epoch, mem, view, stores, entered, borrowed, hand,
                 objectVars, syncVars>>

FlushStore(t) ==
  /\ Goto(t, "flush_store", "run")
  /\ Store(t, [active |-> view[t].active, epoch |-> current[t]])
  /\ entered' = [entered EXCEPT ![t] = global_epoch]
  /\ borrowed' = [borrowed EXCEPT ![t] = {}]
  /\ UNCHANGED <<global_epoch, mem, current, hand, objectVars, syncVars>>

\* Ebr_leave_critical.
Leave(t) ==
  /\ Free(t)
  /\ view[t].active
  /\ Store(t, [active |-> FALSE, epoch |-> view[t].epoch])
  /\ borrowed' = [borrowed EXCEPT ![t] = {}]
  /\ UNCHANGED <<global_epoch, mem, pc, current, entered, hand, objectVars,
                 syncVars>>

-----------------------------------------------------------------------------
\* The users of Ebr: a location such as Var.root is written by an atomic
\* exchange and read, without retaining the value, inside a critical section.
Publish(t, o) ==
  /\ Free(t)
  /\ where[o] = "fresh"
  /\ where' = [where EXCEPT ![o] = "linked"]
  /\ UNCHANGED <<global_epoch, mem, threadVars, epoch_retired, syncVars>>

Borrow(t, o) ==
  /\ Free(t)
  /\ InCritical(t)
  /\ where[o] = "linked"
  /\ borrowed' = [borrowed EXCEPT ![t] = @ \cup {o}]
  /\ UNCHANGED <<global_epoch, mem, view, stores, pc, current, entered, hand,
                 objectVars, syncVars>>

\* Also done by a release() of the walk below, whose destructors (Var_destroy,
\* Namespace_destroy) autorelease what the dead object referred to.
Unlink(t, o) ==
  /\ Free(t) \/ (holder = t /\ step = "walk" /\ hand[t] = NoObject)
  /\ where[o] = "linked"
  /\ where' = [where EXCEPT ![o] = "unlinked"]
  /\ hand' = [hand EXCEPT ![t] = o]
  /\ UNCHANGED <<global_epoch, mem, view, stores, pc, current, entered,
                 borrowed, epoch_retired, syncVars>>

\* autorelease: date the object, then push it on pending_reclamation.  The
\* push is a compare-and-swap loop; a failed round changes nothing.
AutoreleaseLoad(t) ==
  /\ hand[t] # NoObject
  /\ where[hand[t]] = "unlinked"
  /\ where' = [where EXCEPT ![hand[t]] = "dated"]
  /\ epoch_retired' = [epoch_retired EXCEPT ![hand[t]] = global_epoch]
  /\ UNCHANGED <<global_epoch, mem, threadVars, syncVars>>

AutoreleasePush(t) ==
  /\ hand[t] # NoObject
  /\ where[hand[t]] = "dated"
  /\ where' = [where EXCEPT ![hand[t]] = "pending"]
  /\ hand' = [hand EXCEPT ![t] = NoObject]
  /\ UNCHANGED <<global_epoch, mem, view, stores, pc, current, entered,
                 borrowed, epoch_retired, syncVars>>

-----------------------------------------------------------------------------
\* Ebr_synchronize_and_reclaim, run by the reclaimer, by Ebr_force_reclaim or
\* by a test.  Only the owner of the mutex writes global_epoch, so the lock
\* and the load that follows it are one step.
SyncLock(t) ==
  /\ Free(t)
  /\ Goto(t, "run", "sync")
  /\ holder = NoThread
  /\ global_epoch < MaxEpoch
  /\ holder' = t
  /\ step' = "barrier"
  /\ current_global' = global_epoch
  /\ can_advance' = TRUE
  /\ todo' = Threads
  /\ UNCHANGED <<global_epoch, mem, view, stores, current, entered, borrowed,
                 hand, objectVars, suspect>>

\* Mutant: no barrier is issued on u's processor.
SyncBarrierMissing(u) ==
  /\ step = "barrier"
  /\ u \in todo
  /\ todo' = todo \ {u}
  /\ UNCHANGED <<global_epoch, mem, threadVars, objectVars, holder, step,
                 current_global, can_advance, suspect>>

\* issue_global_barrier makes every thread pass a full barrier, each at a
\* moment of its own before the call returns.
SyncBarrier(u) ==
  /\ step = "barrier"
  /\ u \in todo
  /\ mem' = [mem EXCEPT ![u] = view[u]]
  /\ stores' = [stores EXCEPT ![u] = <<>>]
  /\ todo' = todo \ {u}
  /\ UNCHANGED <<global_epoch, view, pc, current, entered, borrowed, hand,
                 objectVars, holder, step, current_global, can_advance,
                 suspect>>

SyncBarrierDone ==
  /\ step = "barrier"
  /\ todo = {}
  /\ step' = "scan"
  /\ todo' = Threads
  /\ UNCHANGED <<global_epoch, mem, threadVars, objectVars, holder,
                 current_global, can_advance, suspect>>

\* The scan reads active and, when it is set, local_epoch in a second load.
SyncScanActive(u) ==
  /\ step = "scan"
  /\ u \in todo
  /\ IF mem[u].active
     THEN step' = "check" /\ suspect' = u /\ UNCHANGED todo
     ELSE todo' = todo \ {u} /\ UNCHANGED <<step, suspect>>
  /\ UNCHANGED <<global_epoch, mem, threadVars, objectVars, holder,
                 current_global, can_advance>>

\* Mutant: the scan stops at a lagging thread but advances all the same.
SyncScanEpochForgetful ==
  /\ step = "check"
  /\ step' = "scan"
  /\ todo' = IF mem[suspect].epoch # current_global THEN {} ELSE todo \ {suspect}
  /\ suspect' = NoThread
  /\ UNCHANGED <<global_epoch, mem, threadVars, objectVars, holder,
                 current_global, can_advance>>

SyncScanEpoch ==
  /\ step = "check"
  /\ step' = "scan"
  /\ IF mem[suspect].epoch # current_global
     THEN can_advance' = FALSE /\ todo' = {}
     ELSE todo' = todo \ {suspect} /\ UNCHANGED can_advance
  /\ suspect' = NoThread
  /\ UNCHANGED <<global_epoch, mem, threadVars, objectVars, holder,
                 current_global>>

SyncAdvance ==
  /\ step = "scan"
  /\ todo = {}
  /\ step' = "steal"
  /\ IF can_advance
     THEN /\ global_epoch' = global_epoch + 1
          /\ current_global' = current_global + 1
     ELSE UNCHANGED <<global_epoch, current_global>>
  /\ UNCHANGED <<mem, threadVars, objectVars, holder, can_advance, todo,
                 suspect>>

\* pending_reclamation is exchanged with NULL.
SyncSteal ==
  /\ step = "steal"
  /\ step' = "walk"
  /\ where' = [o \in Objects |->
                 IF where[o] = "pending" THEN "stolen" ELSE where[o]]
  /\ UNCHANGED <<global_epoch, mem, threadVars, epoch_retired, holder,
                 current_global, can_advance, todo, suspect>>

\* Mutant: one epoch is taken for a grace period.
OldEnoughOneEpoch(o) == current_global - epoch_retired[o] >= 1

\* The object is old enough to be released, or goes on the list to keep.
OldEnough(o) == current_global - epoch_retired[o] >= 2

SyncWalk(o) ==
  /\ step = "walk"
  /\ hand[holder] = NoObject
  /\ where[o] = "stolen"
  /\ where' = [where EXCEPT ![o] = IF OldEnough(o) THEN "reclaimed" ELSE "kept"]
  /\ UNCHANGED <<global_epoch, mem, threadVars, epoch_retired, syncVars>>

\* Mutant: the list to keep is not pushed back.
SyncUnlockDrop ==
  /\ step = "walk"
  /\ hand[holder] = NoObject
  /\ \A o \in Objects : where[o] # "stolen"
  /\ holder' = NoThread
  /\ step' = "idle"
  /\ pc' = [pc EXCEPT ![holder] = "run"]
  /\ UNCHANGED <<global_epoch, mem, view, stores, current, entered, borrowed,
                 hand, objectVars, current_global, can_advance, todo, suspect>>

\* What is kept goes back to pending_reclamation and the mutex is unlocked.
SyncUnlock ==
  /\ step = "walk"
  /\ hand[holder] = NoObject
  /\ \A o \in Objects : where[o] # "stolen"
  /\ where' = [o \in Objects |->
                 IF where[o] = "kept" THEN "pending" ELSE where[o]]
  /\ holder' = NoThread
  /\ step' = "idle"
  /\ pc' = [pc EXCEPT ![holder] = "run"]
  /\ UNCHANGED <<global_epoch, mem, view, stores, current, entered, borrowed,
                 hand, epoch_retired, current_global, can_advance, todo,
                 suspect>>

-----------------------------------------------------------------------------
CriticalStep(t) ==
  \/ EnterLoad(t) \/ EnterActive(t) \/ EnterEpoch(t)
  \/ FlushLoad(t) \/ FlushStore(t)
  \/ Leave(t)
  \/ Drain(t)

UserStep(t) ==
  \/ \E o \in Objects : Publish(t, o) \/ Borrow(t, o) \/ Unlink(t, o)
  \/ AutoreleaseLoad(t)
  \/ AutoreleasePush(t)

SyncStep ==
  \/ \E t \in Threads : SyncLock(t) \/ SyncBarrier(t) \/ SyncScanActive(t)
  \/ SyncBarrierDone \/ SyncScanEpoch \/ SyncAdvance
  \/ SyncSteal \/ (\E o \in Objects : SyncWalk(o)) \/ SyncUnlock

Next ==
  \/ \E t \in Threads : CriticalStep(t) \/ UserStep(t)
  \/ SyncStep

Spec == Init /\ [][Next]_vars

-----------------------------------------------------------------------------
\* Safety.  An object that a thread loaded from a shared location inside its
\* critical section, and has not retained (Var_peek), is not handed to
\* release() by Ebr_synchronize_and_reclaim before the thread flushes or
\* leaves.
NoUseAfterReclaim ==
  \A t \in Threads : \A o \in borrowed[t] : where[o] # "reclaimed"

\* The reason: the epoch advances at most once past the epoch that was current
\* when a thread of a critical section wrote its local_epoch, even when that
\* store was still in its store buffer or was made from a stale load.
EpochLag ==
  \A t \in Threads : InCritical(t) => global_epoch <= entered[t] + 1

\* The implementation of the grace period promise.
Life(o) == CASE where[o] = "fresh" -> "private"
             [] where[o] = "linked" -> "shared"
             [] where[o] = "reclaimed" -> "reclaimed"
             [] OTHER -> "retired"

GP == INSTANCE GracePeriod WITH life <- [o \in Objects |-> Life(o)]

\* Every step of the epoch machinery is invisible to its users or is a step
\* of GracePeriod; a reclamation happens only when nobody borrows the object.
GracePeriodHolds == GP!GPSpec

-----------------------------------------------------------------------------
\* The inductive invariant, in named parts.

\* No epoch a thread holds is ahead of the global one.
EpochsBehind ==
  \A t \in Threads :
    /\ current[t] <= global_epoch
    /\ entered[t] <= global_epoch
    /\ InCritical(t) => view[t].epoch <= entered[t]

\* Memory lags behind a thread's view by exactly its buffered stores.
BufferEndsInView ==
  \A t \in Threads :
    view[t] = IF stores[t] = <<>> THEN mem[t] ELSE stores[t][Len(stores[t])]

\* The synchronizing thread owns the mutex, and only it moves the epoch.
SyncOwnsEpoch ==
  /\ \A t \in Threads : holder = t => pc[t] = "sync"
  /\ step # "idle" => current_global = global_epoch
  /\ step = "check" => suspect \in Threads

\* u has passed the barrier of the synchronization that is under way.
Fenced(u) == step \in {"scan", "check"} \/ (step = "barrier" /\ u \notin todo)

\* After its barrier, an older critical section is visible in memory.
OldSectionsVisible ==
  \A t \in Threads :
    Fenced(t) /\ InCritical(t) /\ entered[t] < global_epoch
      => stores[t] = <<>>

\* A thread that the scan let pass is in no older critical section.
ScannedAreCurrent ==
  \A t \in Threads :
    step \in {"scan", "check"} /\ can_advance /\ t \notin todo /\ InCritical(t)
      => entered[t] = global_epoch

\* What a thread borrows was loaded in its critical section, and if retired,
\* then in an epoch no earlier than the one the section began in.
BorrowedAreYoung ==
  \A t \in Threads :
    /\ borrowed[t] # {} => InCritical(t)
    /\ \A o \in borrowed[t] :
         /\ where[o] \notin {"fresh", "reclaimed"}
         /\ where[o] \in {"dated", "pending", "stolen", "kept"}
              => entered[t] <= epoch_retired[o]

\* The invariant every Ebr step preserves: the barrier of a synchronization,
\* its scan and the dates of retired objects together bound the epoch's lead.
IndInv ==
  /\ TypeOK
  /\ EpochsBehind
  /\ BufferEndsInView
  /\ SyncOwnsEpoch
  /\ OldSectionsVisible
  /\ ScannedAreCurrent
  /\ EpochLag
  /\ BorrowedAreYoung

-----------------------------------------------------------------------------
\* Fairness: a function that is entered is executed to its end, hardware
\* drains store buffers, generated code flushes at every function end and loop
\* backedge, and a synchronization is asked for again and again.
Fairness ==
  /\ \A t \in Threads :
       /\ WF_vars(Drain(t))
       /\ WF_vars(\/ EnterActive(t) \/ EnterEpoch(t) \/ FlushStore(t)
                  \/ AutoreleaseLoad(t) \/ AutoreleasePush(t))
       /\ SF_vars(FlushLoad(t))
  /\ SF_vars(\E t \in Threads : SyncLock(t))
  /\ WF_vars(\/ \E u \in Threads : SyncBarrier(u) \/ SyncScanActive(u)
             \/ SyncBarrierDone \/ SyncScanEpoch \/ SyncAdvance
             \/ SyncSteal \/ (\E o \in Objects : SyncWalk(o)) \/ SyncUnlock)

FairSpec == Spec /\ Fairness

\* Liveness.  What autorelease pushed while two more epochs fit under the
\* bound is reclaimed in the end: no thread that keeps flushing can hold the
\* epoch back, however its critical sections overlap the scans.
Reclamation ==
  \A o \in Objects :
    (where[o] = "pending" /\ global_epoch + 2 <= MaxEpoch)
      ~> (where[o] = "reclaimed")
=============================================================================
