------------------------------ MODULE EbrProofs ------------------------------
(***************************************************************************)
(* Proofs about Ebr, for any set of threads and objects, any bound on the  *)
(* epoch and any store buffer size.                                        *)
(***************************************************************************)
EXTENDS Ebr, SequenceTheorems, TLAPS

\* A store goes to the end of its thread's buffer and of its thread's view.
LEMMA StoreLemma ==
  ASSUME TypeOK, NEW t \in Threads, NEW v \in Slot, Store(t, v)
  PROVE  /\ view' \in [Threads -> Slot]
         /\ stores' \in [Threads -> Seq(Slot)]
         /\ BufferEndsInView /\ UNCHANGED mem => BufferEndsInView'
<1>1. /\ Append(stores[t], v) \in Seq(Slot)
      /\ Append(stores[t], v) # <<>>
      /\ Append(stores[t], v)[Len(Append(stores[t], v))] = v
  <2>1. stores[t] \in Seq(Slot)
    BY DEF TypeOK
  <2>2. QED
    BY <2>1, AppendProperties
<1>2. stores' = [stores EXCEPT ![t] = Append(stores[t], v)]
  BY DEF Store
<1>3. view' = [view EXCEPT ![t] = v]
  BY DEF Store
<1>4. QED
  BY <1>1, <1>2, <1>3 DEF TypeOK, BufferEndsInView

\* Memory takes the oldest store; the newest is still the thread's view.
LEMMA DrainLemma ==
  ASSUME TypeOK, NEW t \in Threads, Drain(t)
  PROVE  /\ mem' \in [Threads -> Slot]
         /\ stores' \in [Threads -> Seq(Slot)]
         /\ BufferEndsInView => BufferEndsInView'
<1>1. /\ stores[t] \in Seq(Slot)
      /\ stores[t] # <<>>
  BY DEF TypeOK, Drain
<1>2. /\ Head(stores[t]) \in Slot
      /\ Tail(stores[t]) \in Seq(Slot)
      /\ Tail(stores[t]) = <<>> => Head(stores[t]) = stores[t][Len(stores[t])]
      /\ Tail(stores[t]) # <<>>
           => Tail(stores[t])[Len(Tail(stores[t]))] = stores[t][Len(stores[t])]
  <2> DEFINE s == stores[t]
  <2>1. /\ s \in Seq(Slot)
        /\ s # <<>>
    BY <1>1
  <2> HIDE DEF s
  <2>2. /\ Head(s) \in Slot
        /\ Tail(s) \in Seq(Slot)
        /\ Len(Tail(s)) = Len(s) - 1
        /\ \A i \in 1 .. Len(Tail(s)) : Tail(s)[i] = s[i + 1]
    BY <2>1, HeadTailProperties
  <2>3. Head(s) = s[1]
    BY <2>1
  <2>4. Tail(s) = <<>> => Len(s) = 1
    <3>1. Len(s) \in Nat
      BY <2>1, LenProperties
    <3>2. Tail(s) = <<>> => Len(Tail(s)) = 0
      BY <2>2, EmptySeq
    <3>3. QED
      BY <2>2, <3>1, <3>2
  <2>5. Tail(s) # <<>> => Len(Tail(s)) \in 1 .. Len(Tail(s))
    <3>1. Len(Tail(s)) \in Nat
      BY <2>2, LenProperties
    <3>2. Tail(s) # <<>> => Len(Tail(s)) # 0
      BY <2>2, EmptySeq
    <3>3. QED
      BY <3>1, <3>2
  <2>6. Tail(s) # <<>> => Tail(s)[Len(Tail(s))] = s[Len(s)]
    BY <2>1, <2>2, <2>5
  <2>7. QED
    BY <2>2, <2>3, <2>4, <2>6 DEF s
<1>3. QED
  BY <1>1, <1>2 DEF TypeOK, BufferEndsInView, Drain

\* Every Ebr operation keeps the variables in their types.
LEMMA TypeStep == TypeOK /\ [Next]_vars => TypeOK'
<1> SUFFICES ASSUME TypeOK, [Next]_vars PROVE TypeOK'
  OBVIOUS
<1> USE DEF TypeOK, Places, Goto, threadVars, objectVars, syncVars
<1>1. ASSUME NEW t \in Threads, EnterLoad(t) PROVE TypeOK'
  BY <1>1 DEF EnterLoad
<1>2. ASSUME NEW t \in Threads, EnterActive(t) PROVE TypeOK'
  <2>1. [active |-> TRUE, epoch |-> view[t].epoch] \in Slot
    BY DEF Slot
  <2>2. QED
    BY <1>2, <2>1, StoreLemma DEF EnterActive
<1>3. ASSUME NEW t \in Threads, EnterEpoch(t) PROVE TypeOK'
  <2>1. [active |-> view[t].active, epoch |-> current[t]] \in Slot
    BY DEF Slot
  <2>2. QED
    BY <1>3, <2>1, StoreLemma DEF EnterEpoch
<1>4. ASSUME NEW t \in Threads, FlushLoad(t) PROVE TypeOK'
  BY <1>4 DEF FlushLoad
<1>5. ASSUME NEW t \in Threads, FlushStore(t) PROVE TypeOK'
  <2>1. [active |-> view[t].active, epoch |-> current[t]] \in Slot
    BY DEF Slot
  <2>2. QED
    BY <1>5, <2>1, StoreLemma DEF FlushStore
<1>6. ASSUME NEW t \in Threads, Leave(t) PROVE TypeOK'
  <2>1. [active |-> FALSE, epoch |-> view[t].epoch] \in Slot
    BY DEF Slot
  <2>2. QED
    BY <1>6, <2>1, StoreLemma DEF Leave
<1>7. ASSUME NEW t \in Threads, Drain(t) PROVE TypeOK'
  BY <1>7, DrainLemma DEF Drain
<1>8. ASSUME NEW t \in Threads, NEW o \in Objects, Publish(t, o) PROVE TypeOK'
  BY <1>8 DEF Publish
<1>9. ASSUME NEW t \in Threads, NEW o \in Objects, Borrow(t, o) PROVE TypeOK'
  BY <1>9 DEF Borrow
<1>10. ASSUME NEW t \in Threads, NEW o \in Objects, Unlink(t, o) PROVE TypeOK'
  BY <1>10 DEF Unlink
<1>11. ASSUME NEW t \in Threads, AutoreleaseLoad(t) PROVE TypeOK'
  BY <1>11 DEF AutoreleaseLoad
<1>12. ASSUME NEW t \in Threads, AutoreleasePush(t) PROVE TypeOK'
  BY <1>12 DEF AutoreleasePush
<1>13. ASSUME NEW t \in Threads, SyncLock(t) PROVE TypeOK'
  BY <1>13 DEF SyncLock
<1>14. ASSUME NEW u \in Threads, SyncBarrier(u) PROVE TypeOK'
  BY <1>14, EmptySeq DEF SyncBarrier
<1>15. ASSUME SyncBarrierDone PROVE TypeOK'
  BY <1>15 DEF SyncBarrierDone
<1>16. ASSUME NEW u \in Threads, SyncScanActive(u) PROVE TypeOK'
  BY <1>16 DEF SyncScanActive
<1>17. ASSUME SyncScanEpoch PROVE TypeOK'
  BY <1>17 DEF SyncScanEpoch
<1>18. ASSUME SyncAdvance PROVE TypeOK'
  BY <1>18 DEF SyncAdvance
<1>19. ASSUME SyncSteal PROVE TypeOK'
  BY <1>19 DEF SyncSteal
<1>20. ASSUME NEW o \in Objects, SyncWalk(o) PROVE TypeOK'
  BY <1>20 DEF SyncWalk
<1>21. ASSUME SyncUnlock PROVE TypeOK'
  BY <1>21 DEF SyncUnlock
<1>22. CASE UNCHANGED vars
  BY <1>22 DEF vars
<1>23. QED
  BY <1>1, <1>2, <1>3, <1>4, <1>5, <1>6, <1>7, <1>8, <1>9, <1>10, <1>11,
     <1>12, <1>13, <1>14, <1>15, <1>16, <1>17, <1>18, <1>19, <1>20, <1>21,
     <1>22 DEF Next, CriticalStep, UserStep, SyncStep

\* Every Ebr operation keeps the inductive invariant.
LEMMA InvariantStep == IndInv /\ [Next]_vars => IndInv'
<1> SUFFICES ASSUME IndInv, [Next]_vars PROVE IndInv'
  OBVIOUS
<1>0. TypeOK'
  BY TypeStep DEF IndInv
<1> USE <1>0 DEF IndInv
<1>1. ASSUME NEW t \in Threads, EnterLoad(t) PROVE IndInv'
  <2>1. /\ EpochsBehind'
        /\ BufferEndsInView'
        /\ SyncOwnsEpoch'
        /\ OldSectionsVisible'
        /\ ScannedAreCurrent'
        /\ EpochLag'
        /\ BorrowedAreYoung'
    BY <1>1, SMTT(30) DEF EnterLoad, EpochsBehind, BufferEndsInView, SyncOwnsEpoch,
       OldSectionsVisible, ScannedAreCurrent, EpochLag, BorrowedAreYoung,
       Goto, objectVars, syncVars, TypeOK, InCritical, Fenced
  <2>2. QED
    BY <2>1
<1>2. ASSUME NEW t \in Threads, EnterActive(t) PROVE IndInv'
  <2>1. BufferEndsInView'
    <3>1. [active |-> TRUE, epoch |-> view[t].epoch] \in Slot
      BY DEF TypeOK, Slot
    <3>2. QED
      BY <1>2, <3>1, StoreLemma DEF EnterActive
  <2>2. /\ EpochsBehind'
        /\ SyncOwnsEpoch'
        /\ OldSectionsVisible'
        /\ ScannedAreCurrent'
        /\ EpochLag'
        /\ BorrowedAreYoung'
    BY <1>2 DEF EnterActive, EpochsBehind, SyncOwnsEpoch, OldSectionsVisible,
       ScannedAreCurrent, EpochLag, BorrowedAreYoung, Goto, Store, objectVars,
       syncVars, TypeOK, InCritical, Fenced
  <2>3. QED
    BY <2>1, <2>2
<1>3. ASSUME NEW t \in Threads, EnterEpoch(t) PROVE IndInv'
  <2>1. BufferEndsInView'
    <3>1. [active |-> view[t].active, epoch |-> current[t]] \in Slot
      BY DEF TypeOK, Slot
    <3>2. QED
      BY <1>3, <3>1, StoreLemma DEF EnterEpoch
  <2>2. /\ EpochsBehind'
        /\ SyncOwnsEpoch'
        /\ OldSectionsVisible'
        /\ ScannedAreCurrent'
        /\ EpochLag'
        /\ BorrowedAreYoung'
    BY <1>3, SMTT(30) DEF EnterEpoch, EpochsBehind, SyncOwnsEpoch, OldSectionsVisible,
       ScannedAreCurrent, EpochLag, BorrowedAreYoung, Goto, Store, objectVars,
       syncVars, TypeOK, InCritical, Fenced
  <2>3. QED
    BY <2>1, <2>2
<1>4. ASSUME NEW t \in Threads, FlushLoad(t) PROVE IndInv'
  <2>1. /\ EpochsBehind'
        /\ BufferEndsInView'
        /\ SyncOwnsEpoch'
        /\ OldSectionsVisible'
        /\ ScannedAreCurrent'
        /\ EpochLag'
        /\ BorrowedAreYoung'
    BY <1>4, SMTT(30) DEF FlushLoad, EpochsBehind, BufferEndsInView, SyncOwnsEpoch,
       OldSectionsVisible, ScannedAreCurrent, EpochLag, BorrowedAreYoung,
       Goto, objectVars, syncVars, TypeOK, InCritical, Fenced
  <2>2. QED
    BY <2>1
<1>5. ASSUME NEW t \in Threads, FlushStore(t) PROVE IndInv'
  <2>1. BufferEndsInView'
    <3>1. [active |-> view[t].active, epoch |-> current[t]] \in Slot
      BY DEF TypeOK, Slot
    <3>2. QED
      BY <1>5, <3>1, StoreLemma DEF FlushStore
  <2>2. /\ EpochsBehind'
        /\ SyncOwnsEpoch'
        /\ OldSectionsVisible'
        /\ ScannedAreCurrent'
        /\ EpochLag'
        /\ BorrowedAreYoung'
    BY <1>5 DEF FlushStore, EpochsBehind, SyncOwnsEpoch, OldSectionsVisible,
       ScannedAreCurrent, EpochLag, BorrowedAreYoung, Goto, Store, objectVars,
       syncVars, TypeOK, InCritical, Fenced
  <2>3. QED
    BY <2>1, <2>2
<1>6. ASSUME NEW t \in Threads, Leave(t) PROVE IndInv'
  <2>1. BufferEndsInView'
    <3>1. [active |-> FALSE, epoch |-> view[t].epoch] \in Slot
      BY DEF TypeOK, Slot
    <3>2. QED
      BY <1>6, <3>1, StoreLemma DEF Leave
  <2>2. /\ EpochsBehind'
        /\ SyncOwnsEpoch'
        /\ OldSectionsVisible'
        /\ ScannedAreCurrent'
        /\ EpochLag'
        /\ BorrowedAreYoung'
    BY <1>6 DEF Leave, EpochsBehind, SyncOwnsEpoch, OldSectionsVisible,
       ScannedAreCurrent, EpochLag, BorrowedAreYoung, Store, objectVars,
       syncVars, TypeOK, InCritical, Fenced
  <2>3. QED
    BY <2>1, <2>2
<1>7. ASSUME NEW t \in Threads, Drain(t) PROVE IndInv'
  <2>1. BufferEndsInView'
    BY <1>7, DrainLemma DEF Drain
  <2>2. /\ EpochsBehind'
        /\ SyncOwnsEpoch'
        /\ OldSectionsVisible'
        /\ ScannedAreCurrent'
        /\ EpochLag'
        /\ BorrowedAreYoung'
    BY <1>7 DEF Drain, EpochsBehind, SyncOwnsEpoch, OldSectionsVisible,
       ScannedAreCurrent, EpochLag, BorrowedAreYoung, objectVars, syncVars,
       TypeOK, InCritical, Fenced
  <2>3. QED
    BY <2>1, <2>2
<1>8. ASSUME NEW t \in Threads, NEW o \in Objects, Publish(t, o) PROVE IndInv'
  <2>1. /\ EpochsBehind'
        /\ BufferEndsInView'
        /\ SyncOwnsEpoch'
        /\ OldSectionsVisible'
        /\ ScannedAreCurrent'
        /\ EpochLag'
        /\ BorrowedAreYoung'
    BY <1>8 DEF Publish, EpochsBehind, BufferEndsInView, SyncOwnsEpoch,
       OldSectionsVisible, ScannedAreCurrent, EpochLag, BorrowedAreYoung,
       threadVars, syncVars, TypeOK, InCritical, Fenced
  <2>2. QED
    BY <2>1
<1>9. ASSUME NEW t \in Threads, NEW o \in Objects, Borrow(t, o) PROVE IndInv'
  <2>1. /\ EpochsBehind'
        /\ BufferEndsInView'
        /\ SyncOwnsEpoch'
        /\ OldSectionsVisible'
        /\ ScannedAreCurrent'
        /\ EpochLag'
        /\ BorrowedAreYoung'
    BY <1>9 DEF Borrow, EpochsBehind, BufferEndsInView, SyncOwnsEpoch,
       OldSectionsVisible, ScannedAreCurrent, EpochLag, BorrowedAreYoung,
       objectVars, syncVars, TypeOK, InCritical, Fenced
  <2>2. QED
    BY <2>1
<1>10. ASSUME NEW t \in Threads, NEW o \in Objects, Unlink(t, o) PROVE IndInv'
  <2>1. /\ EpochsBehind'
        /\ BufferEndsInView'
        /\ SyncOwnsEpoch'
        /\ OldSectionsVisible'
        /\ ScannedAreCurrent'
        /\ EpochLag'
        /\ BorrowedAreYoung'
    BY <1>10 DEF Unlink, EpochsBehind, BufferEndsInView, SyncOwnsEpoch,
       OldSectionsVisible, ScannedAreCurrent, EpochLag, BorrowedAreYoung,
       syncVars, TypeOK, InCritical, Fenced
  <2>2. QED
    BY <2>1
<1>11. ASSUME NEW t \in Threads, AutoreleaseLoad(t) PROVE IndInv'
  <2>1. BorrowedAreYoung'
    BY <1>11 DEF AutoreleaseLoad, threadVars, EpochsBehind, BorrowedAreYoung,
         InCritical, TypeOK
  <2>2. /\ EpochsBehind'
        /\ BufferEndsInView'
        /\ SyncOwnsEpoch'
        /\ OldSectionsVisible'
        /\ ScannedAreCurrent'
        /\ EpochLag'
    BY <1>11 DEF AutoreleaseLoad, EpochsBehind, BufferEndsInView,
       SyncOwnsEpoch, OldSectionsVisible, ScannedAreCurrent, EpochLag,
       threadVars, syncVars, TypeOK, InCritical, Fenced
  <2>3. QED
    BY <2>1, <2>2
<1>12. ASSUME NEW t \in Threads, AutoreleasePush(t) PROVE IndInv'
  <2>1. /\ EpochsBehind'
        /\ BufferEndsInView'
        /\ SyncOwnsEpoch'
        /\ OldSectionsVisible'
        /\ ScannedAreCurrent'
        /\ EpochLag'
        /\ BorrowedAreYoung'
    BY <1>12 DEF AutoreleasePush, EpochsBehind, BufferEndsInView,
       SyncOwnsEpoch, OldSectionsVisible, ScannedAreCurrent, EpochLag,
       BorrowedAreYoung, syncVars, TypeOK, InCritical, Fenced
  <2>2. QED
    BY <2>1
<1>13. ASSUME NEW t \in Threads, SyncLock(t) PROVE IndInv'
  <2>1. /\ EpochsBehind'
        /\ BufferEndsInView'
        /\ SyncOwnsEpoch'
        /\ OldSectionsVisible'
        /\ ScannedAreCurrent'
        /\ EpochLag'
        /\ BorrowedAreYoung'
    BY <1>13 DEF SyncLock, EpochsBehind, BufferEndsInView, SyncOwnsEpoch,
       OldSectionsVisible, ScannedAreCurrent, EpochLag, BorrowedAreYoung,
       Goto, objectVars, TypeOK, InCritical, Fenced
  <2>2. QED
    BY <2>1
<1>14. ASSUME NEW u \in Threads, SyncBarrier(u) PROVE IndInv'
  <2>1. /\ EpochsBehind'
        /\ BufferEndsInView'
        /\ SyncOwnsEpoch'
        /\ OldSectionsVisible'
        /\ ScannedAreCurrent'
        /\ EpochLag'
        /\ BorrowedAreYoung'
    BY <1>14 DEF SyncBarrier, EpochsBehind, BufferEndsInView, SyncOwnsEpoch,
       OldSectionsVisible, ScannedAreCurrent, EpochLag, BorrowedAreYoung,
       objectVars, TypeOK, InCritical, Fenced
  <2>2. QED
    BY <2>1
<1>15. ASSUME SyncBarrierDone PROVE IndInv'
  <2>1. /\ EpochsBehind'
        /\ BufferEndsInView'
        /\ SyncOwnsEpoch'
        /\ OldSectionsVisible'
        /\ ScannedAreCurrent'
        /\ EpochLag'
        /\ BorrowedAreYoung'
    BY <1>15 DEF SyncBarrierDone, EpochsBehind, BufferEndsInView,
       SyncOwnsEpoch, OldSectionsVisible, ScannedAreCurrent, EpochLag,
       BorrowedAreYoung, threadVars, objectVars, TypeOK, InCritical, Fenced
  <2>2. QED
    BY <2>1
<1>16. ASSUME NEW u \in Threads, SyncScanActive(u) PROVE IndInv'
  <2>1. ScannedAreCurrent'
    BY <1>16 DEF SyncScanActive, threadVars, ScannedAreCurrent,
         OldSectionsVisible, BufferEndsInView, EpochsBehind, Fenced,
         InCritical, TypeOK
  <2>2. /\ EpochsBehind'
        /\ BufferEndsInView'
        /\ SyncOwnsEpoch'
        /\ OldSectionsVisible'
        /\ EpochLag'
        /\ BorrowedAreYoung'
    BY <1>16 DEF SyncScanActive, EpochsBehind, BufferEndsInView,
       SyncOwnsEpoch, OldSectionsVisible, EpochLag, BorrowedAreYoung,
       threadVars, objectVars, TypeOK, InCritical, Fenced
  <2>3. QED
    BY <2>1, <2>2
<1>17. ASSUME SyncScanEpoch PROVE IndInv'
  <2>1. ASSUME InCritical(suspect), mem[suspect].epoch = current_global
        PROVE  entered[suspect] = global_epoch
    BY <1>17, <2>1 DEF SyncScanEpoch, SyncOwnsEpoch, OldSectionsVisible,
       BufferEndsInView, EpochsBehind, Fenced, TypeOK, InCritical
  <2>2. ScannedAreCurrent'
    BY <1>17, <2>1 DEF SyncScanEpoch, SyncOwnsEpoch, ScannedAreCurrent,
       threadVars, InCritical, TypeOK
  <2>3. /\ EpochsBehind'
        /\ BufferEndsInView'
        /\ SyncOwnsEpoch'
        /\ OldSectionsVisible'
        /\ EpochLag'
        /\ BorrowedAreYoung'
    BY <1>17 DEF SyncScanEpoch, EpochsBehind, BufferEndsInView, SyncOwnsEpoch,
       OldSectionsVisible, EpochLag, BorrowedAreYoung, threadVars, objectVars,
       TypeOK, InCritical, Fenced
  <2>4. QED
    BY <2>2, <2>3
<1>18. ASSUME SyncAdvance PROVE IndInv'
  <2>1. EpochLag'
    BY <1>18 DEF SyncAdvance, threadVars, SyncOwnsEpoch, EpochLag,
         ScannedAreCurrent, InCritical, TypeOK
  <2>2. /\ EpochsBehind'
        /\ BufferEndsInView'
        /\ SyncOwnsEpoch'
        /\ OldSectionsVisible'
        /\ ScannedAreCurrent'
        /\ BorrowedAreYoung'
    BY <1>18 DEF SyncAdvance, EpochsBehind, BufferEndsInView, SyncOwnsEpoch,
       OldSectionsVisible, ScannedAreCurrent, BorrowedAreYoung, threadVars,
       objectVars, TypeOK, InCritical, Fenced
  <2>3. QED
    BY <2>1, <2>2
<1>19. ASSUME SyncSteal PROVE IndInv'
  <2>1. /\ EpochsBehind'
        /\ BufferEndsInView'
        /\ SyncOwnsEpoch'
        /\ OldSectionsVisible'
        /\ ScannedAreCurrent'
        /\ EpochLag'
        /\ BorrowedAreYoung'
    BY <1>19 DEF SyncSteal, EpochsBehind, BufferEndsInView, SyncOwnsEpoch,
       OldSectionsVisible, ScannedAreCurrent, EpochLag, BorrowedAreYoung,
       threadVars, TypeOK, InCritical, Fenced
  <2>2. QED
    BY <2>1
<1>20. ASSUME NEW o \in Objects, SyncWalk(o) PROVE IndInv'
  <2>1. BorrowedAreYoung'
    BY <1>20, SMTT(30) DEF SyncWalk, threadVars, syncVars, OldEnough, EpochLag,
         SyncOwnsEpoch, BorrowedAreYoung, InCritical, TypeOK
  <2>2. /\ EpochsBehind'
        /\ BufferEndsInView'
        /\ SyncOwnsEpoch'
        /\ OldSectionsVisible'
        /\ ScannedAreCurrent'
        /\ EpochLag'
    BY <1>20 DEF SyncWalk, EpochsBehind, BufferEndsInView, SyncOwnsEpoch,
       OldSectionsVisible, ScannedAreCurrent, EpochLag, threadVars, syncVars,
       TypeOK, InCritical, Fenced
  <2>3. QED
    BY <2>1, <2>2
<1>21. ASSUME SyncUnlock PROVE IndInv'
  <2>1. \A t \in Threads : InCritical(t)' = InCritical(t)
    BY <1>21 DEF SyncUnlock, SyncOwnsEpoch, InCritical, TypeOK
  <2>2. EpochsBehind' /\ EpochLag'
    BY <1>21, <2>1 DEF SyncUnlock, EpochsBehind, EpochLag
  <2>3. BufferEndsInView' /\ SyncOwnsEpoch'
    BY <1>21, NoThreadAssumption DEF SyncUnlock, BufferEndsInView, SyncOwnsEpoch
  <2>4. OldSectionsVisible' /\ ScannedAreCurrent'
    BY <1>21 DEF SyncUnlock, OldSectionsVisible, ScannedAreCurrent, Fenced
  <2>5. BorrowedAreYoung'
    BY <1>21, <2>1 DEF SyncUnlock, BorrowedAreYoung, TypeOK
  <2>6. QED
    BY <2>2, <2>3, <2>4, <2>5
<1>22. CASE UNCHANGED vars
  BY <1>22 DEF vars, EpochsBehind, BufferEndsInView, SyncOwnsEpoch,
     OldSectionsVisible, ScannedAreCurrent, EpochLag, BorrowedAreYoung, Fenced,
     InCritical
<1>23. QED
  BY <1>1, <1>2, <1>3, <1>4, <1>5, <1>6, <1>7, <1>8, <1>9, <1>10, <1>11,
     <1>12, <1>13, <1>14, <1>15, <1>16, <1>17, <1>18, <1>19, <1>20, <1>21,
     <1>22 DEF Next, CriticalStep, UserStep, SyncStep
LEMMA InvariantInit == Init => IndInv
<1> SUFFICES ASSUME Init PROVE IndInv
  OBVIOUS
<1>1. TypeOK
  BY EmptySeq DEF Init, TypeOK, Slot, Places
<1>2. QED
  BY <1>1, NoThreadAssumption DEF Init, IndInv, EpochsBehind,
     BufferEndsInView, SyncOwnsEpoch, OldSectionsVisible, ScannedAreCurrent,
     EpochLag, BorrowedAreYoung, Fenced, InCritical

\* Every reachable state of Ebr.c's critical sections, autorelease and
\* synchronization satisfies the inductive invariant.
THEOREM Invariance == Spec => []IndInv
<1>1. QED
  BY InvariantInit, InvariantStep, PTL DEF Spec

\* The variables of the model keep their types.
THEOREM TypeCorrect == Spec => []TypeOK
<1>1. IndInv => TypeOK
  BY DEF IndInv
<1>2. QED
  BY <1>1, Invariance, PTL

\* Ebr_synchronize_and_reclaim releases no object that a thread borrowed in a
\* critical section it is still in.
THEOREM Safety == Spec => []NoUseAfterReclaim
<1>1. IndInv => NoUseAfterReclaim
  BY DEF IndInv, BorrowedAreYoung, NoUseAfterReclaim
<1>2. QED
  BY <1>1, Invariance, PTL

\* The global epoch is at most one ahead of the epoch in which a thread began
\* the critical section it is in.
THEOREM Lag == Spec => []EpochLag
<1>1. IndInv => EpochLag
  BY DEF IndInv
<1>2. QED
  BY <1>1, Invariance, PTL

-----------------------------------------------------------------------------
\* A step of Ebr is a step of the grace period specification or changes
\* nothing its users see.
LEMMA RefinementStep == IndInv /\ [Next]_vars => [GP!GPNext]_(GP!gpVars)
<1> SUFFICES ASSUME IndInv, [Next]_vars PROVE [GP!GPNext]_(GP!gpVars)
  OBVIOUS
<1> USE DEF IndInv, TypeOK, GP!GPNext, GP!gpVars, threadVars, objectVars,
        syncVars
<1>1. CASE UNCHANGED vars
  BY <1>1 DEF vars, Life
<1>2. ASSUME NEW t \in Threads, EnterLoad(t) \/ EnterActive(t) \/ EnterEpoch(t)
               \/ FlushLoad(t) \/ Drain(t)
      PROVE  UNCHANGED GP!gpVars
  BY <1>2 DEF EnterLoad, EnterActive, EnterEpoch, FlushLoad, Drain, Life
<1>3. ASSUME NEW t \in Threads, FlushStore(t) \/ Leave(t)
      PROVE  GP!Quiesce(t)
  BY <1>3 DEF FlushStore, Leave, GP!Quiesce, Life
<1>4. ASSUME NEW t \in Threads, NEW o \in Objects, Publish(t, o)
      PROVE  GP!Share(o)
  BY <1>4 DEF Publish, GP!Share, Life
<1>5. ASSUME NEW t \in Threads, NEW o \in Objects, Borrow(t, o)
      PROVE  GP!Use(t, o)
  BY <1>5 DEF Borrow, GP!Use, Life
<1>6. ASSUME NEW t \in Threads, NEW o \in Objects, Unlink(t, o)
      PROVE  GP!Retire(o)
  BY <1>6 DEF Unlink, GP!Retire, Life
<1>7. ASSUME NEW t \in Threads, AutoreleaseLoad(t) \/ AutoreleasePush(t)
      PROVE  UNCHANGED GP!gpVars
  BY <1>7 DEF AutoreleaseLoad, AutoreleasePush, Life
<1>8. ASSUME NEW t \in Threads,
             SyncLock(t) \/ SyncBarrier(t) \/ SyncScanActive(t)
      PROVE  UNCHANGED GP!gpVars
  BY <1>8 DEF SyncLock, SyncBarrier, SyncScanActive, Life
<1>9. ASSUME SyncBarrierDone \/ SyncScanEpoch \/ SyncAdvance
      PROVE  UNCHANGED GP!gpVars
  BY <1>9 DEF SyncBarrierDone, SyncScanEpoch, SyncAdvance, Life
<1>10. ASSUME SyncSteal \/ SyncUnlock
       PROVE  UNCHANGED GP!gpVars
  BY <1>10 DEF SyncSteal, SyncUnlock, Life
<1>11. ASSUME NEW o \in Objects, SyncWalk(o)
       PROVE  GP!Reclaim(o) \/ UNCHANGED GP!gpVars
  <2>1. CASE OldEnough(o)
    <3>1. ASSUME NEW t \in Threads, o \in borrowed[t] PROVE FALSE
      <4>1. InCritical(t) /\ entered[t] <= epoch_retired[o]
        BY <1>11, <3>1 DEF SyncWalk, BorrowedAreYoung
      <4>2. global_epoch <= entered[t] + 1 /\ current_global = global_epoch
        BY <1>11, <4>1 DEF SyncWalk, EpochLag, SyncOwnsEpoch
      <4>3. QED
        BY <2>1, <4>1, <4>2 DEF OldEnough
    <3>2. QED
      BY <1>11, <2>1, <3>1 DEF SyncWalk, GP!Reclaim, Life
  <2>2. CASE ~OldEnough(o)
    BY <1>11, <2>2 DEF SyncWalk, Life
  <2>3. QED
    BY <2>1, <2>2
<1>12. QED
  BY <1>1, <1>2, <1>3, <1>4, <1>5, <1>6, <1>7, <1>8, <1>9, <1>10, <1>11
     DEF Next, CriticalStep, UserStep, SyncStep

\* Ebr.c implements the grace period that Var.c, Namespace.c and
\* ConcurrentHashMap.c rely on.
THEOREM Refinement == Spec => GracePeriodHolds
<1>1. Init => GP!GPInit
  BY DEF Init, GP!GPInit, Life
<1>2. QED
  BY <1>1, Invariance, RefinementStep, PTL DEF Spec, GracePeriodHolds, GP!GPSpec
=============================================================================
