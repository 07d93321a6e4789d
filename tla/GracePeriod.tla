---------------------------- MODULE GracePeriod ----------------------------
(***************************************************************************)
(* What the epoch-based reclamation of backend/runtime/Ebr.c promises to   *)
(* the lock-free containers of the runtime (Var roots, Namespace maps,     *)
(* ConcurrentHashMap values).  A thread may use, without retaining it, any *)
(* object it loaded from a shared location since it last entered or        *)
(* flushed its critical section; an object is handed back to release()     *)
(* only when nobody may still use it that way.                             *)
(***************************************************************************)
CONSTANTS
  Threads,   \* threads registered with Ebr_register_thread
  Objects    \* heap objects that a shared location may hold

VARIABLES
  borrowed,  \* borrowed[t]: the objects t loaded and may still dereference
  life       \* life[o]: "private", "shared", "retired" or "reclaimed"

gpVars == <<borrowed, life>>

GPInit ==
  /\ borrowed = [t \in Threads |-> {}]
  /\ life = [o \in Objects |-> "private"]

\* An object is stored in a shared location.
Share(o) ==
  /\ life[o] = "private"
  /\ life' = [life EXCEPT ![o] = "shared"]
  /\ UNCHANGED borrowed

\* A thread loads an object from the shared location that holds it.
Use(t, o) ==
  /\ life[o] = "shared"
  /\ borrowed' = [borrowed EXCEPT ![t] = @ \cup {o}]
  /\ UNCHANGED life

\* The object is unlinked: it can no longer be loaded.
Retire(o) ==
  /\ life[o] = "shared"
  /\ life' = [life EXCEPT ![o] = "retired"]
  /\ UNCHANGED borrowed

\* A thread ends or flushes its critical section: what it loaded is void.
Quiesce(t) ==
  /\ borrowed' = [borrowed EXCEPT ![t] = {}]
  /\ UNCHANGED life

\* The reference of the shared location is dropped, after a grace period.
Reclaim(o) ==
  /\ life[o] = "retired"
  /\ \A t \in Threads : o \notin borrowed[t]
  /\ life' = [life EXCEPT ![o] = "reclaimed"]
  /\ UNCHANGED borrowed

GPNext ==
  \/ \E o \in Objects : Share(o) \/ Retire(o) \/ Reclaim(o)
  \/ \E t \in Threads : Quiesce(t) \/ (\E o \in Objects : Use(t, o))

GPSpec == GPInit /\ [][GPNext]_gpVars
=============================================================================
