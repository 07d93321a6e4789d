------------------------------ MODULE RefCount ------------------------------
(***************************************************************************)
(* Reference counts of backend/runtime/Object.h and the roots of Vars.     *)
(*                                                                         *)
(* The count of an object and its SHARED_BIT are one word.  While the bit  *)
(* is clear the owner changes the word by a load and a plain store; once   *)
(* it is set, everyone uses atomic additions.  promoteToShared sets the    *)
(* bit of a whole structure before Var_bindRoot publishes it, and          *)
(* Object_isReusable clears it again when the last owner is about to       *)
(* change the object in place.  Object graphs are chains: an object refers *)
(* to at most one other.                                                   *)
(*                                                                         *)
(* Ebr enters through its promise only: a reference that autorelease took  *)
(* is released when the threads that had borrowed the object are quiescent *)
(* (see GracePeriod).                                                      *)
(***************************************************************************)
EXTENDS Integers, Sequences, FiniteSets

CONSTANTS
  Threads,
  Objects,
  Shallow,    \* objects that Object_promoteToShared promotes without what they
              \* refer to
  None,       \* no object
  MaxRefs,    \* bound: references to one object that one thread owns
  Slots       \* bound: places for references on the pending list

ASSUME ThreadsAssumption == Threads # {}
ASSUME ShallowAssumption == Shallow \subseteq Objects
ASSUME NoneAssumption == None \notin Objects
ASSUME MaxRefsAssumption == MaxRefs \in Nat \ {0}

VARIABLES
  word,      \* word[o]: [count, shared], the field atomicRefCount
  life,      \* life[o]: "unused", "live" or "dead"
  child,     \* child[o]: the object o refers to
  root,      \* the root of a Var
  pending,   \* pending[i]: a reference on pending_reclamation, and the threads
             \* it waits for
  owned,     \* owned[t][o]: references to o that t has to release
  borrowed,  \* borrowed[t]: objects t loaded from the root and did not retain
  pc,        \* pc[t]: the function of Object.h that t is in
  obj,       \* obj[t]: its argument
  cur,       \* cur[t]: the word it has loaded
  arg,       \* arg[t]: the object to be stored in obj[t], for a reuse
  path       \* path[t]: objects its promotion has still to mark, with words

vars == <<word, life, child, root, pending, owned, borrowed, pc, obj, cur, arg,
          path>>
opVars == <<pc, obj, cur, arg, path>>
heapVars == <<word, life, child>>

Words == [count : Nat, shared : BOOLEAN]
Local(n) == [count |-> n, shared |-> FALSE]
Maybe == Objects \cup {None}
Free == [obj |-> None, wait |-> {}]

TypeOK ==
  /\ word \in [Objects -> Words]
  /\ life \in [Objects -> {"unused", "live", "dead"}]
  /\ child \in [Objects -> Maybe]
  /\ root \in Maybe
  /\ pending \in [Slots -> [obj : Maybe, wait : SUBSET Threads]]
  /\ owned \in [Threads -> [Objects -> 0 .. MaxRefs]]
  /\ borrowed \in [Threads -> SUBSET Objects]
  /\ pc \in [Threads -> {"run", "retain", "release", "reuse", "promote",
                         "mark", "exchange"}]
  /\ obj \in [Threads -> Maybe]
  /\ cur \in [Threads -> Words]
  /\ arg \in [Threads -> Maybe]
  /\ path \in [Threads -> Seq([obj : Objects, cur : Words])]

Init ==
  /\ word = [o \in Objects |-> Local(0)]
  /\ life = [o \in Objects |-> "unused"]
  /\ child = [o \in Objects |-> None]
  /\ root = None
  /\ pending = [i \in Slots |-> Free]
  /\ owned = [t \in Threads |-> [o \in Objects |-> 0]]
  /\ borrowed = [t \in Threads |-> {}]
  /\ pc = [t \in Threads |-> "run"]
  /\ obj = [t \in Threads |-> None]
  /\ cur = [t \in Threads |-> Local(0)]
  /\ arg = [t \in Threads |-> None]
  /\ path = [t \in Threads |-> <<>>]

-----------------------------------------------------------------------------
\* The objects that a pointer from S leads to, directly or through others: the
\* smallest set that contains S and what its members refer to.
Closed(C) == \A o \in C : child[o] \in C \cup {None}
Reach(S) ==
  {o \in Objects :
     \A C \in SUBSET Objects : S \subseteq C /\ Closed(C) => o \in C}

\* What a thread has a pointer to, and what all threads can load.
Roots(t)  == {o \in Objects : owned[t][o] > 0} \cup borrowed[t]
               \cup ({obj[t], arg[t]} \ {None})
Global    == ({root} \cup {pending[i].obj : i \in Slots}) \ {None}
Reaches(t) == Reach(Roots(t))

Give(t, o) == owned' = [owned EXCEPT ![t][o] = @ + 1]
Take(t, o) == owned[t][o] > 0 /\ owned' = [owned EXCEPT ![t][o] = @ - 1]

\* t starts a function with argument o; the load of the word is its first step.
Call(t, f, o) ==
  /\ pc[t] = "run"
  /\ pc' = [pc EXCEPT ![t] = f]
  /\ obj' = [obj EXCEPT ![t] = o]
  /\ cur' = [cur EXCEPT ![t] = word[o]]

Return(t) ==
  /\ pc' = [pc EXCEPT ![t] = "run"]
  /\ obj' = [obj EXCEPT ![t] = None]
  /\ cur' = [cur EXCEPT ![t] = Local(0)]
  /\ arg' = [arg EXCEPT ![t] = None]

-----------------------------------------------------------------------------
\* Object_create, for an object that refers to nothing.
Create(t, o) ==
  /\ pc[t] = "run"
  /\ life[o] = "unused"
  /\ life' = [life EXCEPT ![o] = "live"]
  /\ word' = [word EXCEPT ![o] = Local(1)]
  /\ Give(t, o)
  /\ UNCHANGED <<child, root, pending, borrowed, opVars>>

\* Object_create for a collection: it takes over the reference to its element.
Wrap(t, o, c) ==
  /\ pc[t] = "run"
  /\ life[o] = "unused"
  /\ owned[t][c] > 0
  /\ life' = [life EXCEPT ![o] = "live"]
  /\ word' = [word EXCEPT ![o] = Local(1)]
  /\ child' = [child EXCEPT ![o] = c]
  /\ owned' = [owned EXCEPT ![t][o] = @ + 1, ![t][c] = @ - 1]
  /\ UNCHANGED <<root, pending, borrowed, opVars>>

\* Object_retain of an object the thread holds, borrows or reads out of one.
RetainLoad(t, o) ==
  /\ o \in Reaches(t)
  /\ owned[t][o] < MaxRefs
  /\ Call(t, "retain", o)
  /\ UNCHANGED <<heapVars, root, pending, owned, borrowed, arg, path>>

RetainStore(t) ==
  LET o == obj[t] IN
  /\ pc[t] = "retain"
  /\ word' = [word EXCEPT ![o] = IF cur[t].shared
                                 THEN [count |-> @.count + 1, shared |-> @.shared]
                                 ELSE Local(cur[t].count + 1)]
  /\ Give(t, o)
  /\ Return(t)
  /\ UNCHANGED <<life, child, root, pending, borrowed, path>>

\* Object_release: load the word, then subtract; at zero Object_destroy
\* releases what the object refers to in the same way.
ReleaseLoad(t, o) ==
  /\ Take(t, o)
  /\ Call(t, "release", o)
  /\ UNCHANGED <<heapVars, root, pending, borrowed, arg, path>>

\* The count before this release, as the code obtains it.
CountBefore(t) == IF cur[t].shared THEN word[obj[t]].count ELSE cur[t].count

\* Mutant: a shared count is decremented by a load and a store as well.
ReleaseStorePlain(t) ==
  /\ pc[t] = "release"
  /\ CountBefore(t) # 1
  /\ word' = [word EXCEPT ![obj[t]] =
                [count |-> cur[t].count - 1, shared |-> cur[t].shared]]
  /\ Return(t)
  /\ UNCHANGED <<life, child, root, pending, owned, borrowed, path>>

ReleaseStore(t) ==
  LET o == obj[t] IN
  /\ pc[t] = "release"
  /\ CountBefore(t) # 1
  /\ word' = [word EXCEPT ![o] = IF cur[t].shared
                                 THEN [count |-> @.count - 1, shared |-> @.shared]
                                 ELSE Local(cur[t].count - 1)]
  /\ Return(t)
  /\ UNCHANGED <<life, child, root, pending, owned, borrowed, path>>

ReleaseDestroy(t) ==
  LET o == obj[t] IN
  /\ pc[t] = "release"
  /\ CountBefore(t) = 1
  /\ life' = [life EXCEPT ![o] = "dead"]
  /\ word' = [word EXCEPT ![o] = Local(0)]
  /\ child' = [child EXCEPT ![o] = None]
  /\ IF child[o] = None
     THEN Return(t)
     ELSE /\ obj' = [obj EXCEPT ![t] = child[o]]
          /\ cur' = [cur EXCEPT ![t] = word[child[o]]]
          /\ UNCHANGED <<pc, arg>>
  /\ UNCHANGED <<root, pending, owned, borrowed, path>>

\* Object_isReusable, asked by an operation that stores c in its argument.
ReuseLoad(t, o, c) ==
  /\ owned[t][o] > 0
  /\ o # c
  /\ owned[t][c] > 0
  /\ o \notin Reach({c})
  /\ owned' = [owned EXCEPT ![t][o] = @ - 1, ![t][c] = @ - 1]
  /\ Call(t, "reuse", o)
  /\ arg' = [arg EXCEPT ![t] = c]
  /\ UNCHANGED <<heapVars, root, pending, borrowed, path>>

\* Not the only reference: the operation leaves the object alone.
ReuseRefused(t) ==
  /\ pc[t] = "reuse"
  /\ cur[t].count # 1
  /\ owned' = [owned EXCEPT ![t][obj[t]] = @ + 1, ![t][arg[t]] = @ + 1]
  /\ Return(t)
  /\ UNCHANGED <<heapVars, root, pending, borrowed, path>>

\* Mutant: a second reference is overlooked.
ReuseInPlaceEarly(t) ==
  LET o == obj[t] IN
  /\ pc[t] = "reuse"
  /\ cur[t].count <= 2
  /\ word' = [word EXCEPT ![o] = IF cur[t].shared THEN Local(1) ELSE @]
  /\ child' = [child EXCEPT ![o] = arg[t]]
  /\ Give(t, o)
  /\ IF child[o] = None
     THEN Return(t)
     ELSE /\ pc' = [pc EXCEPT ![t] = "release"]
          /\ obj' = [obj EXCEPT ![t] = child[o]]
          /\ cur' = [cur EXCEPT ![t] = word[child[o]]]
          /\ arg' = [arg EXCEPT ![t] = None]
  /\ UNCHANGED <<life, root, pending, borrowed, path>>

\* The only reference: the bit is cleared, the object changed in place, and
\* what it referred to before is released.
ReuseInPlace(t) ==
  LET o == obj[t] IN
  /\ pc[t] = "reuse"
  /\ cur[t].count = 1
  /\ word' = [word EXCEPT ![o] = IF cur[t].shared THEN Local(1) ELSE @]
  /\ child' = [child EXCEPT ![o] = arg[t]]
  /\ Give(t, o)
  /\ IF child[o] = None
     THEN Return(t)
     ELSE /\ pc' = [pc EXCEPT ![t] = "release"]
          /\ obj' = [obj EXCEPT ![t] = child[o]]
          /\ cur' = [cur EXCEPT ![t] = word[child[o]]]
          /\ arg' = [arg EXCEPT ![t] = None]
  /\ UNCHANGED <<life, root, pending, borrowed, path>>

-----------------------------------------------------------------------------
\* Var_bindRoot: promoteToShared descends through local objects ...
BindRoot(t, o) ==
  /\ Take(t, o)
  /\ Call(t, "promote", o)
  /\ UNCHANGED <<heapVars, root, pending, borrowed, arg, path>>

\* Mutant: only the published object itself is promoted.
PromoteNextShallow(t) == IF path[t] = <<>> THEN obj[t] ELSE None

\* The next object of a promotion: below the last one, unless its type is
\* promoted by Object_promoteToSharedShallow alone.
PromoteNext(t) ==
  IF path[t] = <<>> THEN obj[t]
  ELSE LET o == path[t][Len(path[t])].obj
       IN IF o \in Shallow THEN None ELSE child[o]

PromoteDown(t) ==
  /\ pc[t] = "promote"
  /\ IF PromoteNext(t) = None \/ word[PromoteNext(t)].shared
     THEN pc' = [pc EXCEPT ![t] = "mark"] /\ UNCHANGED path
     ELSE /\ path' = [path EXCEPT ![t] =
                        Append(@, [obj |-> PromoteNext(t), cur |-> word[PromoteNext(t)]])]
          /\ UNCHANGED pc
  /\ UNCHANGED <<heapVars, root, pending, owned, borrowed, obj, cur, arg>>

\* ... and marks them, the innermost first, with the word it had loaded.
PromoteUp(t) ==
  /\ pc[t] = "mark"
  /\ IF path[t] = <<>>
     THEN pc' = [pc EXCEPT ![t] = "exchange"] /\ UNCHANGED <<word, path>>
     ELSE LET top == path[t][Len(path[t])] IN
          /\ word' = [word EXCEPT ![top.obj] =
                        [count |-> top.cur.count, shared |-> TRUE]]
          /\ path' = [path EXCEPT ![t] = SubSeq(@, 1, Len(@) - 1)]
          /\ UNCHANGED pc
  /\ UNCHANGED <<life, child, root, pending, owned, borrowed, obj, cur, arg>>

\* Mutant: the reference is released without a grace period.
RetireAtOnce(o) ==
  IF o = None
  THEN UNCHANGED pending
  ELSE \E i \in Slots :
         /\ pending[i] = Free
         /\ pending' = [pending EXCEPT ![i] = [obj |-> o, wait |-> {}]]

\* Autorelease of the reference the root held.
Retire(o) ==
  IF o = None
  THEN UNCHANGED pending
  ELSE \E i \in Slots :
         /\ pending[i] = Free
         /\ pending' = [pending EXCEPT ![i] =
              [obj |-> o, wait |-> {t \in Threads : o \in borrowed[t]}]]

\* The exchange of Var_bindRoot and the autorelease of the old root.
BindExchange(t) ==
  /\ pc[t] = "exchange"
  /\ root' = obj[t]
  /\ Retire(root)
  /\ Return(t)
  /\ UNCHANGED <<heapVars, owned, borrowed, path>>

\* Var_unbindRoot.
UnbindRoot(t) ==
  /\ pc[t] = "run"
  /\ root # None
  /\ root' = None
  /\ Retire(root)
  /\ UNCHANGED <<heapVars, owned, borrowed, opVars>>

\* Var_peek, and the load of Var_deref whose retain follows.
Peek(t) ==
  /\ pc[t] = "run"
  /\ root # None
  /\ borrowed' = [borrowed EXCEPT ![t] = @ \cup {root}]
  /\ UNCHANGED <<heapVars, root, pending, owned, opVars>>

\* Ebr_flush_critical or Ebr_leave_critical.
Quiesce(t) ==
  /\ pc[t] = "run"
  /\ borrowed[t] # {}
  /\ borrowed' = [borrowed EXCEPT ![t] = {}]
  /\ pending' = [i \in Slots |-> [pending[i] EXCEPT !.wait = @ \ {t}]]
  /\ UNCHANGED <<heapVars, root, owned, opVars>>

\* The synchronizing thread releases a retired reference.
Reclaim(t, i) ==
  /\ pending[i].obj # None
  /\ pending[i].wait = {}
  /\ Call(t, "release", pending[i].obj)
  /\ pending' = [pending EXCEPT ![i] = Free]
  /\ UNCHANGED <<heapVars, root, owned, borrowed, arg, path>>

Step(t) ==
  \/ \E o \in Objects :
       \/ Create(t, o) \/ RetainLoad(t, o) \/ ReleaseLoad(t, o) \/ BindRoot(t, o)
       \/ \E c \in Objects : Wrap(t, o, c) \/ ReuseLoad(t, o, c)
  \/ RetainStore(t)
  \/ ReleaseStore(t) \/ ReleaseDestroy(t)
  \/ ReuseRefused(t) \/ ReuseInPlace(t)
  \/ PromoteDown(t) \/ PromoteUp(t) \/ BindExchange(t)
  \/ UnbindRoot(t) \/ Peek(t) \/ Quiesce(t)
  \/ \E i \in Slots : Reclaim(t, i)

Next == \E t \in Threads : Step(t)

Spec == Init /\ [][Next]_vars

\* Object_promoteToSharedShallow marks an object and nothing below it.  It is
\* enough where the object refers to nothing or to something that is shared.
PromotionsCover ==
  \A t \in Threads : pc[t] = "promote" /\ path[t] # <<>> =>
    LET o == path[t][Len(path[t])].obj
    IN o \in Shallow => child[o] = None \/ word[child[o]].shared

\* The behaviours in which every shallow promotion is enough.  The code does not
\* see to it (Object.h:524); the README lists the types that are exposed.
CoveredSpec == Init /\ [][Next /\ PromotionsCover']_vars

-----------------------------------------------------------------------------
\* Safety.  Whatever a thread can follow a pointer to, and whatever is
\* published or waits for its release, has not been destroyed.
NoDangling ==
  \A o \in Reach(Global) \cup UNION {Reaches(t) : t \in Threads} :
    life[o] = "live"

\* The references that the program holds to o, each with its place.
Refs(o) ==
       {r \in {"owned"} \X Threads \X (1 .. MaxRefs) : r[3] <= owned[r[2]][o]}
  \cup {"held"} \X {t \in Threads : o \in {obj[t], arg[t]} /\ pc[t] # "retain"} \X {0}
  \cup {"root"} \X ({root} \cap {o}) \X {0}
  \cup {"pending"} \X {i \in Slots : pending[i].obj = o} \X {0}
  \cup {"child"} \X {p \in Objects : child[p] = o} \X {0}

References(o) == Cardinality(Refs(o))

\* Object_retain and Object_release never lose an update: the count of every
\* object is the number of references to it, so that it is destroyed with the
\* last one and not before.
CountsAreExact ==
  \A o \in Objects : life[o] = "live" => word[o].count = References(o)

\* What Object_retain relies on when it finds SHARED_BIT clear ("only THIS
\* thread owns it"): one thread at most can reach the object.
LocalMeansExclusive ==
  LET seen == [t \in Threads |-> Reaches(t)]
      all  == Reach(Global)
  IN \A o \in Objects : life[o] = "live" /\ ~word[o].shared =>
       /\ o \notin all
       /\ \A t, u \in Threads : o \in seen[t] /\ o \in seen[u] => t = u

\* An object is changed in place (Object_isReusable) only while nobody, the
\* changing thread included, has another reference to it or still borrows it.
InPlaceUnseen ==
  [][\A o \in Objects :
       life[o] = "live" /\ life'[o] = "live" /\ child'[o] # child[o] =>
         /\ References(o) = 1
         /\ \A t \in Threads : o \notin Reach(borrowed[t])]_vars
=============================================================================
