--------------------------- MODULE RefCountProofs ---------------------------
(***************************************************************************)
(* Reference counts are exact, local objects have one user, and nobody     *)
(* meets a destroyed object, for any number of threads and objects, as     *)
(* long as no shallow promotion leaves a local object below the one it     *)
(* marks (CoveredSpec).                                                    *)
(*                                                                         *)
(* The count of an object is the size of a set of places that hold a       *)
(* reference to it.  What a thread may do with an object follows from what *)
(* the set contains: a thread that is about to change or destroy an object *)
(* has the only reference in its hand, so that no pointer of anybody leads *)
(* to the object; a thread that counts without atomic operations is the    *)
(* one that local objects belong to.                                       *)
(***************************************************************************)
EXTENDS RefCount, FiniteSetTheorems, SequenceTheorems, NaturalsInduction,
        WellFoundedInduction, TLAPS

\* The place of the reference that a function of Object.h works on.
Hand(t) == <<"held", t, 0>>

Live(o) == life[o] = "live"
LocalObject(o) == Live(o) /\ ~word[o].shared

\* Where a thread gets the argument of Object_retain from.
Pointers(t) == {o \in Objects : owned[t][o] > 0} \cup borrowed[t]

-----------------------------------------------------------------------------
\* The objects.
Counted ==
  \A o \in Objects :
    /\ IsFiniteSet(Refs(o))
    /\ Live(o) => word[o].count = Cardinality(Refs(o))
    /\ ~Live(o) => Refs(o) = {} /\ child[o] = None

Acyclic == \A o \in Objects : child[o] # None => o \notin Reach({child[o]})

\* own tells whose the local objects are.
BelongTo(own) ==
  \A o \in Objects : LocalObject(o) =>
    /\ o \notin Global
    /\ \A p \in Objects : child[p] = o => ~word[p].shared /\ own[p] = own[o]
    /\ \A t \in Threads :
         /\ owned[t][o] > 0 \/ o \in {obj[t], arg[t]} => own[o] = t
         /\ \A k \in DOMAIN path[t] : path[t][k].obj = o => own[o] = t

Exclusive == \E own \in [Objects -> Threads] : BelongTo(own)

\* A borrowed object has not been released since it was borrowed.
BorrowedHeld ==
  \A t \in Threads : \A o \in borrowed[t] :
    root = o \/ \E i \in Slots : pending[i].obj = o /\ t \in pending[i].wait

-----------------------------------------------------------------------------
\* The threads.
CallInv(t) ==
  /\ pc[t] = "run" <=> obj[t] = None
  /\ pc[t] = "reuse" <=> arg[t] # None
  /\ pc[t] = "reuse" => arg[t] # obj[t] /\ owned[t][arg[t]] < MaxRefs
  /\ pc[t] \in {"retain", "reuse"} => owned[t][obj[t]] < MaxRefs
  /\ pc[t] = "retain" => obj[t] \in Reach(Pointers(t))
  /\ pc[t] \in {"retain", "release", "reuse"} /\ ~cur[t].shared =>
       word[obj[t]] = cur[t]
  /\ pc[t] = "reuse" /\ cur[t].count = 1 => Refs(obj[t]) = {Hand(t)}

\* A promotion goes down a chain of local objects, and finds their words as it
\* has loaded them when it comes back.
PathInv(t) ==
  /\ path[t] # <<>> =>
       /\ pc[t] \in {"promote", "mark"}
       /\ path[t][1].obj = obj[t]
  /\ \A k \in DOMAIN path[t] :
       /\ path[t][k].cur = word[path[t][k].obj]
       /\ ~path[t][k].cur.shared
       /\ k + 1 \in DOMAIN path[t] => child[path[t][k].obj] = path[t][k + 1].obj
       /\ \A j \in DOMAIN path[t] :
            j < k => path[t][k].obj \in Reach({child[path[t][j].obj]})
  /\ pc[t] = "mark" =>
       IF path[t] = <<>>
       THEN word[obj[t]].shared
       ELSE LET c == child[path[t][Len(path[t])].obj]
            IN c = None \/ word[c].shared
  /\ pc[t] = "exchange" => word[obj[t]].shared

RefCountInv ==
  /\ TypeOK /\ Counted /\ Acyclic /\ Exclusive /\ BorrowedHeld
  /\ \A t \in Threads : CallInv(t) /\ PathInv(t)

-----------------------------------------------------------------------------

\* What pointers lead to.
LEMMA ReachType == \A S : Reach(S) \in SUBSET Objects
  BY DEF Reach

LEMMA ReachWithin ==
  ASSUME NEW S, NEW C \in SUBSET Objects, S \subseteq C, Closed(C)
  PROVE  Reach(S) \subseteq C
  BY DEF Reach

LEMMA ReachStart ==
  ASSUME NEW S, NEW o \in Objects, o \in S
  PROVE  o \in Reach(S)
  BY DEF Reach

LEMMA ReachChild ==
  ASSUME TypeOK, NEW S, NEW o \in Reach(S), child[o] # None
  PROVE  child[o] \in Reach(S)
<1>1. o \in Objects /\ child[o] \in Objects
  BY DEF Reach, TypeOK, Maybe
<1> SUFFICES ASSUME NEW C \in SUBSET Objects, S \subseteq C, Closed(C)
             PROVE  child[o] \in C
  BY <1>1 DEF Reach
<1>2. o \in C
  BY DEF Reach
<1> QED BY <1>2 DEF Closed

\* No pointer leads to an object that nobody refers to.
LEMMA NoWay ==
  ASSUME TypeOK, NEW S \in SUBSET Objects, NEW o \in Objects, o \notin S,
         \A p \in Objects : child[p] # o
  PROVE  o \notin Reach(S)
<1>1. Closed(Objects \ {o})
  BY DEF Closed, TypeOK, Maybe
<1> QED BY <1>1, ReachWithin

\* A change of what o refers to does not matter to those who cannot reach o.
LEMMA ReachKept ==
  ASSUME NEW S \in SUBSET Objects, NEW o \in Objects, o \notin Reach(S),
         \A p \in Objects : p # o => child'[p] = child[p]
  PROVE  Reach(S)' = Reach(S)
<1>1. PICK E \in SUBSET Objects : S \subseteq E /\ Closed(E) /\ o \notin E
  BY DEF Reach
<1>2. \A C \in SUBSET Objects : Closed(C) => Closed(C \cap E)'
  BY <1>1 DEF Closed
<1>3. \A C \in SUBSET Objects : Closed(C)' => Closed(C \cap E)
  BY <1>1 DEF Closed
<1>4. ASSUME NEW x \in Reach(S)'
      PROVE  x \in Reach(S)
  <2>1. x \in Objects
    BY <1>4 DEF Reach
  <2> SUFFICES ASSUME NEW C \in SUBSET Objects, S \subseteq C, Closed(C)
               PROVE  x \in C
    BY <2>1 DEF Reach
  <2>2. (C \cap E) \in SUBSET Objects /\ S \subseteq C \cap E /\ Closed(C \cap E)'
    BY <1>1, <1>2
  <2>3. \A D \in SUBSET Objects : S \subseteq D /\ Closed(D)' => x \in D
    BY <1>4 DEF Reach
  <2> QED BY <2>2, <2>3
<1>5. ASSUME NEW x \in Reach(S)
      PROVE  x \in Reach(S)'
  <2>1. x \in Objects
    BY <1>5 DEF Reach
  <2> SUFFICES ASSUME NEW C \in SUBSET Objects, S \subseteq C, Closed(C)'
               PROVE  x \in C
    BY <2>1 DEF Reach
  <2>2. (C \cap E) \in SUBSET Objects /\ S \subseteq C \cap E /\ Closed(C \cap E)
    BY <1>1, <1>3
  <2>3. \A D \in SUBSET Objects : S \subseteq D /\ Closed(D) => x \in D
    BY <1>5 DEF Reach
  <2> QED BY <2>2, <2>3
<1> QED BY <1>4, <1>5

-----------------------------------------------------------------------------
\* The places of references.
Holds(t, o) == pc[t] # "retain" /\ o \in {obj[t], arg[t]}

Places(o) ==
       ({"owned"} \X Threads \X (1 .. MaxRefs)) \cup ({"held"} \X Threads \X {0})
  \cup ({"root"} \X {o} \X {0}) \cup ({"pending"} \X Slots \X {0})
  \cup ({"child"} \X Objects \X {0})

LEMMA RefsIn ==
  ASSUME NEW o
  PROVE  /\ Refs(o) \subseteq Places(o)
         /\ \A t \in Threads : \A n \in 1 .. MaxRefs :
              <<"owned", t, n>> \in Refs(o) <=> n <= owned[t][o]
         /\ \A t \in Threads : Hand(t) \in Refs(o) <=> Holds(t, o)
         /\ <<"root", o, 0>> \in Refs(o) <=> root = o
         /\ \A i \in Slots : <<"pending", i, 0>> \in Refs(o) <=> pending[i].obj = o
         /\ \A p \in Objects : <<"child", p, 0>> \in Refs(o) <=> child[p] = o
<1>1. Refs(o) \subseteq Places(o)
  BY DEF Refs, Places
<1>2. \A t \in Threads : \A n \in 1 .. MaxRefs :
        <<"owned", t, n>> \in Refs(o) <=> n <= owned[t][o]
  BY DEF Refs
<1>3. \A t \in Threads : Hand(t) \in Refs(o) <=> Holds(t, o)
  BY DEF Refs, Hand, Holds
<1>4. <<"root", o, 0>> \in Refs(o) <=> root = o
  BY DEF Refs
<1>5. \A i \in Slots : <<"pending", i, 0>> \in Refs(o) <=> pending[i].obj = o
  BY DEF Refs
<1>6. \A p \in Objects : <<"child", p, 0>> \in Refs(o) <=> child[p] = o
  BY DEF Refs
<1> QED BY <1>1, <1>2, <1>3, <1>4, <1>5, <1>6

LEMMA RefsAre ==
  ASSUME NEW o, NEW R, R \subseteq Places(o),
         \A t \in Threads : \A n \in 1 .. MaxRefs :
           <<"owned", t, n>> \in R <=> n <= owned'[t][o],
         \A t \in Threads : Hand(t) \in R <=> Holds(t, o)',
         <<"root", o, 0>> \in R <=> root' = o,
         \A i \in Slots : <<"pending", i, 0>> \in R <=> pending'[i].obj = o,
         \A p \in Objects : <<"child", p, 0>> \in R <=> child'[p] = o
  PROVE  Refs(o)' = R
<1>1. ASSUME NEW r \in Refs(o)'
      PROVE  r \in R
  <2>1. CASE r \in {s \in {"owned"} \X Threads \X (1 .. MaxRefs) :
                      s[3] <= owned'[s[2]][o]}
    BY <2>1
  <2>2. CASE r \in {"held"} \X {t \in Threads : o \in {obj'[t], arg'[t]}
                                                  /\ pc'[t] # "retain"} \X {0}
    BY <2>2 DEF Hand, Holds
  <2>3. CASE r \in {"root"} \X ({root'} \cap {o}) \X {0}
    BY <2>3
  <2>4. CASE r \in {"pending"} \X {i \in Slots : pending'[i].obj = o} \X {0}
    BY <2>4
  <2>5. CASE r \in {"child"} \X {p \in Objects : child'[p] = o} \X {0}
    BY <2>5
  <2> QED BY <1>1, <2>1, <2>2, <2>3, <2>4, <2>5 DEF Refs
<1>2. ASSUME NEW r \in R
      PROVE  r \in Refs(o)'
  <2>1. CASE r \in {"owned"} \X Threads \X (1 .. MaxRefs)
    BY <1>2, <2>1 DEF Refs
  <2>2. CASE r \in {"held"} \X Threads \X {0}
    BY <1>2, <2>2 DEF Refs, Hand, Holds
  <2>3. CASE r \in {"root"} \X {o} \X {0}
    <3>1. r = <<"root", o, 0>>
      BY <2>3
    <3>2. o \in {root'} \cap {o}
      BY <1>2, <3>1
    <3>3. r \in {"root"} \X ({root'} \cap {o}) \X {0}
      BY <3>1, <3>2
    <3> QED BY <3>3 DEF Refs
  <2>4. CASE r \in {"pending"} \X Slots \X {0}
    BY <1>2, <2>4 DEF Refs
  <2>5. CASE r \in {"child"} \X Objects \X {0}
    BY <1>2, <2>5 DEF Refs
  <2> QED BY <1>2, <2>1, <2>2, <2>3, <2>4, <2>5 DEF Places
<1> QED BY <1>1, <1>2

\* Whoever is referred to is alive.
LEMMA RefLive ==
  ASSUME RefCountInv, NEW o \in Objects, NEW r, r \in Refs(o)
  PROVE  Live(o)
  BY DEF RefCountInv, Counted

LEMMA OwnedRef ==
  ASSUME RefCountInv, NEW t \in Threads, NEW o \in Objects, owned[t][o] > 0
  PROVE  <<"owned", t, owned[t][o]>> \in Refs(o) /\ Live(o)
<1>1. PICK n \in 1 .. MaxRefs : n = owned[t][o]
  BY DEF RefCountInv, TypeOK
<1>2. n <= owned[t][o]
  BY <1>1
<1>3. <<"owned", t, n>> \in Refs(o)
  BY <1>2, RefsIn
<1> QED BY <1>1, <1>3, RefLive

LEMMA HeldRef ==
  ASSUME RefCountInv, NEW t \in Threads, NEW o \in Objects, Holds(t, o)
  PROVE  Hand(t) \in Refs(o) /\ Live(o)
<1>1. Hand(t) \in Refs(o)
  BY RefsIn
<1> QED BY <1>1, RefLive

LEMMA ChildRef ==
  ASSUME RefCountInv, NEW p \in Objects, NEW o \in Objects, child[p] = o
  PROVE  <<"child", p, 0>> \in Refs(o) /\ Live(o) /\ Live(p)
<1>1. <<"child", p, 0>> \in Refs(o)
  BY RefsIn
<1>2. Live(p)
  BY NoneAssumption DEF RefCountInv, Counted
<1> QED BY <1>1, <1>2, RefLive

LEMMA GlobalRef ==
  ASSUME RefCountInv, NEW o \in Objects, o \in Global
  PROVE  /\ Live(o)
         /\ \/ <<"root", o, 0>> \in Refs(o)
            \/ \E i \in Slots : <<"pending", i, 0>> \in Refs(o)
<1>1. root = o \/ \E i \in Slots : pending[i].obj = o
  BY DEF Global
<1>2. \/ <<"root", o, 0>> \in Refs(o)
      \/ \E i \in Slots : <<"pending", i, 0>> \in Refs(o)
  BY <1>1, RefsIn
<1> QED BY <1>2, RefLive

LEMMA BorrowedGlobal ==
  ASSUME RefCountInv, NEW t \in Threads, NEW o \in borrowed[t]
  PROVE  o \in Objects /\ o \in Global
<1>1. o \in Objects /\ o # None
  BY NoneAssumption DEF RefCountInv, TypeOK
<1>2. root = o \/ \E i \in Slots : pending[i].obj = o
  BY DEF RefCountInv, BorrowedHeld
<1> QED BY <1>1, <1>2 DEF Global

\* An object with its only reference in a hand is out of everybody's reach.
LEMMA OnlyHand ==
  ASSUME RefCountInv, NEW o \in Objects, NEW u \in Threads, Refs(o) \subseteq {Hand(u)}
  PROVE  /\ \A t \in Threads : o \notin Reach(Pointers(t))
         /\ \A t \in Threads : o \notin Reach(borrowed[t])
         /\ \A S \in SUBSET Objects : o \notin S => o \notin Reach(S)
         /\ \A p \in Objects : child[p] # o
         /\ o \notin Global
         /\ \A t \in Threads : ~(owned[t][o] > 0)
         /\ \A t \in Threads : t # u => ~Holds(t, o)
<1>1. TypeOK
  BY DEF RefCountInv
<1>2. \A p \in Objects : child[p] # o
  BY ChildRef DEF Hand
<1>3. o \notin Global
  BY GlobalRef DEF Hand
<1>4. \A t \in Threads : ~(owned[t][o] > 0)
  BY OwnedRef DEF Hand
<1>5. \A t \in Threads : t # u => ~Holds(t, o)
  BY HeldRef DEF Hand
<1>6. \A t \in Threads : o \notin borrowed[t]
  BY <1>3, BorrowedGlobal
<1>7. \A t \in Threads : Pointers(t) \in SUBSET Objects /\ borrowed[t] \in SUBSET Objects
  BY <1>1 DEF Pointers, TypeOK
<1>8. \A t \in Threads : o \notin Pointers(t)
  BY <1>4, <1>6 DEF Pointers
<1>9. \A S \in SUBSET Objects : o \notin S => o \notin Reach(S)
  BY <1>1, <1>2, NoWay
<1> QED BY <1>2, <1>3, <1>4, <1>5, <1>6, <1>7, <1>8, <1>9

LEMMA LiveClosed ==
  ASSUME RefCountInv, NEW S, S \subseteq {o \in Objects : Live(o)}
  PROVE  Reach(S) \subseteq {o \in Objects : Live(o)}
<1>1. \A o \in Objects : child[o] \in Objects \cup {None}
  BY DEF RefCountInv, TypeOK, Maybe
<1>2. Closed({o \in Objects : Live(o)})
  BY <1>1, ChildRef DEF Closed
<1> QED BY <1>2, ReachWithin

LEMMA PointersLive ==
  ASSUME RefCountInv, NEW t \in Threads
  PROVE  Reach(Pointers(t)) \subseteq {o \in Objects : Live(o)}
<1>1. \A o \in borrowed[t] : o \in Objects /\ Live(o)
  BY BorrowedGlobal, GlobalRef
<1>2. Pointers(t) \subseteq {o \in Objects : Live(o)}
  BY <1>1, OwnedRef DEF Pointers
<1> QED BY <1>2, LiveClosed

\* The argument of a function of Object.h.
LEMMA ObjLive ==
  ASSUME RefCountInv, NEW t \in Threads, pc[t] # "run"
  PROVE  /\ obj[t] \in Objects /\ Live(obj[t])
         /\ pc[t] # "retain" => Hand(t) \in Refs(obj[t])
         /\ pc[t] = "reuse" =>
              arg[t] \in Objects /\ Live(arg[t]) /\ Hand(t) \in Refs(arg[t])
<1>1. CallInv(t) /\ obj[t] \in Maybe /\ arg[t] \in Maybe
  BY DEF RefCountInv, TypeOK
<1>2. obj[t] \in Objects /\ (pc[t] = "reuse" => arg[t] \in Objects)
  BY <1>1 DEF CallInv, Maybe
<1>3. CASE pc[t] = "retain"
  BY <1>1, <1>2, <1>3, PointersLive DEF CallInv
<1>4. CASE pc[t] # "retain"
  BY <1>2, <1>4, HeldRef DEF Holds
<1> QED BY <1>2, <1>3, <1>4

LEMMA PathLive ==
  ASSUME RefCountInv, NEW t \in Threads, NEW k \in DOMAIN path[t]
  PROVE  /\ path[t][k].obj \in Objects /\ LocalObject(path[t][k].obj)
         /\ pc[t] \in {"promote", "mark"}
         /\ k = 1 => path[t][k].obj = obj[t]
         /\ k # 1 => /\ k - 1 \in DOMAIN path[t]
                     /\ path[t][k - 1].obj \in Objects
                     /\ child[path[t][k - 1].obj] = path[t][k].obj
<1>1. path[t] \in Seq([obj : Objects, cur : Words]) /\ PathInv(t)
  BY DEF RefCountInv, TypeOK
<1>2. k \in 1 .. Len(path[t]) /\ path[t] # <<>>
  BY <1>1
<1>3. ASSUME NEW j \in DOMAIN path[t]
      PROVE  path[t][j].obj \in Objects
  <2>1. j \in 1 .. Len(path[t])
    BY <1>1
  <2>2. path[t][j] \in [obj : Objects, cur : Words]
    BY <1>1, <2>1, ElementOfSeq
  <2> QED BY <2>2
<1>4. pc[t] \in {"promote", "mark"} /\ (k = 1 => path[t][k].obj = obj[t])
  BY <1>1, <1>2 DEF PathInv
<1>5. ~word[path[t][k].obj].shared
  BY <1>1 DEF PathInv
<1>6. ASSUME k # 1
      PROVE  /\ k - 1 \in DOMAIN path[t]
             /\ child[path[t][k - 1].obj] = path[t][k].obj
  <2>1. k - 1 \in DOMAIN path[t] /\ (k - 1) + 1 = k
    BY <1>1, <1>2, <1>6
  <2> QED BY <1>1, <2>1 DEF PathInv
<1>7. Live(path[t][k].obj)
  <2>1. CASE k = 1
    BY <1>4, <2>1, ObjLive
  <2>2. CASE k # 1
    BY <1>3, <1>6, <2>2, ChildRef
  <2> QED BY <2>1, <2>2
<1> QED BY <1>3, <1>4, <1>5, <1>6, <1>7 DEF LocalObject

\* What is in the hands of t and local belongs to t.
Touches(t, o) ==
  \/ owned[t][o] > 0
  \/ o \in {obj[t], arg[t]}
  \/ \E k \in DOMAIN path[t] : path[t][k].obj = o

LEMMA TouchesOwn ==
  ASSUME NEW own, BelongTo(own), NEW t \in Threads, NEW o \in Objects,
         LocalObject(o), Touches(t, o)
  PROVE  own[o] = t
  BY DEF BelongTo, Touches

\* So does what its pointers lead to.
LEMMA ReachOwn ==
  ASSUME RefCountInv, NEW own, BelongTo(own), NEW t \in Threads,
         NEW S \in SUBSET Objects,
         \A o \in S : LocalObject(o) => own[o] = t
  PROVE  \A o \in Reach(S) : LocalObject(o) => own[o] = t
<1> DEFINE C == {o \in Objects : LocalObject(o) => own[o] = t}
<1>1. Closed(C)
  <2> SUFFICES ASSUME NEW p \in C, child[p] # None, LocalObject(child[p])
               PROVE  own[child[p]] = t
    BY DEF Closed, RefCountInv, TypeOK, Maybe
  <2>1. p \in Objects /\ child[p] \in Objects
    BY DEF RefCountInv, TypeOK, Maybe
  <2>2. Live(p)
    BY <2>1, ChildRef
  <2>3. ~word[p].shared /\ own[p] = own[child[p]]
    BY <2>1 DEF BelongTo
  <2> QED BY <2>2, <2>3 DEF LocalObject
<1>2. S \subseteq C /\ C \in SUBSET Objects
  OBVIOUS
<1> QED BY <1>1, <1>2, ReachWithin

LEMMA PointersOwn ==
  ASSUME RefCountInv, NEW own, BelongTo(own), NEW t \in Threads
  PROVE  \A o \in Reach(Pointers(t)) : LocalObject(o) => own[o] = t
<1>1. Pointers(t) \in SUBSET Objects
  BY DEF Pointers, RefCountInv, TypeOK
<1>2. \A o \in borrowed[t] : o \in Objects /\ ~LocalObject(o)
  BY BorrowedGlobal DEF BelongTo
<1>3. \A o \in Pointers(t) : LocalObject(o) => own[o] = t
  BY <1>2, TouchesOwn DEF Pointers, Touches
<1> QED BY <1>1, <1>3, ReachOwn

\* A shared object leads to shared objects only.
LEMMA ReachShared ==
  ASSUME RefCountInv, NEW S \in SUBSET Objects, \A o \in S : ~LocalObject(o)
  PROVE  \A o \in Reach(S) : ~LocalObject(o)
<1> DEFINE C == {o \in Objects : ~LocalObject(o)}
<1>1. Closed(C)
  <2> SUFFICES ASSUME NEW p \in C, child[p] # None, LocalObject(child[p])
               PROVE  FALSE
    BY DEF Closed, RefCountInv, TypeOK, Maybe
  <2>1. p \in Objects /\ child[p] \in Objects
    BY DEF RefCountInv, TypeOK, Maybe
  <2>2. Live(p)
    BY <2>1, ChildRef
  <2>3. ~word[p].shared
    BY <2>1 DEF RefCountInv, Exclusive, BelongTo
  <2> QED BY <2>2, <2>3 DEF LocalObject
<1>2. S \subseteq C /\ C \in SUBSET Objects
  OBVIOUS
<1> QED BY <1>1, <1>2, ReachWithin

-----------------------------------------------------------------------------
\* What a step of u does to the objects, and what that means for the others.
OthersKept(u) ==
  \A t \in Threads \ {u} :
    /\ owned'[t] = owned[t] /\ borrowed'[t] = borrowed[t]
    /\ pc'[t] = pc[t] /\ obj'[t] = obj[t] /\ cur'[t] = cur[t]
    /\ arg'[t] = arg[t] /\ path'[t] = path[t]

OneChild(u) ==
  \/ child' = child
  \/ \E o \in Objects, c \in Maybe :
       /\ Refs(o) \subseteq {Hand(u)} /\ c # o
       /\ child' = [child EXCEPT ![o] = c]

Effect(u) ==
  /\ OthersKept(u)
  /\ OneChild(u)
  /\ \A o \in Objects : \A t \in Threads :
       t # u /\ Refs(o) = {Hand(t)} => Refs(o)' = {Hand(t)}
  /\ \A o \in Objects : Live(o) /\ word'[o] # word[o] => Touches(u, o)
  /\ \A o \in Objects :
       word[o].shared /\ ~word'[o].shared => Refs(o) \subseteq {Hand(u)}

LEMMA SameReach ==
  ASSUME RefCountInv, NEW u \in Threads, OneChild(u), NEW S \in SUBSET Objects,
         \A o \in Objects : Refs(o) \subseteq {Hand(u)} => o \notin S
  PROVE  Reach(S)' = Reach(S)
<1>1. CASE child' = child
  BY <1>1 DEF Reach, Closed
<1>2. ASSUME NEW o \in Objects, NEW c \in Maybe, Refs(o) \subseteq {Hand(u)},
             child' = [child EXCEPT ![o] = c]
      PROVE  Reach(S)' = Reach(S)
  <2>1. o \notin Reach(S)
    BY <1>2, OnlyHand
  <2>2. \A p \in Objects : p # o => child'[p] = child[p]
    BY <1>2 DEF RefCountInv, TypeOK
  <2> QED BY <2>1, <2>2, ReachKept
<1> QED BY <1>1, <1>2 DEF OneChild

LEMMA AcyclicKept ==
  ASSUME RefCountInv, NEW u \in Threads, OneChild(u)
  PROVE  Acyclic'
<1>1. TypeOK /\ Acyclic
  BY DEF RefCountInv
<1>2. CASE child' = child
  BY <1>1, <1>2 DEF Acyclic, Reach, Closed
<1>3. ASSUME NEW o \in Objects, NEW c \in Maybe, Refs(o) \subseteq {Hand(u)},
             c # o, child' = [child EXCEPT ![o] = c]
      PROVE  Acyclic'
  <2> SUFFICES ASSUME NEW p \in Objects, NEW d, d = child'[p], d # None,
                      p \in Reach({d})'
               PROVE  FALSE
    BY DEF Acyclic
  <2>1. \A q \in Objects : child'[q] = IF q = o THEN c ELSE child[q]
    BY <1>1, <1>3 DEF TypeOK
  <2>2. d \in Objects /\ d # o
    BY <1>1, <1>3, <2>1, OnlyHand DEF TypeOK, Maybe
  <2>3. o \notin Reach({d})
    BY <1>3, <2>2, OnlyHand
  <2>4. \A q \in Objects : q # o => child'[q] = child[q]
    BY <2>1
  <2>5. Reach({d})' = Reach({d})
    BY <2>2, <2>3, <2>4, ReachKept
  <2>6. CASE p = o
    BY <2>3, <2>5, <2>6
  <2>7. CASE p # o
    BY <1>1, <2>1, <2>5, <2>7 DEF Acyclic
  <2> QED BY <2>6, <2>7
<1> QED BY <1>2, <1>3 DEF OneChild

\* A local object that belongs to t keeps its word during a step of another.
LEMMA WordKept ==
  ASSUME RefCountInv, NEW t \in Threads, NEW u \in Threads, t # u, Effect(u),
         NEW o \in Objects, LocalObject(o), Touches(t, o)
  PROVE  word'[o] = word[o]
<1>1. PICK own \in [Objects -> Threads] : BelongTo(own)
  BY DEF RefCountInv, Exclusive
<1>2. own[o] = t
  BY <1>1, TouchesOwn
<1>3. Live(o)
  BY DEF LocalObject
<1>4. word'[o] # word[o] => Touches(u, o)
  BY <1>3 DEF Effect
<1> QED BY <1>1, <1>2, <1>4, TouchesOwn

LEMMA CallKept ==
  ASSUME RefCountInv, NEW t \in Threads, NEW u \in Threads, t # u, Effect(u)
  PROVE  CallInv(t)'
<1>1. /\ TypeOK /\ CallInv(t)
      /\ owned'[t] = owned[t] /\ borrowed'[t] = borrowed[t]
      /\ pc'[t] = pc[t] /\ obj'[t] = obj[t] /\ cur'[t] = cur[t]
      /\ arg'[t] = arg[t]
  BY DEF RefCountInv, Effect, OthersKept
<1>2. ASSUME pc[t] = "retain"
      PROVE  obj'[t] \in Reach(Pointers(t))'
  <2>1. PICK S \in SUBSET Objects : S = Pointers(t)
    BY <1>1 DEF Pointers, TypeOK
  <2>2. Pointers(t)' = S
    BY <1>1, <2>1 DEF Pointers
  <2>3. \A o \in Objects : Refs(o) \subseteq {Hand(u)} => o \notin S
    BY <2>1, OnlyHand, ReachStart
  <2>4. Reach(S)' = Reach(S)
    BY <2>3, SameReach DEF Effect
  <2>5. obj[t] \in Reach(S)
    BY <1>1, <1>2, <2>1 DEF CallInv
  <2>6. Reach(Pointers(t))' = Reach(S)'
    BY <2>2 DEF Reach, Closed
  <2> QED BY <1>1, <2>4, <2>5, <2>6
<1>3. ASSUME pc[t] \in {"retain", "release", "reuse"}, ~cur[t].shared
      PROVE  word'[obj[t]] = cur[t]
  <2>1. word[obj[t]] = cur[t] /\ pc[t] # "run"
    BY <1>1, <1>3 DEF CallInv
  <2>2. obj[t] \in Objects /\ LocalObject(obj[t])
    BY <1>3, <2>1, ObjLive DEF LocalObject
  <2>3. Touches(t, obj[t])
    BY DEF Touches
  <2> QED BY <2>1, <2>2, <2>3, WordKept
<1>4. ASSUME pc[t] = "reuse", cur[t].count = 1
      PROVE  Refs(obj[t])' = {Hand(t)}
  <2>1. PICK o \in Objects : o = obj[t]
    BY <1>4, ObjLive
  <2>2. Refs(o) = {Hand(t)}
    BY <1>1, <1>4, <2>1 DEF CallInv
  <2>3. Refs(o)' = {Hand(t)}
    BY <2>2 DEF Effect
  <2>4. obj'[t] = o
    BY <1>1, <2>1
  <2> QED BY <2>3, <2>4 DEF Refs
<1> QED BY <1>1, <1>2, <1>3, <1>4 DEF CallInv, Hand

LEMMA PathKept ==
  ASSUME RefCountInv, NEW t \in Threads, NEW u \in Threads, t # u, Effect(u)
  PROVE  PathInv(t)'
<1>1. /\ TypeOK /\ PathInv(t)
      /\ pc'[t] = pc[t] /\ obj'[t] = obj[t] /\ path'[t] = path[t]
  BY DEF RefCountInv, Effect, OthersKept
<1>2. path[t] \in Seq([obj : Objects, cur : Words])
  BY <1>1 DEF TypeOK
<1>3. Hand(t) # Hand(u)
  BY DEF Hand
<1>4. ASSUME NEW k \in DOMAIN path[t]
      PROVE  /\ word'[path[t][k].obj] = word[path[t][k].obj]
             /\ ~(Refs(path[t][k].obj) \subseteq {Hand(u)})
             /\ child'[path[t][k].obj] = child[path[t][k].obj]
  <2>1. PICK o \in Objects : o = path[t][k].obj
    BY PathLive
  <2>2. LocalObject(o) /\ Touches(t, o)
    BY <2>1, PathLive DEF Touches
  <2>3. ~(Refs(o) \subseteq {Hand(u)})
    <3>1. CASE k = 1
      BY <1>3, <2>1, <3>1, PathLive, ObjLive
    <3>2. CASE k # 1
      <4>1. /\ path[t][k - 1].obj \in Objects
            /\ child[path[t][k - 1].obj] = o
        BY <2>1, <3>2, PathLive
      <4> QED BY <4>1, ChildRef DEF Hand
    <3> QED BY <3>1, <3>2
  <2>4. child'[o] = child[o]
    BY <1>1, <2>3 DEF Effect, OneChild, TypeOK
  <2> QED BY <2>1, <2>2, <2>3, <2>4, WordKept
<1>5. ASSUME NEW k \in DOMAIN path[t], NEW j \in DOMAIN path[t], j < k
      PROVE  path[t][k].obj \in Reach({child[path[t][j].obj]})'
  <2>1. j + 1 \in DOMAIN path[t]
    BY <1>2, <1>5
  <2>2. PICK c \in Objects : c = path[t][j + 1].obj
    BY <2>1, PathLive
  <2>3. child[path[t][j].obj] = c
    BY <1>1, <2>1, <2>2 DEF PathInv
  <2>4. child'[path[t][j].obj] = c
    BY <1>4, <2>3
  <2>5. \A o \in Objects : Refs(o) \subseteq {Hand(u)} => o \notin {c}
    BY <1>4, <2>1, <2>2
  <2>6. Reach({c})' = Reach({c})
    BY <2>5, SameReach DEF Effect
  <2>7. path[t][k].obj \in Reach({c})
    BY <1>1, <1>5, <2>3 DEF PathInv
  <2>8. Reach({child[path[t][j].obj]})' = Reach({c})'
    BY <1>1, <2>4 DEF Reach, Closed
  <2> QED BY <2>6, <2>7, <2>8
<1>6. ASSUME pc[t] \in {"mark", "exchange"}, word[obj[t]].shared
      PROVE  word'[obj[t]].shared
  <2>1. obj[t] \in Objects /\ Hand(t) \in Refs(obj[t])
    BY <1>6, ObjLive
  <2> QED BY <1>3, <1>6, <2>1 DEF Effect
<1>7. ASSUME pc[t] = "mark", path[t] # <<>>
      PROVE  LET c == child[path[t][Len(path[t])].obj]
             IN /\ child'[path[t][Len(path[t])].obj] = c
                /\ c = None \/ word'[c].shared
  <2>1. Len(path[t]) \in DOMAIN path[t]
    BY <1>2, <1>7
  <2>2. PICK p \in Objects : p = path[t][Len(path[t])].obj
    BY <2>1, PathLive
  <2>3. child'[p] = child[p]
    BY <1>4, <2>1, <2>2
  <2>4. child[p] = None \/ word[child[p]].shared
    BY <1>1, <1>7, <2>2 DEF PathInv
  <2>5. ASSUME child[p] # None
        PROVE  word'[child[p]].shared
    <3>1. child[p] \in Objects
      BY <1>1, <2>5 DEF TypeOK, Maybe
    <3>2. ~(Refs(child[p]) \subseteq {Hand(u)})
      BY <3>1, ChildRef DEF Hand
    <3> QED BY <2>4, <2>5, <3>1, <3>2 DEF Effect
  <2> QED BY <2>2, <2>3, <2>5
<1>8. path'[t] # <<>> => pc'[t] \in {"promote", "mark"} /\ path'[t][1].obj = obj'[t]
  BY <1>1 DEF PathInv
<1>9. \A k \in DOMAIN path'[t] :
        /\ path'[t][k].cur = word'[path'[t][k].obj]
        /\ ~path'[t][k].cur.shared
        /\ k + 1 \in DOMAIN path'[t] => child'[path'[t][k].obj] = path'[t][k + 1].obj
  BY <1>1, <1>4 DEF PathInv
<1>10. \A k, j \in DOMAIN path'[t] :
         j < k => path'[t][k].obj \in Reach({child[path[t][j].obj]})'
  BY <1>1, <1>5
<1>11. pc'[t] = "mark" =>
         IF path'[t] = <<>>
         THEN word'[obj'[t]].shared
         ELSE LET c == child'[path'[t][Len(path'[t])].obj]
              IN c = None \/ word'[c].shared
  BY <1>1, <1>6, <1>7 DEF PathInv
<1>12. pc'[t] = "exchange" => word'[obj'[t]].shared
  BY <1>1, <1>6 DEF PathInv
<1> QED BY <1>8, <1>9, <1>10, <1>11, <1>12 DEF PathInv

-----------------------------------------------------------------------------
\* The places of one object before and after a step.
LEMMA RefsSame ==
  ASSUME NEW o, \A t \in Threads : owned'[t][o] = owned[t][o],
         \A t \in Threads : Holds(t, o)' <=> Holds(t, o),
         root' = o <=> root = o,
         \A i \in Slots : pending'[i].obj = o <=> pending[i].obj = o,
         \A p \in Objects : child'[p] = o <=> child[p] = o
  PROVE  Refs(o)' = Refs(o)
<1>1. \A t \in Threads : \A n \in 1 .. MaxRefs :
        <<"owned", t, n>> \in Refs(o) <=> n <= owned'[t][o]
  BY RefsIn
<1>2. /\ Refs(o) \subseteq Places(o)
      /\ \A t \in Threads : Hand(t) \in Refs(o) <=> Holds(t, o)'
      /\ <<"root", o, 0>> \in Refs(o) <=> root' = o
      /\ \A i \in Slots : <<"pending", i, 0>> \in Refs(o) <=> pending'[i].obj = o
      /\ \A p \in Objects : <<"child", p, 0>> \in Refs(o) <=> child'[p] = o
  BY RefsIn
<1> QED BY <1>1, <1>2, RefsAre

\* A reference changes its place, but not one that another thread has in hand.
Moved(u, o, a, b) ==
  /\ a \in Refs(o) /\ b \notin Refs(o)
  /\ \A t \in Threads : t # u => a # Hand(t)
  /\ Refs(o)' = (Refs(o) \ {a}) \cup {b}

Settled(u, o) ==
  /\ Refs(o)' = Refs(o) \/ \E a, b : Moved(u, o, a, b)
  /\ life'[o] = life[o] /\ word'[o].count = word[o].count
  /\ ~Live(o) => child'[o] = child[o]

\* The parts of the invariant that are about one object, after the step.
CountedAfter(u, o) ==
  /\ IsFiniteSet(Refs(o))'
  /\ Live(o)' => word'[o].count = Cardinality(Refs(o))'
  /\ ~Live(o)' => Refs(o)' = {} /\ child'[o] = None
  /\ \A t \in Threads : t # u /\ Refs(o) = {Hand(t)} => Refs(o)' = {Hand(t)}

LEMMA SettledCounted ==
  ASSUME RefCountInv, NEW u \in Threads, NEW o \in Objects, Settled(u, o)
  PROVE  CountedAfter(u, o)
<1>1. /\ IsFiniteSet(Refs(o)) /\ (Live(o) => word[o].count = Cardinality(Refs(o)))
      /\ ~Live(o) => Refs(o) = {} /\ child[o] = None
  BY DEF RefCountInv, Counted
<1>2. /\ Live(o)' <=> Live(o)
      /\ word'[o].count = word[o].count
      /\ ~Live(o) => child'[o] = child[o]
  BY DEF Settled, Live
<1>3. CASE Refs(o)' = Refs(o)
  BY <1>1, <1>2, <1>3 DEF CountedAfter
<1>4. ASSUME NEW a, NEW b, Moved(u, o, a, b)
      PROVE  CountedAfter(u, o)
  <2>1. PICK R : R = Refs(o) \ {a}
    OBVIOUS
  <2>2. IsFiniteSet(R) /\ Cardinality(R) = Cardinality(Refs(o)) - 1
    BY <1>1, <1>4, <2>1, FS_RemoveElement DEF Moved
  <2>3. b \notin R
    BY <1>4, <2>1 DEF Moved
  <2>4. IsFiniteSet(R \cup {b}) /\ Cardinality(R \cup {b}) = Cardinality(R) + 1
    BY <2>2, <2>3, FS_AddElement
  <2>5. Cardinality(Refs(o)) \in Nat
    BY <1>1, FS_CardinalityType
  <2>6. Refs(o)' = R \cup {b} /\ Cardinality(R \cup {b}) = Cardinality(Refs(o))
    BY <1>4, <2>1, <2>2, <2>4, <2>5 DEF Moved
  <2>7. Refs(o) # {} /\ \A t \in Threads : t # u => Refs(o) # {Hand(t)}
    BY <1>4 DEF Moved
  <2> QED BY <1>1, <1>2, <2>4, <2>6, <2>7 DEF CountedAfter
<1> QED BY <1>3, <1>4 DEF Settled

\* No object in a hand: the thread is between two functions of Object.h.
LEMMA Returned ==
  ASSUME RefCountInv, NEW u \in Threads, Return(u), path' = path,
         pc[u] \notin {"promote", "mark"}
  PROVE  CallInv(u)' /\ PathInv(u)'
<1>1. TypeOK /\ PathInv(u)
  BY DEF RefCountInv
<1>2. /\ pc'[u] = "run" /\ obj'[u] = None /\ arg'[u] = None /\ path'[u] = path[u]
  BY <1>1 DEF Return, TypeOK
<1>3. path[u] = <<>>
  BY <1>1 DEF PathInv
<1>4. CallInv(u)'
  BY <1>2 DEF CallInv
<1>5. \A k \in DOMAIN path'[u] : FALSE
  BY <1>2, <1>3
<1>6. PathInv(u)'
  BY <1>2, <1>3, <1>5 DEF PathInv
<1> QED BY <1>4, <1>6

LEMMA NoPath ==
  ASSUME RefCountInv, NEW u \in Threads, path'[u] = path[u],
         pc[u] \notin {"promote", "mark"}, pc'[u] \notin {"mark", "exchange"}
  PROVE  PathInv(u)' /\ path[u] = <<>>
<1>1. path[u] = <<>>
  BY DEF RefCountInv, PathInv
<1>2. \A k \in DOMAIN path'[u] : FALSE
  BY <1>1
<1> QED BY <1>1, <1>2 DEF PathInv

\* Local objects stay in the hands that they are in.
LEMMA ExclusiveKept ==
  ASSUME NEW own \in [Objects -> Threads], BelongTo(own),
         \A o \in Objects : LocalObject(o)' =>
           /\ LocalObject(o)
           /\ o \notin Global'
           /\ \A t \in Threads : Touches(t, o)' => Touches(t, o) \/ own[o] = t
           /\ \A p \in Objects : child'[p] = o => child[p] = o /\ ~word'[p].shared
  PROVE  Exclusive'
<1>1. BelongTo(own)'
  <2> SUFFICES ASSUME NEW o \in Objects, LocalObject(o)'
               PROVE  /\ o \notin Global'
                      /\ \A p \in Objects :
                           child'[p] = o => ~word'[p].shared /\ own[p] = own[o]
                      /\ \A t \in Threads : Touches(t, o)' => own[o] = t
    BY DEF BelongTo, Touches
  <2>1. LocalObject(o)
    OBVIOUS
  <2>2. \A t \in Threads : Touches(t, o)' => own[o] = t
    BY <2>1, TouchesOwn
  <2>3. \A p \in Objects : child'[p] = o => own[p] = own[o]
    BY <2>1 DEF BelongTo
  <2> QED BY <2>2, <2>3
<1> QED BY <1>1 DEF Exclusive

LEMMA Combine ==
  ASSUME RefCountInv, NEW u \in Threads, TypeOK',
         OthersKept(u), OneChild(u),
         \A o \in Objects : CountedAfter(u, o),
         \A o \in Objects : Live(o) /\ word'[o] # word[o] => Touches(u, o),
         \A o \in Objects :
           word[o].shared /\ ~word'[o].shared => Refs(o) \subseteq {Hand(u)},
         Exclusive', BorrowedHeld', CallInv(u)', PathInv(u)'
  PROVE  RefCountInv'
<1>1. Counted'
  BY DEF Counted, CountedAfter, Live
<1>2. Acyclic'
  BY AcyclicKept
<1>3. Effect(u)
  BY DEF Effect, CountedAfter
<1>4. \A t \in Threads : CallInv(t)' /\ PathInv(t)'
  BY <1>3, CallKept, PathKept
<1> QED BY <1>1, <1>2, <1>4 DEF RefCountInv

-----------------------------------------------------------------------------
\* References that a thread owns.
LEMMA GiveOwned ==
  ASSUME TypeOK, NEW t \in Threads, NEW o \in Objects, owned[t][o] < MaxRefs,
         owned' = [owned EXCEPT ![t][o] = @ + 1]
  PROVE  /\ owned' \in [Threads -> [Objects -> 0 .. MaxRefs]]
         /\ owned'[t][o] = owned[t][o] + 1
         /\ owned[t][o] \in Nat /\ owned[t][o] + 1 \in 1 .. MaxRefs
         /\ \A p \in Objects : p # o => owned'[t][p] = owned[t][p]
         /\ \A u \in Threads : u # t => owned'[u] = owned[u]
  BY MaxRefsAssumption DEF TypeOK

LEMMA TakeOwned ==
  ASSUME TypeOK, NEW t \in Threads, NEW o \in Objects, owned[t][o] > 0,
         owned' = [owned EXCEPT ![t][o] = @ - 1]
  PROVE  /\ owned' \in [Threads -> [Objects -> 0 .. MaxRefs]]
         /\ owned'[t][o] = owned[t][o] - 1
         /\ owned[t][o] \in 1 .. MaxRefs
         /\ \A p \in Objects : p # o => owned'[t][p] = owned[t][p]
         /\ \A u \in Threads : u # t => owned'[u] = owned[u]
  BY MaxRefsAssumption DEF TypeOK

LEMMA RefsGiven ==
  ASSUME NEW o \in Objects, NEW t \in Threads, NEW n \in 1 .. MaxRefs,
         owned[t][o] = n - 1, owned'[t][o] = n,
         \A u \in Threads : u # t => owned'[u][o] = owned[u][o],
         \A u \in Threads : Holds(u, o)' <=> Holds(u, o),
         root' = root, pending' = pending,
         \A p \in Objects : child'[p] = o <=> child[p] = o
  PROVE  /\ <<"owned", t, n>> \notin Refs(o)
         /\ Refs(o)' = Refs(o) \cup {<<"owned", t, n>>}
<1>1. ~(n <= owned[t][o])
  OBVIOUS
<1>2. <<"owned", t, n>> \notin Refs(o)
  BY <1>1, RefsIn
<1>3. PICK R : R = Refs(o) \cup {<<"owned", t, n>>}
  OBVIOUS
<1>4. R \subseteq Places(o)
  <2>1. <<"owned", t, n>> \in Places(o)
    BY DEF Places
  <2>2. Refs(o) \subseteq Places(o)
    BY RefsIn
  <2> QED BY <1>3, <2>1, <2>2
<1>5. ASSUME NEW u \in Threads, NEW m \in 1 .. MaxRefs
      PROVE  <<"owned", u, m>> \in R <=> m <= owned'[u][o]
  <2>1. <<"owned", u, m>> \in Refs(o) <=> m <= owned[u][o]
    BY RefsIn
  <2>2. CASE u = t
    <3>1. m <= n <=> m <= n - 1 \/ m = n
      OBVIOUS
    <3> QED BY <1>3, <2>1, <2>2, <3>1
  <2>3. CASE u # t
    BY <1>3, <2>1, <2>3
  <2> QED BY <2>2, <2>3
<1>6. /\ \A u \in Threads : Hand(u) \in R <=> Holds(u, o)'
      /\ <<"root", o, 0>> \in R <=> root' = o
      /\ \A i \in Slots : <<"pending", i, 0>> \in R <=> pending'[i].obj = o
      /\ \A p \in Objects : <<"child", p, 0>> \in R <=> child'[p] = o
  BY <1>3, RefsIn DEF Hand
<1>7. Refs(o)' = R
  BY <1>4, <1>5, <1>6, RefsAre
<1> QED BY <1>2, <1>3, <1>7

\* The local objects when u has a new one, or takes a shared one back.
LEMMA ExclusiveNew ==
  ASSUME NEW own \in [Objects -> Threads], BelongTo(own),
         NEW u \in Threads, NEW o \in Objects,
         \A p \in Objects : p # o /\ LocalObject(p)' =>
           /\ LocalObject(p)
           /\ p \notin Global'
           /\ \A t \in Threads : Touches(t, p)' => Touches(t, p) \/ own[p] = t
           /\ \A q \in Objects :
                q # o /\ child'[q] = p => child[q] = p /\ ~word'[q].shared
           /\ child'[o] = p => own[p] = u,
         ~word'[o].shared, o \notin Global', \A q \in Objects : child'[q] # o,
         \A t \in Threads : Touches(t, o)' => t = u
  PROVE  Exclusive'
<1>1. PICK new \in [Objects -> Threads] : new = [own EXCEPT ![o] = u]
  OBVIOUS
<1>2. new[o] = u /\ \A p \in Objects : p # o => new[p] = own[p]
  BY <1>1
<1>3. BelongTo(new)'
  <2> SUFFICES ASSUME NEW p \in Objects, LocalObject(p)'
               PROVE  /\ p \notin Global'
                      /\ \A q \in Objects :
                           child'[q] = p => ~word'[q].shared /\ new[q] = new[p]
                      /\ \A t \in Threads : Touches(t, p)' => new[p] = t
    BY DEF BelongTo, Touches
  <2>1. CASE p = o
    BY <1>2, <2>1
  <2>2. CASE p # o
    <3>1. LocalObject(p)
      BY <2>2
    <3>2. \A t \in Threads : Touches(t, p)' => own[p] = t
      BY <2>2, <3>1, TouchesOwn
    <3>3. \A q \in Objects : child[q] = p => own[q] = own[p]
      BY <3>1 DEF BelongTo
    <3> QED BY <1>2, <2>2, <3>2, <3>3
  <2> QED BY <2>1, <2>2
<1> QED BY <1>3 DEF Exclusive

-----------------------------------------------------------------------------
\* Object_create.
LEMMA CreateStep ==
  ASSUME RefCountInv, NEW t \in Threads, NEW o \in Objects, Create(t, o)
  PROVE  RefCountInv'
<1>1. /\ pc[t] = "run" /\ life[o] = "unused"
      /\ life' = [life EXCEPT ![o] = "live"]
      /\ word' = [word EXCEPT ![o] = Local(1)]
      /\ owned' = [owned EXCEPT ![t][o] = @ + 1]
      /\ UNCHANGED <<child, root, pending, borrowed, pc, obj, cur, arg, path>>
  BY DEF Create, Give, opVars
<1>2. TypeOK /\ Counted /\ BorrowedHeld /\ CallInv(t) /\ PathInv(t)
  BY DEF RefCountInv
<1>3. ~Live(o) /\ Refs(o) = {}
  BY <1>1, <1>2 DEF Live, Counted
<1>4. owned[t][o] = 0 /\ owned[t][o] < MaxRefs
  <2>1. owned[t][o] \in 0 .. MaxRefs
    BY <1>2 DEF TypeOK
  <2>2. ~(owned[t][o] > 0)
    BY <1>3, OwnedRef
  <2> QED BY <2>1, <2>2, MaxRefsAssumption
<1>5. /\ owned' \in [Threads -> [Objects -> 0 .. MaxRefs]]
      /\ owned'[t][o] = 1
      /\ \A p \in Objects : p # o => owned'[t][p] = owned[t][p]
      /\ \A u \in Threads : u # t => owned'[u] = owned[u]
  <2>1. /\ owned' \in [Threads -> [Objects -> 0 .. MaxRefs]]
        /\ owned'[t][o] = owned[t][o] + 1
        /\ \A p \in Objects : p # o => owned'[t][p] = owned[t][p]
        /\ \A u \in Threads : u # t => owned'[u] = owned[u]
    BY <1>1, <1>2, <1>4, GiveOwned
  <2> QED BY <1>4, <2>1
<1>6. TypeOK'
  BY <1>1, <1>2, <1>5 DEF TypeOK, Words, Local
<1>7. OthersKept(t) /\ OneChild(t)
  BY <1>1, <1>5 DEF OthersKept, OneChild
<1>8. \A u \in Threads, p \in Objects : Holds(u, p)' <=> Holds(u, p)
  BY <1>1 DEF Holds
<1>9. /\ word'[o] = Local(1) /\ life'[o] = "live"
      /\ \A p \in Objects : p # o => word'[p] = word[p] /\ life'[p] = life[p]
  BY <1>1, <1>2 DEF TypeOK
<1>10. Refs(o)' = {<<"owned", t, 1>>}
  <2>1. PICK n \in 1 .. MaxRefs : n = 1
    BY MaxRefsAssumption
  <2>2. owned[t][o] = n - 1 /\ owned'[t][o] = n
    BY <1>4, <1>5, <2>1
  <2>3. Refs(o)' = Refs(o) \cup {<<"owned", t, n>>}
    BY <1>1, <1>5, <1>8, <2>2, RefsGiven
  <2> QED BY <1>3, <2>1, <2>3
<1>11. ASSUME NEW p \in Objects, p # o
       PROVE  Settled(t, p)
  <2>1. Refs(p)' = Refs(p)
    BY <1>1, <1>5, <1>8, <1>11, RefsSame
  <2> QED BY <1>1, <1>9, <1>11, <2>1 DEF Settled
<1>12. CountedAfter(t, o)
  <2>1. PICK R : R = {<<"owned", t, 1>>}
    OBVIOUS
  <2>2. IsFiniteSet(R) /\ Cardinality(R) = 1
    BY <2>1, FS_Singleton
  <2>3. Refs(o)' = R
    BY <1>10, <2>1
  <2>4. word'[o].count = 1 /\ Live(o)'
    BY <1>9 DEF Live, Local
  <2> QED BY <1>3, <2>2, <2>3, <2>4 DEF CountedAfter
<1>13. \A p \in Objects : CountedAfter(t, p)
  BY <1>11, <1>12, SettledCounted
<1>14. Exclusive'
  <2>1. PICK own \in [Objects -> Threads] : BelongTo(own)
    BY DEF RefCountInv, Exclusive
  <2>2. /\ \A q \in Objects : child[q] # o
        /\ o \notin Global
        /\ \A u \in Threads : ~(owned[u][o] > 0) /\ ~Holds(u, o)
    BY <1>3, OnlyHand, HeldRef
  <2>3. \A u \in Threads : o \notin {obj[u], arg[u]}
    <3>1. ASSUME NEW u \in Threads, o \in {obj[u], arg[u]}
          PROVE  FALSE
      <4>1. CallInv(u)
        BY DEF RefCountInv
      <4>2. pc[u] # "run"
        BY <3>1, <4>1, NoneAssumption DEF CallInv
      <4>3. pc[u] = "retain" \/ Holds(u, o)
        BY <3>1 DEF Holds
      <4>4. pc[u] = "retain" => o = obj[u]
        BY <3>1, <4>1, NoneAssumption DEF CallInv
      <4> QED BY <1>3, <2>2, <4>2, <4>3, <4>4, ObjLive
    <3> QED BY <3>1
  <2>4. \A u \in Threads : \A k \in DOMAIN path[u] : path[u][k].obj # o
    BY <1>3, PathLive DEF LocalObject
  <2>5. \A u \in Threads : Touches(u, o)' => u = t
    BY <1>1, <1>5, <2>2, <2>3, <2>4 DEF Touches
  <2>6. \A p \in Objects : p # o =>
          /\ LocalObject(p)' => LocalObject(p)
          /\ \A u \in Threads : Touches(u, p)' => Touches(u, p)
    BY <1>1, <1>5, <1>9 DEF LocalObject, Live, Touches
  <2>7. Global' = Global
    BY <1>1 DEF Global
  <2>8. \A p \in Objects : LocalObject(p) => p \notin Global
    BY <2>1 DEF BelongTo
  <2>9. \A p, q \in Objects : LocalObject(p) /\ child[q] = p => ~word[q].shared
    BY <2>1 DEF BelongTo
  <2>10. child[o] = None /\ child' = child
    BY <1>1, <1>2, <1>3 DEF Counted
  <2> QED BY <1>9, <2>1, <2>2, <2>5, <2>6, <2>7, <2>8, <2>9, <2>10, ExclusiveNew,
             NoneAssumption DEF Local
<1>15. BorrowedHeld' /\ CallInv(t)' /\ PathInv(t)'
  <2>1. BorrowedHeld'
    BY <1>1, <1>2 DEF BorrowedHeld
  <2>2. CallInv(t)'
    BY <1>1, <1>2 DEF CallInv
  <2>3. PathInv(t)'
    BY <1>1, NoPath
  <2> QED BY <2>1, <2>2, <2>3
<1>16. /\ \A p \in Objects : Live(p) /\ word'[p] # word[p] => Touches(t, p)
       /\ \A p \in Objects :
            word[p].shared /\ ~word'[p].shared => Refs(p) \subseteq {Hand(t)}
  BY <1>3, <1>9
<1> QED BY <1>6, <1>7, <1>13, <1>14, <1>15, <1>16, Combine

-----------------------------------------------------------------------------
\* References that change their place.
LEMMA RefsMoved ==
  ASSUME NEW o \in Objects, NEW u \in Threads, NEW a, NEW b,
         a \in Refs(o), b \notin Refs(o), b \in Places(o),
         \A t \in Threads : t # u => a # Hand(t),
         \A t \in Threads : \A n \in 1 .. MaxRefs :
           n <= owned'[t][o] <=> \/ n <= owned[t][o] /\ a # <<"owned", t, n>>
                                 \/ b = <<"owned", t, n>>,
         \A t \in Threads :
           Holds(t, o)' <=> (Holds(t, o) /\ a # Hand(t)) \/ b = Hand(t),
         root' = o <=> (root = o /\ a # <<"root", o, 0>>) \/ b = <<"root", o, 0>>,
         \A i \in Slots :
           pending'[i].obj = o <=> \/ pending[i].obj = o /\ a # <<"pending", i, 0>>
                                   \/ b = <<"pending", i, 0>>,
         \A p \in Objects :
           child'[p] = o <=> \/ child[p] = o /\ a # <<"child", p, 0>>
                             \/ b = <<"child", p, 0>>
  PROVE  Moved(u, o, a, b)
<1>1. PICK R : R = (Refs(o) \ {a}) \cup {b}
  OBVIOUS
<1>2. R \subseteq Places(o)
  <2>1. Refs(o) \subseteq Places(o)
    BY RefsIn
  <2> QED BY <1>1, <2>1
<1>3. ASSUME NEW t \in Threads, NEW n \in 1 .. MaxRefs
      PROVE  <<"owned", t, n>> \in R <=> n <= owned'[t][o]
  <2>1. <<"owned", t, n>> \in Refs(o) <=> n <= owned[t][o]
    BY RefsIn
  <2>2. n <= owned'[t][o] <=> \/ n <= owned[t][o] /\ a # <<"owned", t, n>>
                              \/ b = <<"owned", t, n>>
    OBVIOUS
  <2> QED BY <1>1, <2>1, <2>2
<1>4. \A t \in Threads : Hand(t) \in R <=> Holds(t, o)'
  BY <1>1, RefsIn
<1>5. <<"root", o, 0>> \in R <=> root' = o
  BY <1>1, RefsIn
<1>6. \A i \in Slots : <<"pending", i, 0>> \in R <=> pending'[i].obj = o
  BY <1>1, RefsIn
<1>7. \A p \in Objects : <<"child", p, 0>> \in R <=> child'[p] = o
  BY <1>1, RefsIn
<1>8. Refs(o)' = R
  BY <1>2, <1>3, <1>4, <1>5, <1>6, <1>7, RefsAre
<1> QED BY <1>1, <1>8 DEF Moved

\* From the references that t owns into its hand, ...
LEMMA IntoHand ==
  ASSUME NEW o \in Objects, NEW t \in Threads, NEW n \in 1 .. MaxRefs,
         owned[t][o] = n, owned'[t][o] = n - 1,
         \A u \in Threads : u # t => owned'[u][o] = owned[u][o],
         ~Holds(t, o), Holds(t, o)',
         \A u \in Threads : u # t => (Holds(u, o)' <=> Holds(u, o)),
         root' = root, pending' = pending, child' = child
  PROVE  \E a, b : Moved(t, o, a, b)
<1>1. PICK a, b : a = <<"owned", t, n>> /\ b = Hand(t)
  OBVIOUS
<1>2. n <= owned[t][o]
  OBVIOUS
<1>3. a \in Refs(o) /\ b \notin Refs(o)
  BY <1>1, <1>2, RefsIn
<1>4. b \in Places(o) /\ \A u \in Threads : a # Hand(u)
  BY <1>1 DEF Places, Hand
<1>5. ASSUME NEW u \in Threads, NEW m \in 1 .. MaxRefs
      PROVE  m <= owned'[u][o] <=> \/ m <= owned[u][o] /\ a # <<"owned", u, m>>
                                   \/ b = <<"owned", u, m>>
  <2>1. b # <<"owned", u, m>> /\ (a = <<"owned", u, m>> <=> u = t /\ m = n)
    BY <1>1 DEF Hand
  <2>2. m <= n - 1 <=> m <= n /\ m # n
    OBVIOUS
  <2> QED BY <2>1, <2>2
<1>6. \A u \in Threads : Holds(u, o)' <=> (Holds(u, o) /\ a # Hand(u)) \/ b = Hand(u)
  BY <1>1, <1>4 DEF Hand
<1>7. /\ a # <<"root", o, 0>> /\ b # <<"root", o, 0>>
      /\ \A i : a # <<"pending", i, 0>> /\ b # <<"pending", i, 0>>
      /\ \A p : a # <<"child", p, 0>> /\ b # <<"child", p, 0>>
  BY <1>1 DEF Hand
<1>8. Moved(t, o, a, b)
  BY <1>3, <1>4, <1>5, <1>6, <1>7, RefsMoved
<1> QED BY <1>8

\* ... and back.
LEMMA OutOfHand ==
  ASSUME NEW o \in Objects, NEW t \in Threads, NEW n \in 1 .. MaxRefs,
         owned[t][o] = n - 1, owned'[t][o] = n,
         \A u \in Threads : u # t => owned'[u][o] = owned[u][o],
         Holds(t, o), ~Holds(t, o)',
         \A u \in Threads : u # t => (Holds(u, o)' <=> Holds(u, o)),
         root' = root, pending' = pending,
         \A p \in Objects : child'[p] = o <=> child[p] = o
  PROVE  \E a, b : Moved(t, o, a, b)
<1>1. PICK a, b : b = <<"owned", t, n>> /\ a = Hand(t)
  OBVIOUS
<1>2. ~(n <= owned[t][o])
  OBVIOUS
<1>3. a \in Refs(o) /\ b \notin Refs(o)
  BY <1>1, <1>2, RefsIn
<1>4. b \in Places(o) /\ \A u \in Threads : u # t => a # Hand(u)
  BY <1>1 DEF Places, Hand
<1>5. ASSUME NEW u \in Threads, NEW m \in 1 .. MaxRefs
      PROVE  m <= owned'[u][o] <=> \/ m <= owned[u][o] /\ a # <<"owned", u, m>>
                                   \/ b = <<"owned", u, m>>
  <2>1. a # <<"owned", u, m>> /\ (b = <<"owned", u, m>> <=> u = t /\ m = n)
    BY <1>1 DEF Hand
  <2>2. m <= n <=> m <= n - 1 \/ m = n
    OBVIOUS
  <2> QED BY <2>1, <2>2
<1>6. \A u \in Threads : Holds(u, o)' <=> (Holds(u, o) /\ a # Hand(u)) \/ b = Hand(u)
  BY <1>1, <1>4 DEF Hand
<1>7. /\ a # <<"root", o, 0>> /\ b # <<"root", o, 0>>
      /\ \A i : a # <<"pending", i, 0>> /\ b # <<"pending", i, 0>>
      /\ \A p : a # <<"child", p, 0>> /\ b # <<"child", p, 0>>
  BY <1>1 DEF Hand
<1>8. Moved(t, o, a, b)
  BY <1>3, <1>4, <1>5, <1>6, <1>7, RefsMoved
<1> QED BY <1>8

\* Places other than those of threads.
Elsewhere(o) ==
       ({"root"} \X {o} \X {0}) \cup ({"pending"} \X Slots \X {0})
  \cup ({"child"} \X Objects \X {0})

\* Between a hand and a place in memory.
LEMMA HandMoved ==
  ASSUME NEW o \in Objects, NEW t \in Threads, NEW a, NEW b,
         \/ a = Hand(t) /\ Holds(t, o) /\ ~Holds(t, o)' /\ b \in Elsewhere(o)
         \/ b = Hand(t) /\ ~Holds(t, o) /\ Holds(t, o)' /\ a \in Elsewhere(o)
         \/ a \in Elsewhere(o) /\ b \in Elsewhere(o) /\ (Holds(t, o)' <=> Holds(t, o)),
         a \in Refs(o), b \notin Refs(o),
         \A u \in Threads : owned'[u][o] = owned[u][o],
         \A u \in Threads : u # t => (Holds(u, o)' <=> Holds(u, o)),
         root' = o <=> (root = o /\ a # <<"root", o, 0>>) \/ b = <<"root", o, 0>>,
         \A i \in Slots :
           pending'[i].obj = o <=> \/ pending[i].obj = o /\ a # <<"pending", i, 0>>
                                   \/ b = <<"pending", i, 0>>,
         \A p \in Objects :
           child'[p] = o <=> \/ child[p] = o /\ a # <<"child", p, 0>>
                             \/ b = <<"child", p, 0>>
  PROVE  \E x, y : Moved(t, o, x, y)
<1>1. \A x \in Elsewhere(o) :
        /\ \A u : x # Hand(u)
        /\ \A u, n : x # <<"owned", u, n>>
  BY DEF Elsewhere, Hand
<1>2. \A u, n : Hand(t) # <<"owned", u, n>>
  BY DEF Hand
<1>3. \A u : Hand(u) = Hand(t) <=> u = t
  BY DEF Hand
<1>4. Elsewhere(o) \subseteq Places(o) /\ Hand(t) \in Places(o)
  BY DEF Elsewhere, Places, Hand
<1>5. b \in Places(o) /\ \A u \in Threads : u # t => a # Hand(u)
  BY <1>1, <1>3, <1>4
<1>6. \A u \in Threads : \A n \in 1 .. MaxRefs :
        a # <<"owned", u, n>> /\ b # <<"owned", u, n>>
  BY <1>1, <1>2
<1>7. \A u \in Threads : Holds(u, o)' <=> (Holds(u, o) /\ a # Hand(u)) \/ b = Hand(u)
  BY <1>1, <1>3
<1>8. Moved(t, o, a, b)
  BY <1>5, <1>6, <1>7, RefsMoved
<1> QED BY <1>8

-----------------------------------------------------------------------------
\* Steps that change no object.
LEMMA SameHeap ==
  ASSUME RefCountInv, NEW u \in Threads,
         NEW own \in [Objects -> Threads], BelongTo(own),
         TypeOK', OthersKept(u), UNCHANGED heapVars,
         \A o \in Objects : Refs(o)' = Refs(o) \/ \E a, b : Moved(u, o, a, b),
         \A o \in Objects : LocalObject(o) => o \notin Global',
         \A o \in Objects :
           LocalObject(o) /\ Touches(u, o)' => Touches(u, o) \/ own[o] = u,
         BorrowedHeld', CallInv(u)', PathInv(u)'
  PROVE  RefCountInv'
<1>1. word' = word /\ life' = life /\ child' = child
  BY DEF heapVars
<1>2. \A o \in Objects : CountedAfter(u, o)
  BY <1>1, SettledCounted DEF Settled
<1>3. OneChild(u)
  BY <1>1 DEF OneChild
<1>4. \A o \in Objects : LocalObject(o)' <=> LocalObject(o)
  BY <1>1 DEF LocalObject, Live
<1>5. \A t \in Threads, o \in Objects : t # u => (Touches(t, o)' <=> Touches(t, o))
  BY DEF OthersKept, Touches
<1>6. \A p, q \in Objects : LocalObject(p) /\ child[q] = p => ~word[q].shared
  BY DEF BelongTo
<1>7. Exclusive'
  BY <1>1, <1>4, <1>5, <1>6, ExclusiveKept
<1> QED BY <1>1, <1>2, <1>3, <1>7, Combine

LEMMA OwnerOf ==
  ASSUME RefCountInv
  PROVE  \E own \in [Objects -> Threads] : BelongTo(own)
  BY DEF RefCountInv, Exclusive

LEMMA OtherHolds ==
  ASSUME NEW u \in Threads, OthersKept(u), NEW t \in Threads, t # u
  PROVE  /\ \A o : Holds(t, o)' <=> Holds(t, o)
         /\ owned'[t] = owned[t]
  BY DEF OthersKept, Holds

\* Object_retain: the argument is loaded.
LEMMA RetainLoadStep ==
  ASSUME RefCountInv, NEW t \in Threads, NEW o \in Objects, RetainLoad(t, o)
  PROVE  RefCountInv'
<1>1. /\ pc[t] = "run" /\ o \in Reach(Roots(t)) /\ owned[t][o] < MaxRefs
      /\ pc' = [pc EXCEPT ![t] = "retain"]
      /\ obj' = [obj EXCEPT ![t] = o]
      /\ cur' = [cur EXCEPT ![t] = word[o]]
      /\ UNCHANGED <<word, life, child, root, pending, owned, borrowed, arg, path>>
  BY DEF RetainLoad, Call, Reaches, heapVars
<1>2. TypeOK /\ BorrowedHeld /\ CallInv(t)
  BY DEF RefCountInv
<1>3. obj[t] = None /\ arg[t] = None
  BY <1>1, <1>2 DEF CallInv
<1>4. /\ pc'[t] = "retain" /\ obj'[t] = o /\ cur'[t] = word[o] /\ arg'[t] = None
      /\ path'[t] = path[t]
  BY <1>1, <1>2, <1>3 DEF TypeOK
<1>5. TypeOK'
  BY <1>1, <1>2 DEF TypeOK, Maybe
<1>6. OthersKept(t)
  BY <1>1, <1>2 DEF OthersKept, TypeOK
<1>7. o \in Reach(Pointers(t))
  <2>1. Roots(t) = Pointers(t)
    BY <1>3 DEF Roots, Pointers
  <2> QED BY <1>1, <2>1
<1>8. PICK own \in [Objects -> Threads] : BelongTo(own)
  BY OwnerOf
<1>9. LocalObject(o) => own[o] = t
  BY <1>7, <1>8, PointersOwn
<1>10. \A p \in Objects : Refs(p)' = Refs(p)
  <2>1. \A p \in Objects : ~Holds(t, p) /\ ~Holds(t, p)'
    BY <1>3, <1>4, NoneAssumption DEF Holds
  <2>2. \A u \in Threads, p \in Objects : Holds(u, p)' <=> Holds(u, p)
    BY <1>6, <2>1, OtherHolds
  <2> QED BY <1>1, <2>2, RefsSame
<1>11. \A p \in Objects : LocalObject(p) => p \notin Global'
  BY <1>1, <1>8 DEF Global, BelongTo
<1>12. \A p \in Objects :
         LocalObject(p) /\ Touches(t, p)' => Touches(t, p) \/ own[p] = t
  BY <1>1, <1>4, <1>9, NoneAssumption DEF Touches
<1>13. BorrowedHeld'
  BY <1>1, <1>2 DEF BorrowedHeld
<1>14. CallInv(t)'
  <2>1. Reach(Pointers(t))' = Reach(Pointers(t))
    BY <1>1 DEF Reach, Closed, Pointers
  <2>2. word'[obj'[t]] = cur'[t] /\ obj'[t] # None
    BY <1>1, <1>4, NoneAssumption
  <2> QED BY <1>1, <1>4, <1>7, <2>1, <2>2 DEF CallInv
<1>15. PathInv(t)'
  BY <1>1, <1>4, NoPath
<1> QED BY <1>1, <1>5, <1>6, <1>8, <1>10, <1>11, <1>12, <1>13, <1>14, <1>15, SameHeap
        DEF heapVars

\* Object_release and Var_bindRoot: a reference goes from those that the thread
\* owns into its hand.
LEMMA TakeStep ==
  ASSUME RefCountInv, NEW t \in Threads, NEW o \in Objects,
         Take(t, o), NEW f \in {"release", "promote"}, Call(t, f, o),
         UNCHANGED <<heapVars, root, pending, borrowed, arg, path>>
  PROVE  RefCountInv'
<1>1. /\ pc[t] = "run" /\ owned[t][o] > 0
      /\ owned' = [owned EXCEPT ![t][o] = @ - 1]
      /\ pc' = [pc EXCEPT ![t] = f]
      /\ obj' = [obj EXCEPT ![t] = o]
      /\ cur' = [cur EXCEPT ![t] = word[o]]
      /\ UNCHANGED <<word, life, child, root, pending, borrowed, arg, path>>
  BY DEF Take, Call, heapVars
<1>2. TypeOK /\ BorrowedHeld /\ CallInv(t)
  BY DEF RefCountInv
<1>3. obj[t] = None /\ arg[t] = None
  BY <1>1, <1>2 DEF CallInv
<1>4. /\ pc'[t] = f /\ obj'[t] = o /\ cur'[t] = word[o] /\ arg'[t] = None
      /\ path'[t] = path[t]
  BY <1>1, <1>2, <1>3 DEF TypeOK
<1>5. /\ owned' \in [Threads -> [Objects -> 0 .. MaxRefs]]
      /\ owned'[t][o] = owned[t][o] - 1
      /\ owned[t][o] \in 1 .. MaxRefs
      /\ \A p \in Objects : p # o => owned'[t][p] = owned[t][p]
      /\ \A u \in Threads : u # t => owned'[u] = owned[u]
  BY <1>1, <1>2, TakeOwned
<1>6. TypeOK'
  BY <1>1, <1>2, <1>5 DEF TypeOK, Maybe
<1>7. OthersKept(t)
  BY <1>1, <1>2, <1>5 DEF OthersKept, TypeOK
<1>8. PICK own \in [Objects -> Threads] : BelongTo(own)
  BY OwnerOf
<1>9. \A p \in Objects : ~Holds(t, p) /\ (Holds(t, p)' <=> p = o)
  BY <1>3, <1>4, NoneAssumption DEF Holds
<1>10. \E a, b : Moved(t, o, a, b)
  <2>1. PICK n \in 1 .. MaxRefs : n = owned[t][o]
    BY <1>5
  <2> QED BY <1>1, <1>5, <1>7, <1>9, <2>1, OtherHolds, IntoHand
<1>11. \A p \in Objects : p # o => Refs(p)' = Refs(p)
  <2>1. \A u \in Threads, p \in Objects : p # o => (Holds(u, p)' <=> Holds(u, p))
    BY <1>7, <1>9, OtherHolds
  <2> QED BY <1>1, <1>5, <2>1, RefsSame
<1>12. \A p \in Objects : LocalObject(p) => p \notin Global'
  BY <1>1, <1>8 DEF Global, BelongTo
<1>13. \A p \in Objects : Touches(t, p)' => Touches(t, p)
  <2>1. \A p \in Objects : p # o => owned'[t][p] = owned[t][p]
    BY <1>5
  <2> QED BY <1>1, <1>3, <1>4, <2>1, NoneAssumption DEF Touches
<1>14. BorrowedHeld'
  BY <1>1, <1>2 DEF BorrowedHeld
<1>15. CallInv(t)'
  BY <1>1, <1>4, NoneAssumption DEF CallInv
<1>16. PathInv(t)'
  BY <1>1, <1>4, NoPath
<1> QED BY <1>6, <1>7, <1>8, <1>10, <1>11, <1>12, <1>13, <1>14, <1>15, <1>16, SameHeap

-----------------------------------------------------------------------------
\* Steps that change the count of the object in hand.
LEMMA CountStep ==
  ASSUME RefCountInv, NEW t \in Threads, TypeOK', OthersKept(t),
         NEW o \in Objects, o = obj[t],
         life' = life, child' = child, root' = root, pending' = pending,
         borrowed' = borrowed,
         word'[o].shared = word[o].shared,
         \A p \in Objects : p # o => word'[p] = word[p] /\ Refs(p)' = Refs(p),
         CountedAfter(t, o),
         \A p \in Objects : Touches(t, p)' => Touches(t, p),
         CallInv(t)', PathInv(t)'
  PROVE  RefCountInv'
<1>1. PICK own \in [Objects -> Threads] : BelongTo(own)
  BY OwnerOf
<1>2. \A p \in Objects : p # o => Settled(t, p)
  BY DEF Settled
<1>3. \A p \in Objects : CountedAfter(t, p)
  BY <1>2, SettledCounted
<1>4. \A p \in Objects : word'[p].shared = word[p].shared
  OBVIOUS
<1>5. \A p \in Objects : LocalObject(p)' <=> LocalObject(p)
  BY <1>4 DEF LocalObject, Live
<1>6. \A u \in Threads, p \in Objects : Touches(u, p)' => Touches(u, p)
  BY DEF OthersKept, Touches
<1>7. \A p, q \in Objects : LocalObject(p) /\ child[q] = p => ~word[q].shared
  BY <1>1 DEF BelongTo
<1>8. \A p \in Objects : LocalObject(p) => p \notin Global'
  BY <1>1 DEF Global, BelongTo
<1>9. Exclusive'
  BY <1>1, <1>4, <1>5, <1>6, <1>7, <1>8, ExclusiveKept
<1>10. BorrowedHeld'
  BY DEF RefCountInv, BorrowedHeld
<1>11. OneChild(t)
  BY DEF OneChild
<1>12. \A p \in Objects : Live(p) /\ word'[p] # word[p] => Touches(t, p)
  BY DEF Touches
<1> QED BY <1>3, <1>4, <1>9, <1>10, <1>11, <1>12, Combine

\* Object_retain: the store counts one more than there were.
LEMMA RetainStoreStep ==
  ASSUME RefCountInv, NEW t \in Threads, RetainStore(t)
  PROVE  RefCountInv'
<1>1. pc[t] = "retain" /\ pc[t] # "run"
  BY DEF RetainStore
<1>2. PICK o \in Objects : o = obj[t] /\ Live(o)
  BY <1>1, ObjLive
<1>3. TypeOK /\ Counted /\ CallInv(t)
  BY DEF RefCountInv
<1>4. PICK w :
        /\ w = IF cur[t].shared
               THEN [count |-> word[o].count + 1, shared |-> word[o].shared]
               ELSE Local(cur[t].count + 1)
        /\ word' = [word EXCEPT ![o] = w]
        /\ owned' = [owned EXCEPT ![t][o] = @ + 1]
        /\ Return(t)
        /\ UNCHANGED <<life, child, root, pending, borrowed, path>>
  <2>1. PICK w : w = IF cur[t].shared
                     THEN [count |-> word[obj[t]].count + 1, shared |-> word[obj[t]].shared]
                     ELSE Local(cur[t].count + 1)
    OBVIOUS
  <2>2. word' = [word EXCEPT ![obj[t]] = w]
    BY <2>1 DEF RetainStore
  <2>3. /\ owned' = [owned EXCEPT ![t][obj[t]] = @ + 1]
        /\ Return(t) /\ UNCHANGED <<life, child, root, pending, borrowed, path>>
    BY DEF RetainStore, Give
  <2> QED BY <1>2, <2>1, <2>2, <2>3
<1>5. owned[t][o] < MaxRefs /\ o \in Reach(Pointers(t))
      /\ (~cur[t].shared => word[o] = cur[t])
  BY <1>1, <1>2, <1>3 DEF CallInv
<1>6. word[o] \in Words /\ cur[t] \in Words
  BY <1>3 DEF TypeOK
<1>7. /\ word'[o].count = word[o].count + 1 /\ word'[o].shared = word[o].shared
      /\ word' \in [Objects -> Words]
      /\ \A p \in Objects : p # o => word'[p] = word[p]
  <2>1. w \in Words /\ w.count = word[o].count + 1 /\ w.shared = word[o].shared
    <3>1. CASE cur[t].shared
      <4>1. w = [count |-> word[o].count + 1, shared |-> word[o].shared]
        BY <1>4, <3>1
      <4> QED BY <1>5, <1>6, <4>1 DEF Words
    <3>2. CASE ~cur[t].shared
      <4>1. w = Local(word[o].count + 1) /\ word[o] = cur[t]
        BY <1>4, <1>5, <3>2
      <4>2. word[o].shared = FALSE /\ word[o].count \in Nat
        BY <1>6, <3>2, <4>1 DEF Words
      <4>3. w.shared = FALSE /\ w.count = word[o].count + 1
        BY <4>1 DEF Local
      <4>4. w \in Words
        BY <1>5, <4>1, <4>2 DEF Words, Local
      <4> QED BY <4>2, <4>3, <4>4
    <3> QED BY <3>1, <3>2
  <2> QED BY <1>3, <1>4, <2>1 DEF TypeOK
<1>8. /\ owned' \in [Threads -> [Objects -> 0 .. MaxRefs]]
      /\ owned'[t][o] = owned[t][o] + 1
      /\ owned[t][o] \in Nat /\ owned[t][o] + 1 \in 1 .. MaxRefs
      /\ \A p \in Objects : p # o => owned'[t][p] = owned[t][p]
      /\ \A u \in Threads : u # t => owned'[u] = owned[u]
  BY <1>3, <1>4, <1>5, GiveOwned
<1>9. /\ pc'[t] = "run" /\ obj'[t] = None /\ arg'[t] = None
      /\ pc' \in [Threads -> {"run", "retain", "release", "reuse", "promote",
                              "mark", "exchange"}]
      /\ obj' \in [Threads -> Maybe] /\ arg' \in [Threads -> Maybe]
      /\ cur' \in [Threads -> Words]
      /\ \A u \in Threads : u # t =>
           pc'[u] = pc[u] /\ obj'[u] = obj[u] /\ arg'[u] = arg[u] /\ cur'[u] = cur[u]
  BY <1>3, <1>4 DEF Return, TypeOK, Maybe, Words, Local
<1>10. TypeOK'
  BY <1>3, <1>4, <1>7, <1>8, <1>9 DEF TypeOK
<1>11. OthersKept(t)
  BY <1>4, <1>8, <1>9 DEF OthersKept
<1>12. \A u \in Threads, p \in Objects : Holds(u, p)' <=> Holds(u, p)
  BY <1>1, <1>9, NoneAssumption DEF Holds
<1>13. PICK n \in 1 .. MaxRefs : n = owned[t][o] + 1
  BY <1>8
<1>14. /\ <<"owned", t, n>> \notin Refs(o)
       /\ Refs(o)' = Refs(o) \cup {<<"owned", t, n>>}
  <2>1. owned[t][o] = n - 1 /\ owned'[t][o] = n
    BY <1>8, <1>13
  <2> QED BY <1>4, <1>8, <1>12, <2>1, RefsGiven
<1>15. CountedAfter(t, o)
  <2>1. IsFiniteSet(Refs(o)) /\ word[o].count = Cardinality(Refs(o))
    BY <1>2, <1>3 DEF Counted
  <2>2. PICK R : R = Refs(o) \cup {<<"owned", t, n>>}
    OBVIOUS
  <2>3. IsFiniteSet(R) /\ Cardinality(R) = Cardinality(Refs(o)) + 1
    BY <1>14, <2>1, <2>2, FS_AddElement
  <2>4. Refs(o)' = R
    BY <1>14, <2>2
  <2>5. \A u \in Threads : Refs(o) # {Hand(u)}
    BY <1>5, OnlyHand
  <2>6. Live(o)'
    BY <1>2, <1>4 DEF Live
  <2> QED BY <1>7, <2>1, <2>3, <2>4, <2>5, <2>6 DEF CountedAfter
<1>16. \A p \in Objects : p # o => Refs(p)' = Refs(p)
  BY <1>4, <1>8, <1>12, RefsSame
<1>17. \A p \in Objects : Touches(t, p)' => Touches(t, p)
  <2>1. \A p \in Objects : p # o => owned'[t][p] = owned[t][p]
    BY <1>8
  <2> QED BY <1>2, <1>4, <1>9, <2>1, NoneAssumption DEF Touches
<1>18. CallInv(t)' /\ PathInv(t)'
  BY <1>1, <1>4, Returned
<1> QED BY <1>2, <1>4, <1>7, <1>10, <1>11, <1>15, <1>16, <1>17, <1>18, CountStep

\* The count that Object_release finds is the number of references.
LEMMA ReleaseCount ==
  ASSUME RefCountInv, NEW t \in Threads, pc[t] = "release"
  PROVE  /\ obj[t] \in Objects /\ Live(obj[t]) /\ Hand(t) \in Refs(obj[t])
         /\ CountBefore(t) = word[obj[t]].count
         /\ IsFiniteSet(Refs(obj[t]))
         /\ word[obj[t]].count = Cardinality(Refs(obj[t]))
         /\ word[obj[t]].count \in Nat \ {0}
         /\ word[obj[t]].count = 1 <=> Refs(obj[t]) = {Hand(t)}
         /\ ~cur[t].shared => word[obj[t]] = cur[t]
         /\ arg[t] = None
<1>1. obj[t] \in Objects /\ Live(obj[t]) /\ Hand(t) \in Refs(obj[t])
  BY ObjLive
<1>2. TypeOK /\ Counted /\ CallInv(t)
  BY DEF RefCountInv
<1>3. (~cur[t].shared => word[obj[t]] = cur[t]) /\ arg[t] = None
  BY <1>2 DEF CallInv
<1>4. CountBefore(t) = word[obj[t]].count
  BY <1>3 DEF CountBefore
<1>5. IsFiniteSet(Refs(obj[t])) /\ word[obj[t]].count = Cardinality(Refs(obj[t]))
  BY <1>1, <1>2 DEF Counted
<1>6. Cardinality(Refs(obj[t])) \in Nat \ {0}
  BY <1>1, <1>5, FS_CardinalityType, FS_EmptySet
<1>7. Cardinality(Refs(obj[t])) = 1 <=> Refs(obj[t]) = {Hand(t)}
  <2>1. Cardinality(Refs(obj[t])) = 1 <=> \E x : Refs(obj[t]) = {x}
    BY <1>5, FS_Singleton
  <2> QED BY <1>1, <2>1
<1> QED BY <1>1, <1>3, <1>4, <1>5, <1>6, <1>7

\* Object_release, not the last reference.
LEMMA ReleaseStoreStep ==
  ASSUME RefCountInv, NEW t \in Threads, ReleaseStore(t)
  PROVE  RefCountInv'
<1>1. pc[t] = "release"
  BY DEF ReleaseStore
<1>2. PICK o \in Objects : o = obj[t] /\ Live(o)
  BY <1>1, ReleaseCount
<1>3. TypeOK
  BY DEF RefCountInv
<1>4. PICK w :
        /\ w = IF cur[t].shared
               THEN [count |-> word[o].count - 1, shared |-> word[o].shared]
               ELSE Local(cur[t].count - 1)
        /\ word' = [word EXCEPT ![o] = w]
        /\ Return(t)
        /\ UNCHANGED <<life, child, root, pending, owned, borrowed, path>>
  <2>1. PICK w : w = IF cur[t].shared
                     THEN [count |-> word[obj[t]].count - 1, shared |-> word[obj[t]].shared]
                     ELSE Local(cur[t].count - 1)
    OBVIOUS
  <2>2. word' = [word EXCEPT ![obj[t]] = w]
    BY <2>1 DEF ReleaseStore
  <2>3. Return(t) /\ UNCHANGED <<life, child, root, pending, owned, borrowed, path>>
    BY DEF ReleaseStore
  <2> QED BY <1>2, <2>1, <2>2, <2>3
<1>5. /\ Hand(t) \in Refs(o) /\ IsFiniteSet(Refs(o))
      /\ word[o].count = Cardinality(Refs(o)) /\ word[o].count \in Nat \ {0}
      /\ ~cur[t].shared => word[o] = cur[t]
      /\ arg[t] = None
  BY <1>1, <1>2, ReleaseCount
<1>6. word[o] \in Words /\ cur[t] \in Words
  BY <1>3 DEF TypeOK
<1>7. /\ word'[o].count = word[o].count - 1 /\ word'[o].shared = word[o].shared
      /\ word' \in [Objects -> Words]
      /\ \A p \in Objects : p # o => word'[p] = word[p]
  <2>1. w \in Words /\ w.count = word[o].count - 1 /\ w.shared = word[o].shared
    <3>1. CASE cur[t].shared
      <4>1. w = [count |-> word[o].count - 1, shared |-> word[o].shared]
        BY <1>4, <3>1
      <4> QED BY <1>5, <1>6, <4>1 DEF Words
    <3>2. CASE ~cur[t].shared
      <4>1. w = Local(word[o].count - 1) /\ word[o] = cur[t]
        BY <1>4, <1>5, <3>2
      <4>2. word[o].shared = FALSE /\ word[o].count \in Nat
        BY <1>6, <3>2, <4>1 DEF Words
      <4>3. w.shared = FALSE /\ w.count = word[o].count - 1
        BY <4>1 DEF Local
      <4>4. w \in Words
        BY <1>5, <4>1, <4>2 DEF Words, Local
      <4> QED BY <4>2, <4>3, <4>4
    <3> QED BY <3>1, <3>2
  <2> QED BY <1>3, <1>4, <2>1 DEF TypeOK
<1>8. /\ pc'[t] = "run" /\ obj'[t] = None /\ arg'[t] = None
      /\ pc' \in [Threads -> {"run", "retain", "release", "reuse", "promote",
                              "mark", "exchange"}]
      /\ obj' \in [Threads -> Maybe] /\ arg' \in [Threads -> Maybe]
      /\ cur' \in [Threads -> Words]
      /\ \A u \in Threads : u # t =>
           pc'[u] = pc[u] /\ obj'[u] = obj[u] /\ arg'[u] = arg[u] /\ cur'[u] = cur[u]
  BY <1>3, <1>4 DEF Return, TypeOK, Maybe, Words, Local
<1>9. TypeOK'
  BY <1>3, <1>4, <1>7, <1>8 DEF TypeOK
<1>10. OthersKept(t)
  BY <1>4, <1>8 DEF OthersKept
<1>11. \A p \in Objects : ~Holds(t, p)' /\ (Holds(t, p) <=> p = o)
  BY <1>1, <1>2, <1>5, <1>8, NoneAssumption DEF Holds
<1>12. Refs(o)' = Refs(o) \ {Hand(t)}
  <2>1. PICK R : R = Refs(o) \ {Hand(t)}
    OBVIOUS
  <2>2. R \subseteq Places(o)
    BY <2>1, RefsIn
  <2>3. /\ \A u \in Threads : \A n \in 1 .. MaxRefs :
             <<"owned", u, n>> \in R <=> n <= owned'[u][o]
        /\ <<"root", o, 0>> \in R <=> root' = o
        /\ \A i \in Slots : <<"pending", i, 0>> \in R <=> pending'[i].obj = o
        /\ \A p \in Objects : <<"child", p, 0>> \in R <=> child'[p] = o
    BY <1>4, <2>1, RefsIn DEF Hand
  <2>4. ASSUME NEW u \in Threads
        PROVE  Hand(u) \in R <=> Holds(u, o)'
    <3>1. Hand(u) = Hand(t) <=> u = t
      BY DEF Hand
    <3> QED BY <1>10, <1>11, <2>1, <3>1, RefsIn, OtherHolds
  <2>5. Refs(o)' = R
    BY <2>2, <2>3, <2>4, RefsAre
  <2> QED BY <2>1, <2>5
<1>13. CountedAfter(t, o)
  <2>1. PICK R : R = Refs(o) \ {Hand(t)}
    OBVIOUS
  <2>2. IsFiniteSet(R) /\ Cardinality(R) = Cardinality(Refs(o)) - 1
    BY <1>5, <2>1, FS_RemoveElement
  <2>3. Refs(o)' = R
    BY <1>12, <2>1
  <2>4. \A u \in Threads : u # t => Refs(o) # {Hand(u)}
    BY <1>5 DEF Hand
  <2>5. Live(o)'
    BY <1>2, <1>4 DEF Live
  <2> QED BY <1>5, <1>7, <2>2, <2>3, <2>4, <2>5 DEF CountedAfter
<1>14. \A p \in Objects : p # o => Refs(p)' = Refs(p)
  <2>1. \A u \in Threads, p \in Objects : p # o => (Holds(u, p)' <=> Holds(u, p))
    BY <1>10, <1>11, OtherHolds
  <2> QED BY <1>4, <2>1, RefsSame
<1>15. \A p \in Objects : Touches(t, p)' => Touches(t, p)
  BY <1>4, <1>8, NoneAssumption DEF Touches
<1>16. CallInv(t)' /\ PathInv(t)'
  BY <1>1, <1>4, Returned
<1> QED BY <1>2, <1>4, <1>7, <1>9, <1>10, <1>13, <1>14, <1>15, <1>16, CountStep

-----------------------------------------------------------------------------
\* A thread after the call of a function of Object.h, and after its return.
LEMMA CallFacts ==
  ASSUME RefCountInv, NEW t \in Threads, NEW o \in Objects,
         NEW f \in {"release", "reuse", "promote"}, Call(t, f, o)
  PROVE  /\ pc[t] = "run" /\ obj[t] = None /\ arg[t] = None
         /\ pc'[t] = f /\ obj'[t] = o /\ cur'[t] = word[o]
         /\ pc' \in [Threads -> {"run", "retain", "release", "reuse", "promote",
                                 "mark", "exchange"}]
         /\ obj' \in [Threads -> Maybe] /\ cur' \in [Threads -> Words]
         /\ \A u \in Threads : u # t =>
              pc'[u] = pc[u] /\ obj'[u] = obj[u] /\ cur'[u] = cur[u]
<1>1. TypeOK /\ CallInv(t)
  BY DEF RefCountInv
<1>2. pc[t] = "run" /\ obj[t] = None /\ arg[t] = None
  BY <1>1 DEF Call, CallInv
<1> QED BY <1>1, <1>2 DEF Call, TypeOK, Maybe

LEMMA ReturnFacts ==
  ASSUME RefCountInv, NEW t \in Threads, Return(t)
  PROVE  /\ pc'[t] = "run" /\ obj'[t] = None /\ arg'[t] = None
         /\ pc' \in [Threads -> {"run", "retain", "release", "reuse", "promote",
                                 "mark", "exchange"}]
         /\ obj' \in [Threads -> Maybe] /\ arg' \in [Threads -> Maybe]
         /\ cur' \in [Threads -> Words]
         /\ \A u \in Threads : u # t =>
              pc'[u] = pc[u] /\ obj'[u] = obj[u] /\ arg'[u] = arg[u] /\ cur'[u] = cur[u]
<1>1. TypeOK
  BY DEF RefCountInv
<1> QED BY <1>1 DEF Return, TypeOK, Maybe, Words, Local

\* Var_peek.
LEMMA PeekStep ==
  ASSUME RefCountInv, NEW t \in Threads, Peek(t)
  PROVE  RefCountInv'
<1>1. /\ pc[t] = "run" /\ root # None
      /\ borrowed' = [borrowed EXCEPT ![t] = @ \cup {root}]
      /\ UNCHANGED <<word, life, child, root, pending, owned, pc, obj, cur, arg, path>>
  BY DEF Peek, heapVars, opVars
<1>2. TypeOK /\ BorrowedHeld /\ CallInv(t)
  BY DEF RefCountInv
<1>3. /\ borrowed'[t] = borrowed[t] \cup {root}
      /\ \A u \in Threads : u # t => borrowed'[u] = borrowed[u]
      /\ borrowed' \in [Threads -> SUBSET Objects]
  BY <1>1, <1>2 DEF TypeOK, Maybe
<1>4. TypeOK'
  BY <1>1, <1>2, <1>3 DEF TypeOK
<1>5. OthersKept(t)
  BY <1>1, <1>3 DEF OthersKept
<1>6. PICK own \in [Objects -> Threads] : BelongTo(own)
  BY OwnerOf
<1>7. \A p \in Objects : Refs(p)' = Refs(p)
  BY <1>1 DEF Refs
<1>8. \A p \in Objects : LocalObject(p) => p \notin Global'
  BY <1>1, <1>6 DEF Global, BelongTo
<1>9. \A p \in Objects : Touches(t, p)' => Touches(t, p)
  BY <1>1 DEF Touches
<1>10. BorrowedHeld'
  BY <1>1, <1>2, <1>3 DEF BorrowedHeld
<1>11. CallInv(t)'
  BY <1>1, <1>2 DEF CallInv
<1>12. PathInv(t)'
  BY <1>1, NoPath
<1> QED BY <1>1, <1>4, <1>5, <1>6, <1>7, <1>8, <1>9, <1>10, <1>11, <1>12, SameHeap
        DEF heapVars

\* The end of a critical section.
LEMMA QuiesceStep ==
  ASSUME RefCountInv, NEW t \in Threads, Quiesce(t)
  PROVE  RefCountInv'
<1>1. /\ pc[t] = "run"
      /\ borrowed' = [borrowed EXCEPT ![t] = {}]
      /\ pending' = [i \in Slots |-> [pending[i] EXCEPT !.wait = @ \ {t}]]
      /\ UNCHANGED <<word, life, child, root, owned, pc, obj, cur, arg, path>>
  BY DEF Quiesce, heapVars, opVars
<1>2. TypeOK /\ BorrowedHeld /\ CallInv(t)
  BY DEF RefCountInv
<1>3. /\ borrowed'[t] = {}
      /\ \A u \in Threads : u # t => borrowed'[u] = borrowed[u]
      /\ borrowed' \in [Threads -> SUBSET Objects]
  BY <1>1, <1>2 DEF TypeOK
<1>4. /\ \A i \in Slots : pending'[i].obj = pending[i].obj
      /\ \A i \in Slots : pending'[i].wait = pending[i].wait \ {t}
      /\ pending' \in [Slots -> [obj : Maybe, wait : SUBSET Threads]]
  <2>1. ASSUME NEW i \in Slots
        PROVE  /\ pending'[i].obj = pending[i].obj
               /\ pending'[i].wait = pending[i].wait \ {t}
               /\ pending'[i] \in [obj : Maybe, wait : SUBSET Threads]
    <3>1. pending[i] \in [obj : Maybe, wait : SUBSET Threads]
      BY <1>2 DEF TypeOK
    <3>2. pending'[i] = [pending[i] EXCEPT !.wait = @ \ {t}]
      BY <1>1
    <3> QED BY <3>1, <3>2
  <2>2. pending' \in [Slots -> [obj : Maybe, wait : SUBSET Threads]]
    BY <1>1, <2>1
  <2> QED BY <2>1, <2>2
<1>5. TypeOK'
  BY <1>1, <1>2, <1>3, <1>4 DEF TypeOK
<1>6. OthersKept(t)
  BY <1>1, <1>3 DEF OthersKept
<1>7. PICK own \in [Objects -> Threads] : BelongTo(own)
  BY OwnerOf
<1>8. \A u \in Threads, p \in Objects : Holds(u, p)' <=> Holds(u, p)
  BY <1>1 DEF Holds
<1>9. \A p \in Objects : Refs(p)' = Refs(p)
  BY <1>1, <1>4, <1>8, RefsSame
<1>10. \A p \in Objects : LocalObject(p) => p \notin Global'
  BY <1>1, <1>4, <1>7 DEF Global, BelongTo
<1>11. \A p \in Objects : Touches(t, p)' => Touches(t, p)
  BY <1>1 DEF Touches
<1>12. BorrowedHeld'
  <2> SUFFICES ASSUME NEW u \in Threads, NEW o \in borrowed'[u]
               PROVE  \/ root = o
                      \/ \E i \in Slots : pending'[i].obj = o /\ u \in pending'[i].wait
    BY <1>1 DEF BorrowedHeld
  <2>1. u # t /\ o \in borrowed[u]
    BY <1>3
  <2> QED BY <1>2, <1>4, <2>1 DEF BorrowedHeld
<1>13. CallInv(t)'
  BY <1>1, <1>2 DEF CallInv
<1>14. PathInv(t)'
  BY <1>1, NoPath
<1> QED BY <1>1, <1>5, <1>6, <1>7, <1>9, <1>10, <1>11, <1>12, <1>13, <1>14, SameHeap
        DEF heapVars

\* The release of a retired reference begins.
LEMMA ReclaimStep ==
  ASSUME RefCountInv, NEW t \in Threads, NEW i \in Slots, Reclaim(t, i)
  PROVE  RefCountInv'
<1>1. TypeOK /\ BorrowedHeld
  BY DEF RefCountInv
<1>2. PICK o \in Objects : o = pending[i].obj
  <2>1. pending[i].obj \in Maybe /\ pending[i].obj # None
    BY <1>1 DEF TypeOK, Reclaim
  <2> QED BY <2>1 DEF Maybe
<1>3. /\ pending[i].wait = {}
      /\ pending' = [pending EXCEPT ![i] = Free]
      /\ UNCHANGED <<word, life, child, root, owned, borrowed, arg, path>>
  BY DEF Reclaim, heapVars
<1>4. Call(t, "release", o)
  BY <1>2 DEF Reclaim
<1>5. /\ pc[t] = "run" /\ obj[t] = None /\ arg[t] = None
      /\ pc'[t] = "release" /\ obj'[t] = o /\ cur'[t] = word[o]
      /\ pc' \in [Threads -> {"run", "retain", "release", "reuse", "promote",
                              "mark", "exchange"}]
      /\ obj' \in [Threads -> Maybe] /\ cur' \in [Threads -> Words]
      /\ \A u \in Threads : u # t =>
           pc'[u] = pc[u] /\ obj'[u] = obj[u] /\ cur'[u] = cur[u]
  BY <1>4, CallFacts
<1>6. /\ pending'[i].obj = None
      /\ \A j \in Slots : j # i => pending'[j] = pending[j]
      /\ pending' \in [Slots -> [obj : Maybe, wait : SUBSET Threads]]
  BY <1>1, <1>3 DEF TypeOK, Free, Maybe
<1>7. TypeOK'
  BY <1>1, <1>3, <1>5, <1>6 DEF TypeOK
<1>8. OthersKept(t)
  BY <1>3, <1>5 DEF OthersKept
<1>9. PICK own \in [Objects -> Threads] : BelongTo(own)
  BY OwnerOf
<1>10. \A p \in Objects : ~Holds(t, p) /\ (Holds(t, p)' <=> p = o)
  BY <1>3, <1>5, NoneAssumption DEF Holds
<1>11. \E a, b : Moved(t, o, a, b)
  <2>1. PICK a, b : a = <<"pending", i, 0>> /\ b = Hand(t)
    OBVIOUS
  <2>2. a \in Refs(o) /\ b \notin Refs(o) /\ a \in Elsewhere(o)
    BY <1>2, <1>10, <2>1, RefsIn DEF Elsewhere
  <2>3. \A j \in Slots :
          pending'[j].obj = o <=> \/ pending[j].obj = o /\ a # <<"pending", j, 0>>
                                  \/ b = <<"pending", j, 0>>
    BY <1>2, <1>6, <2>1, NoneAssumption DEF Hand
  <2>4. /\ a # <<"root", o, 0>> /\ b # <<"root", o, 0>>
        /\ \A p : a # <<"child", p, 0>> /\ b # <<"child", p, 0>>
    BY <2>1 DEF Hand
  <2>5. \A u \in Threads : u # t => (Holds(u, o)' <=> Holds(u, o))
    BY <1>8, OtherHolds
  <2>6. b = Hand(t) /\ ~Holds(t, o) /\ Holds(t, o)' /\ a \in Elsewhere(o)
    BY <1>10, <2>1, <2>2
  <2> QED BY <1>3, <2>2, <2>3, <2>4, <2>5, <2>6, HandMoved
<1>12. \A p \in Objects : p # o => Refs(p)' = Refs(p)
  <2>1. \A u \in Threads, p \in Objects : p # o => (Holds(u, p)' <=> Holds(u, p))
    BY <1>8, <1>10, OtherHolds
  <2>2. \A p \in Objects : p # o =>
          \A j \in Slots : pending'[j].obj = p <=> pending[j].obj = p
    BY <1>2, <1>6, NoneAssumption
  <2> QED BY <1>3, <2>1, <2>2, RefsSame
<1>13. Global' \subseteq Global /\ o \in Global
  BY <1>2, <1>3, <1>6, NoneAssumption DEF Global
<1>14. \A p \in Objects : LocalObject(p) => p \notin Global' /\ p # o
  BY <1>9, <1>13 DEF BelongTo
<1>15. \A p \in Objects : p # o /\ Touches(t, p)' => Touches(t, p)
  BY <1>3, <1>5, NoneAssumption DEF Touches
<1>16. BorrowedHeld'
  BY <1>1, <1>3, <1>6 DEF BorrowedHeld
<1>17. CallInv(t)'
  BY <1>3, <1>5, NoneAssumption DEF CallInv
<1>18. PathInv(t)'
  BY <1>3, <1>5, NoPath
<1> QED BY <1>3, <1>7, <1>8, <1>9, <1>11, <1>12, <1>14, <1>15, <1>16, <1>17, <1>18,
           SameHeap DEF heapVars

-----------------------------------------------------------------------------
\* Autorelease.
LEMMA RetireFacts ==
  ASSUME TypeOK, NEW o \in Objects, Retire(o)
  PROVE  \E i \in Slots :
           /\ pending[i].obj = None
           /\ pending'[i].obj = o
           /\ pending'[i].wait = {t \in Threads : o \in borrowed[t]}
           /\ \A j \in Slots : j # i => pending'[j] = pending[j]
           /\ pending' \in [Slots -> [obj : Maybe, wait : SUBSET Threads]]
<1>1. PICK i \in Slots :
        /\ pending[i] = Free
        /\ pending' = [pending EXCEPT ![i] =
             [obj |-> o, wait |-> {t \in Threads : o \in borrowed[t]}]]
  BY NoneAssumption DEF Retire
<1>2. PICK e : e = [obj |-> o, wait |-> {t \in Threads : o \in borrowed[t]}]
  OBVIOUS
<1>3. e \in [obj : Maybe, wait : SUBSET Threads] /\ pending' = [pending EXCEPT ![i] = e]
  BY <1>1, <1>2 DEF Maybe
<1>4. pending[i].obj = None
  BY <1>1 DEF Free
<1> QED BY <1>2, <1>3, <1>4 DEF TypeOK

\* What was borrowed stays held when the root is retired.
LEMMA RetireHeld ==
  ASSUME BorrowedHeld, borrowed' = borrowed, NEW o \in Objects, root = o,
         NEW i \in Slots, pending[i].obj = None, pending'[i].obj = o,
         pending'[i].wait = {t \in Threads : o \in borrowed[t]},
         \A j \in Slots : j # i => pending'[j] = pending[j], TypeOK
  PROVE  BorrowedHeld'
<1> SUFFICES ASSUME NEW t \in Threads, NEW p \in borrowed[t]
             PROVE  \E j \in Slots : pending'[j].obj = p /\ t \in pending'[j].wait
  BY DEF BorrowedHeld
<1>1. CASE p = o
  BY <1>1
<1>2. CASE p # o
  <2>1. PICK j \in Slots : pending[j].obj = p /\ t \in pending[j].wait
    BY <1>2 DEF BorrowedHeld
  <2>2. j # i
    BY <2>1, NoneAssumption DEF TypeOK
  <2> QED BY <2>1, <2>2
<1> QED BY <1>1, <1>2

\* Var_unbindRoot.
LEMMA UnbindStep ==
  ASSUME RefCountInv, NEW t \in Threads, UnbindRoot(t)
  PROVE  RefCountInv'
<1>1. /\ pc[t] = "run" /\ root # None /\ root' = None
      /\ UNCHANGED <<word, life, child, owned, borrowed, pc, obj, cur, arg, path>>
  BY DEF UnbindRoot, heapVars, opVars
<1>2. TypeOK /\ BorrowedHeld /\ CallInv(t)
  BY DEF RefCountInv
<1>3. PICK o \in Objects : o = root
  BY <1>1, <1>2 DEF TypeOK, Maybe
<1>4. Retire(o)
  BY <1>3 DEF UnbindRoot
<1>5. PICK i \in Slots :
           /\ pending[i].obj = None
           /\ pending'[i].obj = o
           /\ pending'[i].wait = {u \in Threads : o \in borrowed[u]}
           /\ \A j \in Slots : j # i => pending'[j] = pending[j]
           /\ pending' \in [Slots -> [obj : Maybe, wait : SUBSET Threads]]
  BY <1>2, <1>4, RetireFacts
<1>6. TypeOK'
  BY <1>1, <1>2, <1>5 DEF TypeOK, Maybe
<1>7. OthersKept(t)
  BY <1>1 DEF OthersKept
<1>8. PICK own \in [Objects -> Threads] : BelongTo(own)
  BY OwnerOf
<1>9. \A u \in Threads, p \in Objects : Holds(u, p)' <=> Holds(u, p)
  BY <1>1 DEF Holds
<1>10. \E a, b : Moved(t, o, a, b)
  <2>1. PICK a, b : a = <<"root", o, 0>> /\ b = <<"pending", i, 0>>
    OBVIOUS
  <2>2. a \in Refs(o) /\ b \notin Refs(o) /\ a \in Elsewhere(o) /\ b \in Elsewhere(o)
    BY <1>3, <1>5, <2>1, RefsIn, NoneAssumption DEF Elsewhere
  <2>3. \A j \in Slots :
          pending'[j].obj = o <=> \/ pending[j].obj = o /\ a # <<"pending", j, 0>>
                                  \/ b = <<"pending", j, 0>>
    BY <1>5, <2>1, NoneAssumption
  <2>4. /\ b # <<"root", o, 0>>
        /\ \A p : a # <<"child", p, 0>> /\ b # <<"child", p, 0>>
    BY <2>1
  <2>5. /\ root' = o <=> (root = o /\ a # <<"root", o, 0>>) \/ b = <<"root", o, 0>>
        /\ \A u \in Threads : owned'[u][o] = owned[u][o]
    BY <1>1, <2>1, <2>4, NoneAssumption
  <2>6. \A p \in Objects :
          child'[p] = o <=> \/ child[p] = o /\ a # <<"child", p, 0>>
                            \/ b = <<"child", p, 0>>
    BY <1>1, <2>4
  <2>7. /\ Holds(t, o)' <=> Holds(t, o)
        /\ \A u \in Threads : u # t => (Holds(u, o)' <=> Holds(u, o))
    BY <1>9
  <2> QED BY <1>1, <2>1, <2>2, <2>3, <2>4, <2>5, <2>6, <2>7, HandMoved
<1>11. \A p \in Objects : p # o => Refs(p)' = Refs(p)
  <2>1. \A p \in Objects : p # o =>
          \A j \in Slots : pending'[j].obj = p <=> pending[j].obj = p
    BY <1>5, NoneAssumption
  <2> QED BY <1>1, <1>3, <1>9, <2>1, RefsSame, NoneAssumption
<1>12. Global' \subseteq Global
  BY <1>1, <1>3, <1>5 DEF Global
<1>13. \A p \in Objects : LocalObject(p) => p \notin Global'
  BY <1>8, <1>12 DEF BelongTo
<1>14. \A p \in Objects : Touches(t, p)' => Touches(t, p)
  BY <1>1 DEF Touches
<1>15. BorrowedHeld'
  BY <1>1, <1>2, <1>3, <1>5, RetireHeld
<1>16. CallInv(t)'
  BY <1>1, <1>2 DEF CallInv
<1>17. PathInv(t)'
  BY <1>1, NoPath
<1> QED BY <1>1, <1>6, <1>7, <1>8, <1>10, <1>11, <1>13, <1>14, <1>15, <1>16, <1>17,
           SameHeap DEF heapVars

\* The exchange of Var_bindRoot when there was no root, ...
LEMMA BindFirst ==
  ASSUME RefCountInv, NEW t \in Threads, NEW h \in Objects, pc[t] = "exchange",
         BindExchange(t), h = obj[t], root = None
  PROVE  /\ pending' = pending
         /\ \A p \in Objects : Refs(p)' = Refs(p) \/ \E a, b : Moved(t, p, a, b)
<1>1. /\ root' = h /\ Return(t) /\ UNCHANGED pending
      /\ UNCHANGED <<word, life, child, owned, borrowed, path>>
  BY DEF BindExchange, Retire, heapVars
<1>2. arg[t] = None
  BY DEF RefCountInv, CallInv
<1>3. /\ pc'[t] = "run" /\ obj'[t] = None /\ arg'[t] = None
      /\ \A u \in Threads : u # t =>
           pc'[u] = pc[u] /\ obj'[u] = obj[u] /\ arg'[u] = arg[u]
  BY <1>1, ReturnFacts
<1>4. /\ \A p \in Objects : ~Holds(t, p)' /\ (Holds(t, p) <=> p = h)
      /\ \A u \in Threads, p \in Objects : u # t => (Holds(u, p)' <=> Holds(u, p))
  BY <1>2, <1>3, NoneAssumption DEF Holds
<1>5. \E a, b : Moved(t, h, a, b)
  <2>1. PICK a, b : a = Hand(t) /\ b = <<"root", h, 0>>
    OBVIOUS
  <2>2. a \in Refs(h) /\ b \notin Refs(h) /\ b \in Elsewhere(h)
    BY <1>4, <2>1, RefsIn, NoneAssumption DEF Elsewhere
  <2>3. \A i : a # <<"pending", i, 0>> /\ b # <<"pending", i, 0>>
    BY <2>1 DEF Hand
  <2>4. \A p : a # <<"child", p, 0>> /\ b # <<"child", p, 0>>
    BY <2>1 DEF Hand
  <2> QED BY <1>1, <1>4, <2>1, <2>2, <2>3, <2>4, HandMoved
<1>6. \A p \in Objects : p # h => Refs(p)' = Refs(p)
  <2>1. \A p \in Objects : p # h => \A u \in Threads : Holds(u, p)' <=> Holds(u, p)
    BY <1>4
  <2> QED BY <1>1, <2>1, RefsSame, NoneAssumption
<1> QED BY <1>1, <1>5, <1>6

\* ... and when there was one, which is retired.
LEMMA BindAgain ==
  ASSUME RefCountInv, NEW t \in Threads, NEW h \in Objects, pc[t] = "exchange",
         BindExchange(t), h = obj[t], NEW r \in Objects, root = r
  PROVE  /\ BorrowedHeld'
         /\ pending' \in [Slots -> [obj : Maybe, wait : SUBSET Threads]]
         /\ \A i \in Slots : pending'[i].obj \in {r, pending[i].obj}
         /\ \A p \in Objects : Refs(p)' = Refs(p) \/ \E a, b : Moved(t, p, a, b)
<1>1. /\ root' = h /\ Return(t) /\ Retire(r)
      /\ UNCHANGED <<word, life, child, owned, borrowed, path>>
  BY DEF BindExchange, heapVars
<1>2. arg[t] = None /\ TypeOK /\ BorrowedHeld
  BY DEF RefCountInv, CallInv
<1>3. /\ pc'[t] = "run" /\ obj'[t] = None /\ arg'[t] = None
      /\ \A u \in Threads : u # t =>
           pc'[u] = pc[u] /\ obj'[u] = obj[u] /\ arg'[u] = arg[u]
  BY <1>1, ReturnFacts
<1>4. /\ \A p \in Objects : ~Holds(t, p)' /\ (Holds(t, p) <=> p = h)
      /\ \A u \in Threads, p \in Objects : u # t => (Holds(u, p)' <=> Holds(u, p))
  BY <1>2, <1>3, NoneAssumption DEF Holds
<1>5. PICK i \in Slots :
           /\ pending[i].obj = None
           /\ pending'[i].obj = r
           /\ pending'[i].wait = {u \in Threads : r \in borrowed[u]}
           /\ \A j \in Slots : j # i => pending'[j] = pending[j]
           /\ pending' \in [Slots -> [obj : Maybe, wait : SUBSET Threads]]
  BY <1>1, <1>2, RetireFacts
<1>6. BorrowedHeld'
  BY <1>1, <1>2, <1>5, RetireHeld
<1>7. \A p \in Objects : p # r =>
        \A j \in Slots : pending'[j].obj = p <=> pending[j].obj = p
  BY <1>5, NoneAssumption
<1>8. \A p \in Objects : p # h /\ p # r => Refs(p)' = Refs(p)
  <2>1. \A p \in Objects : p # h => \A u \in Threads : Holds(u, p)' <=> Holds(u, p)
    BY <1>4
  <2> QED BY <1>1, <1>7, <2>1, RefsSame
<1>9. ASSUME h # r
      PROVE  \E a, b : Moved(t, h, a, b)
  <2>1. PICK a, b : a = Hand(t) /\ b = <<"root", h, 0>>
    OBVIOUS
  <2>2. a \in Refs(h) /\ b \notin Refs(h) /\ b \in Elsewhere(h)
    BY <1>4, <1>9, <2>1, RefsIn DEF Elsewhere
  <2>3. \A j : a # <<"pending", j, 0>> /\ b # <<"pending", j, 0>>
    BY <2>1 DEF Hand
  <2>4. \A p : a # <<"child", p, 0>> /\ b # <<"child", p, 0>>
    BY <2>1 DEF Hand
  <2> QED BY <1>1, <1>4, <1>7, <1>9, <2>1, <2>2, <2>3, <2>4, HandMoved
<1>10. ASSUME NEW a, NEW b, b = <<"pending", i, 0>>,
              a = IF h = r THEN Hand(t) ELSE <<"root", r, 0>>
       PROVE  \E x, y : Moved(t, r, x, y)
  <2>1. b \notin Refs(r) /\ b \in Elsewhere(r)
    <3>1. <<"pending", i, 0>> \notin Refs(r)
      <4>1. pending[i].obj # r
        BY <1>5, NoneAssumption
      <4> QED BY <4>1, RefsIn
    <3>2. <<"pending", i, 0>> \in Elsewhere(r)
      BY DEF Elsewhere
    <3> QED BY <1>10, <3>1, <3>2
  <2>2. b # <<"root", r, 0>> /\ \A p : b # <<"child", p, 0>>
    BY <1>10
  <2>3. (\A j : a # <<"pending", j, 0>>) /\ (\A p : a # <<"child", p, 0>>)
    BY <1>10 DEF Hand
  <2>4. \A j \in Slots :
          pending'[j].obj = r <=> \/ pending[j].obj = r /\ a # <<"pending", j, 0>>
                                  \/ b = <<"pending", j, 0>>
    BY <1>5, <1>10, <2>3, NoneAssumption
  <2>5. \A u \in Threads : u # t => (Holds(u, r)' <=> Holds(u, r))
    BY <1>4
  <2>6. CASE h = r
    <3>1. a = Hand(t) /\ Holds(t, r) /\ ~Holds(t, r)' /\ a \in Refs(r)
      BY <1>4, <1>10, <2>6, RefsIn
    <3>2. a # <<"root", r, 0>> /\ root' = r
      BY <1>1, <2>6, <3>1 DEF Hand
    <3> QED BY <1>1, <2>1, <2>2, <2>3, <2>4, <2>5, <3>1, <3>2, HandMoved
  <2>7. CASE h # r
    <3>1. a = <<"root", r, 0>> /\ a \in Refs(r) /\ a \in Elsewhere(r)
      BY <1>10, <2>7, RefsIn DEF Elsewhere
    <3>2. ~Holds(t, r) /\ ~Holds(t, r)' /\ root' # r
      BY <1>1, <1>4, <2>7
    <3> QED BY <1>1, <2>1, <2>2, <2>3, <2>4, <2>5, <3>1, <3>2, HandMoved
  <2> QED BY <2>6, <2>7
<1>11. \E a, b : Moved(t, r, a, b)
  BY <1>10
<1> QED BY <1>5, <1>6, <1>8, <1>9, <1>11

LEMMA BindExchangeStep ==
  ASSUME RefCountInv, NEW t \in Threads, BindExchange(t)
  PROVE  RefCountInv'
<1>1. /\ pc[t] = "exchange" /\ root' = obj[t] /\ Return(t)
      /\ UNCHANGED <<word, life, child, owned, borrowed, path>>
  BY DEF BindExchange, heapVars
<1>2. TypeOK /\ BorrowedHeld /\ PathInv(t)
  BY DEF RefCountInv
<1>3. PICK h \in Objects : h = obj[t]
  BY <1>1, ObjLive
<1>4. /\ pc'[t] = "run" /\ obj'[t] = None /\ arg'[t] = None
      /\ pc' \in [Threads -> {"run", "retain", "release", "reuse", "promote",
                              "mark", "exchange"}]
      /\ obj' \in [Threads -> Maybe] /\ arg' \in [Threads -> Maybe]
      /\ cur' \in [Threads -> Words]
      /\ \A u \in Threads : u # t =>
           pc'[u] = pc[u] /\ obj'[u] = obj[u] /\ arg'[u] = arg[u] /\ cur'[u] = cur[u]
  BY <1>1, ReturnFacts
<1>5. /\ BorrowedHeld'
      /\ pending' \in [Slots -> [obj : Maybe, wait : SUBSET Threads]]
      /\ \A i \in Slots : pending'[i].obj \in {root, pending[i].obj}
      /\ \A p \in Objects : Refs(p)' = Refs(p) \/ \E a, b : Moved(t, p, a, b)
  <2>1. CASE root = None
    <3>1. /\ pending' = pending
          /\ \A p \in Objects : Refs(p)' = Refs(p) \/ \E a, b : Moved(t, p, a, b)
      BY <1>1, <1>3, <2>1, BindFirst
    <3>2. BorrowedHeld'
      <4>1. \A u \in Threads : \A p \in borrowed[u] : p # root
        BY <1>2, <2>1, NoneAssumption DEF TypeOK
      <4> QED BY <1>1, <1>2, <3>1, <4>1 DEF BorrowedHeld
    <3> QED BY <1>2, <3>1, <3>2 DEF TypeOK
  <2>2. CASE root # None
    <3>1. PICK r \in Objects : r = root
      BY <1>2, <2>2 DEF TypeOK, Maybe
    <3> QED BY <1>1, <1>3, <3>1, BindAgain
  <2> QED BY <2>1, <2>2
<1>6. TypeOK'
  BY <1>1, <1>2, <1>3, <1>4, <1>5 DEF TypeOK, Maybe
<1>7. OthersKept(t)
  BY <1>1, <1>4 DEF OthersKept
<1>8. PICK own \in [Objects -> Threads] : BelongTo(own)
  BY OwnerOf
<1>9. \A p \in Objects : p \in Global' => p \in Global \/ p = h
  BY <1>1, <1>3, <1>5 DEF Global
<1>10. \A p \in Objects : LocalObject(p) => p \notin Global'
  <2>1. ~LocalObject(h)
    BY <1>1, <1>2, <1>3 DEF PathInv, LocalObject
  <2> QED BY <1>8, <1>9, <2>1 DEF BelongTo
<1>11. \A p \in Objects : Touches(t, p)' => Touches(t, p)
  BY <1>1, <1>4, NoneAssumption DEF Touches
<1>12. CallInv(t)' /\ PathInv(t)'
  BY <1>1, Returned
<1> QED BY <1>1, <1>5, <1>6, <1>7, <1>8, <1>10, <1>11, <1>12, SameHeap DEF heapVars

-----------------------------------------------------------------------------
\* Nobody but the thread that holds it has anything to do with an object whose
\* only reference is in a hand.
LEMMA Untouched ==
  ASSUME RefCountInv, NEW o \in Objects, NEW u \in Threads, Refs(o) \subseteq {Hand(u)},
         NEW t \in Threads, t # u
  PROVE  ~Touches(t, o)
<1>1. /\ o \notin Reach(Pointers(t)) /\ ~(owned[t][o] > 0) /\ ~Holds(t, o)
      /\ \A p \in Objects : child[p] # o
  BY OnlyHand
<1>2. CallInv(t)
  BY DEF RefCountInv
<1>3. o \notin {obj[t], arg[t]}
  <2>1. CASE pc[t] = "retain"
    BY <1>1, <1>2, <2>1, NoneAssumption DEF CallInv
  <2>2. CASE pc[t] # "retain"
    BY <1>1, <2>2 DEF Holds
  <2> QED BY <2>1, <2>2
<1>4. \A k \in DOMAIN path[t] : path[t][k].obj # o
  BY <1>1, <1>3, PathLive
<1> QED BY <1>1, <1>3, <1>4 DEF Touches

\* What a local object refers to belongs to the same thread.
LEMMA ChildOwn ==
  ASSUME RefCountInv, NEW own, BelongTo(own), NEW t \in Threads,
         NEW o \in Objects, Touches(t, o), NEW d \in Objects, child[o] = d,
         LocalObject(d)
  PROVE  own[d] = t
<1>1. ~word[o].shared /\ own[o] = own[d]
  BY DEF BelongTo
<1>2. Live(o)
  BY ChildRef
<1>3. own[o] = t
  BY <1>1, <1>2, TouchesOwn DEF LocalObject
<1> QED BY <1>1, <1>3

\* The release of the last reference, of an object that refers to nothing ...
LEMMA DestroyRefs ==
  ASSUME RefCountInv, NEW t \in Threads, NEW o \in Objects, o = obj[t],
         Refs(o) = {Hand(t)}, OthersKept(t), owned' = owned, pending' = pending,
         root' = root, child' = [child EXCEPT ![o] = None], arg[t] = None,
         pc[t] = "release", pc'[t] # "retain", arg'[t] = None,
         obj'[t] = child[o]
  PROVE  /\ Refs(o)' = {}
         /\ \A p \in Objects : p # o => Refs(p)' = Refs(p) \/ \E a, b : Moved(t, p, a, b)
<1>1. TypeOK
  BY DEF RefCountInv
<1>2. /\ \A p \in Objects : child[p] # o
      /\ o \notin Global
      /\ \A u \in Threads : ~(owned[u][o] > 0)
      /\ \A u \in Threads : u # t => ~Holds(u, o)
  BY OnlyHand
<1>3. \A p \in Objects : child'[p] = IF p = o THEN None ELSE child[p]
  BY <1>1 DEF TypeOK
<1>4. /\ \A p \in Objects : Holds(t, p) <=> p = o
      /\ \A p \in Objects : Holds(t, p)' <=> p = child[o]
      /\ \A u \in Threads, p \in Objects : u # t => (Holds(u, p)' <=> Holds(u, p))
  <2>1. \A p \in Objects : Holds(t, p) <=> p = o
    BY NoneAssumption DEF Holds
  <2>2. \A p \in Objects : Holds(t, p)' <=> p = child[o]
    BY NoneAssumption DEF Holds
  <2> QED BY <2>1, <2>2, OtherHolds
<1>5. Refs(o)' = {}
  <2>1. PICK R : R = {}
    OBVIOUS
  <2>2. \A u \in Threads : \A n \in 1 .. MaxRefs : ~(n <= owned[u][o])
    <3>1. \A u \in Threads : owned[u][o] \in 0 .. MaxRefs
      BY <1>1 DEF TypeOK
    <3>2. \A u \in Threads : owned[u][o] = 0
      BY <1>2, <3>1, MaxRefsAssumption
    <3> QED BY <3>2
  <2>3. \A u \in Threads : ~Holds(u, o)'
    BY <1>2, <1>4
  <2>4. root' # o /\ \A i \in Slots : pending'[i].obj # o
    BY <1>2, NoneAssumption DEF Global
  <2>5. \A p \in Objects : child'[p] # o
    BY <1>2, <1>3, NoneAssumption
  <2>6. /\ R \subseteq Places(o)
        /\ \A u \in Threads : \A n \in 1 .. MaxRefs :
             <<"owned", u, n>> \in R <=> n <= owned'[u][o]
        /\ \A u \in Threads : Hand(u) \in R <=> Holds(u, o)'
        /\ <<"root", o, 0>> \in R <=> root' = o
        /\ \A i \in Slots : <<"pending", i, 0>> \in R <=> pending'[i].obj = o
        /\ \A p \in Objects : <<"child", p, 0>> \in R <=> child'[p] = o
    BY <2>1, <2>2, <2>3, <2>4, <2>5
  <2>7. Refs(o)' = R
    BY <2>6, RefsAre
  <2> QED BY <2>1, <2>7
<1>6. ASSUME NEW p \in Objects, p # o, p # child[o]
      PROVE  Refs(p)' = Refs(p)
  <2>1. \A u \in Threads : Holds(u, p)' <=> Holds(u, p)
    BY <1>4, <1>6
  <2>2. \A q \in Objects : child'[q] = p <=> child[q] = p
    BY <1>3, <1>6, NoneAssumption
  <2> QED BY <2>1, <2>2, RefsSame
<1>7. ASSUME NEW p \in Objects, p # o, p = child[o]
      PROVE  \E a, b : Moved(t, p, a, b)
  <2>1. PICK a, b : a = <<"child", o, 0>> /\ b = Hand(t)
    OBVIOUS
  <2>2. ~Holds(t, p) /\ Holds(t, p)'
    BY <1>4, <1>7
  <2>3. a \in Refs(p) /\ b \notin Refs(p) /\ a \in Elsewhere(p)
    <3>1. <<"child", o, 0>> \in Refs(p) /\ Hand(t) \notin Refs(p)
      BY <1>7, <2>2, RefsIn
    <3>2. <<"child", o, 0>> \in Elsewhere(p)
      BY DEF Elsewhere
    <3> QED BY <2>1, <3>1, <3>2
  <2>4. \A q \in Objects :
          child'[q] = p <=> \/ child[q] = p /\ a # <<"child", q, 0>>
                            \/ b = <<"child", q, 0>>
    BY <1>3, <1>7, <2>1, NoneAssumption DEF Hand
  <2>5. /\ a # <<"root", p, 0>> /\ b # <<"root", p, 0>>
        /\ \A i : a # <<"pending", i, 0>> /\ b # <<"pending", i, 0>>
    BY <2>1 DEF Hand
  <2> QED BY <1>4, <2>1, <2>2, <2>3, <2>4, <2>5, HandMoved
<1> QED BY <1>5, <1>6, <1>7

\* ... or to an object that is released next.
LEMMA ReleaseDestroyStep ==
  ASSUME RefCountInv, NEW t \in Threads, ReleaseDestroy(t)
  PROVE  RefCountInv'
<1>1. pc[t] = "release" /\ CountBefore(t) = 1
  BY DEF ReleaseDestroy
<1>2. PICK o \in Objects : o = obj[t]
  BY <1>1, ReleaseCount
<1>3. Live(o) /\ Refs(o) = {Hand(t)} /\ arg[t] = None
  BY <1>1, <1>2, ReleaseCount
<1>4. TypeOK /\ BorrowedHeld
  BY DEF RefCountInv
<1>5. /\ life' = [life EXCEPT ![o] = "dead"]
      /\ word' = [word EXCEPT ![o] = Local(0)]
      /\ child' = [child EXCEPT ![o] = None]
      /\ UNCHANGED <<root, pending, owned, borrowed, path>>
  BY <1>2 DEF ReleaseDestroy
<1>6. /\ child[o] = None => Return(t)
      /\ child[o] # None => /\ obj' = [obj EXCEPT ![t] = child[o]]
                            /\ cur' = [cur EXCEPT ![t] = word[child[o]]]
                            /\ pc' = pc /\ arg' = arg
  BY <1>2 DEF ReleaseDestroy
<1>7. /\ obj'[t] = child[o] /\ arg'[t] = None
      /\ pc'[t] = IF child[o] = None THEN "run" ELSE "release"
      /\ child[o] # None => cur'[t] = word[child[o]]
      /\ pc' \in [Threads -> {"run", "retain", "release", "reuse", "promote",
                              "mark", "exchange"}]
      /\ obj' \in [Threads -> Maybe] /\ arg' \in [Threads -> Maybe]
      /\ cur' \in [Threads -> Words]
      /\ \A u \in Threads : u # t =>
           pc'[u] = pc[u] /\ obj'[u] = obj[u] /\ arg'[u] = arg[u] /\ cur'[u] = cur[u]
  <2>1. CASE child[o] = None
    BY <1>6, <2>1, ReturnFacts
  <2>2. CASE child[o] # None
    <3>1. child[o] \in Objects
      BY <1>4, <2>2 DEF TypeOK, Maybe
    <3>2. /\ obj \in [Threads -> Maybe] /\ cur \in [Threads -> Words]
          /\ child[o] \in Maybe /\ word[child[o]] \in Words
      BY <1>4, <3>1 DEF TypeOK
    <3>3. /\ obj' = [obj EXCEPT ![t] = child[o]]
          /\ cur' = [cur EXCEPT ![t] = word[child[o]]]
          /\ pc' = pc /\ arg' = arg
      BY <1>6, <2>2
    <3>4. /\ obj'[t] = child[o] /\ cur'[t] = word[child[o]]
          /\ obj' \in [Threads -> Maybe] /\ cur' \in [Threads -> Words]
          /\ \A u \in Threads : u # t => obj'[u] = obj[u] /\ cur'[u] = cur[u]
      BY <3>2, <3>3
    <3>5. /\ pc' \in [Threads -> {"run", "retain", "release", "reuse", "promote",
                                  "mark", "exchange"}]
          /\ arg' \in [Threads -> Maybe] /\ pc'[t] = "release" /\ arg'[t] = None
      BY <1>1, <1>3, <1>4, <3>3 DEF TypeOK
    <3> QED BY <2>2, <3>3, <3>4, <3>5
  <2> QED BY <2>1, <2>2
<1>8. /\ life'[o] = "dead" /\ word'[o] = Local(0) /\ child'[o] = None
      /\ \A p \in Objects : p # o =>
           life'[p] = life[p] /\ word'[p] = word[p] /\ child'[p] = child[p]
      /\ life' \in [Objects -> {"unused", "live", "dead"}]
      /\ word' \in [Objects -> Words] /\ child' \in [Objects -> Maybe]
  BY <1>4, <1>5 DEF TypeOK, Maybe, Words, Local
<1>9. TypeOK'
  BY <1>4, <1>5, <1>7, <1>8 DEF TypeOK
<1>10. OthersKept(t)
  BY <1>5, <1>7 DEF OthersKept
<1>11. OneChild(t)
  BY <1>3, <1>5, NoneAssumption DEF OneChild, Maybe
<1>12. /\ Refs(o)' = {}
       /\ \A p \in Objects : p # o => Refs(p)' = Refs(p) \/ \E a, b : Moved(t, p, a, b)
  <2>1. pc'[t] # "retain"
    BY <1>7
  <2> QED BY <1>1, <1>2, <1>3, <1>5, <1>7, <1>10, <2>1, DestroyRefs
<1>13. CountedAfter(t, o)
  <2>1. ~Live(o)'
    BY <1>8 DEF Live
  <2>2. \A u \in Threads : u # t => Refs(o) # {Hand(u)}
    <3>1. \A u \in Threads : u # t => Hand(t) # Hand(u)
      BY DEF Hand
    <3> QED BY <1>3, <3>1
  <2>3. PICK R : R = {}
    OBVIOUS
  <2>4. IsFiniteSet(R) /\ Refs(o)' = R
    BY <1>12, <2>3, FS_EmptySet
  <2> QED BY <1>8, <1>12, <2>1, <2>2, <2>4 DEF CountedAfter
<1>14. \A p \in Objects : CountedAfter(t, p)
  <2>1. \A p \in Objects : p # o => Settled(t, p)
    BY <1>8, <1>12 DEF Settled
  <2> QED BY <1>13, <2>1, SettledCounted
<1>15. PICK own \in [Objects -> Threads] : BelongTo(own)
  BY OwnerOf
<1>16. Touches(t, o)
  BY <1>2 DEF Touches
<1>17. Exclusive'
  <2>1. \A p \in Objects : LocalObject(p)' => p # o /\ LocalObject(p)
    BY <1>8 DEF LocalObject, Live
  <2>2. Global' = Global
    BY <1>5 DEF Global
  <2>3. \A p \in Objects : LocalObject(p) => p \notin Global
    BY <1>15 DEF BelongTo
  <2>4. \A p \in Objects : LocalObject(p) =>
          \A u \in Threads : Touches(u, p)' => Touches(u, p) \/ own[p] = u
    <3> SUFFICES ASSUME NEW p \in Objects, LocalObject(p), NEW u \in Threads,
                        Touches(u, p)', ~Touches(u, p)
                 PROVE  own[p] = u
      OBVIOUS
    <3>1. u = t /\ p = child[o]
      BY <1>5, <1>7, NoneAssumption DEF Touches
    <3> QED BY <1>15, <1>16, <3>1, ChildOwn
  <2>5. \A p, q \in Objects : LocalObject(p) /\ child'[q] = p =>
          child[q] = p /\ ~word'[q].shared
    <3> SUFFICES ASSUME NEW p \in Objects, NEW q \in Objects, LocalObject(p),
                        child'[q] = p
                 PROVE  child[q] = p /\ ~word'[q].shared
      OBVIOUS
    <3>1. q # o
      BY <1>8, NoneAssumption
    <3> QED BY <1>8, <1>15, <3>1 DEF BelongTo
  <2> QED BY <1>15, <2>1, <2>2, <2>3, <2>4, <2>5, ExclusiveKept
<1>18. BorrowedHeld'
  BY <1>4, <1>5 DEF BorrowedHeld
<1>19. CallInv(t)'
  <2>1. CASE child[o] = None
    BY <1>7, <2>1, NoneAssumption DEF CallInv
  <2>2. CASE child[o] # None
    <3>1. child[o] \in Objects
      BY <1>4, <2>2 DEF TypeOK, Maybe
    <3>2. child[o] # o
      BY <1>3, OnlyHand
    <3>3. /\ pc'[t] = "release" /\ obj'[t] # None /\ arg'[t] = None
          /\ word'[obj'[t]] = cur'[t]
      BY <1>7, <1>8, <2>2, <3>1, <3>2
    <3> QED BY <3>3 DEF CallInv
  <2> QED BY <2>1, <2>2
<1>20. PathInv(t)'
  BY <1>1, <1>5, <1>7, NoPath
<1>21. /\ \A p \in Objects : Live(p) /\ word'[p] # word[p] => Touches(t, p)
       /\ \A p \in Objects :
            word[p].shared /\ ~word'[p].shared => Refs(p) \subseteq {Hand(t)}
  BY <1>3, <1>8, <1>16
<1> QED BY <1>9, <1>10, <1>11, <1>14, <1>17, <1>18, <1>19, <1>20, <1>21, Combine

-----------------------------------------------------------------------------
\* Object_create of an object that takes over a reference.
LEMMA WrapOwned ==
  ASSUME TypeOK, NEW t \in Threads, NEW o \in Objects, NEW c \in Objects, o # c,
         owned[t][o] = 0, owned[t][c] > 0,
         owned' = [owned EXCEPT ![t][o] = @ + 1, ![t][c] = @ - 1]
  PROVE  /\ owned' \in [Threads -> [Objects -> 0 .. MaxRefs]]
         /\ owned'[t][o] = 1 /\ owned'[t][c] = owned[t][c] - 1
         /\ owned[t][c] \in 1 .. MaxRefs
         /\ \A p \in Objects : p # o /\ p # c => owned'[t][p] = owned[t][p]
         /\ \A u \in Threads : u # t => owned'[u] = owned[u]
  BY MaxRefsAssumption DEF TypeOK

LEMMA WrapStep ==
  ASSUME RefCountInv, NEW t \in Threads, NEW o \in Objects, NEW c \in Objects,
         Wrap(t, o, c)
  PROVE  RefCountInv'
<1>1. /\ pc[t] = "run" /\ life[o] = "unused" /\ owned[t][c] > 0
      /\ life' = [life EXCEPT ![o] = "live"]
      /\ word' = [word EXCEPT ![o] = Local(1)]
      /\ child' = [child EXCEPT ![o] = c]
      /\ owned' = [owned EXCEPT ![t][o] = @ + 1, ![t][c] = @ - 1]
      /\ UNCHANGED <<root, pending, borrowed, pc, obj, cur, arg, path>>
  BY DEF Wrap, opVars
<1>2. TypeOK /\ Counted /\ BorrowedHeld /\ CallInv(t)
  BY DEF RefCountInv
<1>3. ~Live(o) /\ Refs(o) = {} /\ child[o] = None
  BY <1>1, <1>2 DEF Live, Counted
<1>4. o # c
  BY <1>1, <1>3, OwnedRef
<1>5. owned[t][o] = 0
  <2>1. owned[t][o] \in 0 .. MaxRefs
    BY <1>2 DEF TypeOK
  <2>2. ~(owned[t][o] > 0)
    BY <1>3, OwnedRef
  <2> QED BY <2>1, <2>2, MaxRefsAssumption
<1>6. /\ owned' \in [Threads -> [Objects -> 0 .. MaxRefs]]
      /\ owned'[t][o] = 1 /\ owned'[t][c] = owned[t][c] - 1
      /\ owned[t][c] \in 1 .. MaxRefs
      /\ \A p \in Objects : p # o /\ p # c => owned'[t][p] = owned[t][p]
      /\ \A u \in Threads : u # t => owned'[u] = owned[u]
  BY <1>1, <1>2, <1>4, <1>5, WrapOwned
<1>7. /\ life'[o] = "live" /\ word'[o] = Local(1) /\ child'[o] = c
      /\ \A p \in Objects : p # o =>
           life'[p] = life[p] /\ word'[p] = word[p] /\ child'[p] = child[p]
      /\ life' \in [Objects -> {"unused", "live", "dead"}]
      /\ word' \in [Objects -> Words] /\ child' \in [Objects -> Maybe]
  BY <1>1, <1>2 DEF TypeOK, Maybe, Words, Local
<1>8. TypeOK'
  BY <1>1, <1>2, <1>6, <1>7 DEF TypeOK
<1>9. OthersKept(t)
  BY <1>1, <1>6 DEF OthersKept
<1>10. OneChild(t)
  BY <1>1, <1>3, <1>4 DEF OneChild, Maybe
<1>11. \A u \in Threads, p \in Objects : Holds(u, p)' <=> Holds(u, p)
  BY <1>1 DEF Holds
<1>12. Refs(o)' = {<<"owned", t, 1>>}
  <2>1. PICK n \in 1 .. MaxRefs : n = 1
    BY MaxRefsAssumption
  <2>2. owned[t][o] = n - 1 /\ owned'[t][o] = n
    BY <1>5, <1>6, <2>1
  <2>3. \A p \in Objects : child'[p] = o <=> child[p] = o
    BY <1>3, <1>4, <1>7, NoneAssumption
  <2>4. Refs(o)' = Refs(o) \cup {<<"owned", t, n>>}
    BY <1>1, <1>6, <1>11, <2>2, <2>3, RefsGiven
  <2> QED BY <1>3, <2>1, <2>4
<1>13. \E a, b : Moved(t, c, a, b)
  <2>1. PICK n \in 1 .. MaxRefs : n = owned[t][c]
    BY <1>6
  <2>2. PICK a, b : a = <<"owned", t, n>> /\ b = <<"child", o, 0>>
    OBVIOUS
  <2>3. a \in Refs(c) /\ b \notin Refs(c) /\ b \in Places(c)
    <3>1. n <= owned[t][c] /\ child[o] # c
      BY <1>3, <2>1, NoneAssumption
    <3>2. <<"owned", t, n>> \in Refs(c) /\ <<"child", o, 0>> \notin Refs(c)
      BY <3>1, RefsIn
    <3>3. <<"child", o, 0>> \in Places(c)
      BY DEF Places
    <3> QED BY <2>2, <3>2, <3>3
  <2>4. ASSUME NEW u \in Threads, NEW m \in 1 .. MaxRefs
        PROVE  m <= owned'[u][c] <=> \/ m <= owned[u][c] /\ a # <<"owned", u, m>>
                                     \/ b = <<"owned", u, m>>
    <3>1. b # <<"owned", u, m>> /\ (a = <<"owned", u, m>> <=> u = t /\ m = n)
      BY <2>2
    <3>2. m <= n - 1 <=> m <= n /\ m # n
      OBVIOUS
    <3> QED BY <1>6, <2>1, <3>1, <3>2
  <2>5. /\ \A u : a # Hand(u) /\ b # Hand(u)
        /\ a # <<"root", c, 0>> /\ b # <<"root", c, 0>>
        /\ \A i : a # <<"pending", i, 0>> /\ b # <<"pending", i, 0>>
        /\ \A p : a # <<"child", p, 0>>
    BY <2>2 DEF Hand
  <2>6. \A p \in Objects : child'[p] = c <=> child[p] = c \/ b = <<"child", p, 0>>
    BY <1>7, <2>2
  <2>7. Moved(t, c, a, b)
    BY <1>1, <1>11, <2>3, <2>4, <2>5, <2>6, RefsMoved
  <2> QED BY <2>7
<1>14. ASSUME NEW p \in Objects, p # o
       PROVE  Settled(t, p)
  <2>1. CASE p = c
    BY <1>7, <1>13, <1>14, <2>1 DEF Settled
  <2>2. CASE p # c
    <3>1. \A q \in Objects : child'[q] = p <=> child[q] = p
      BY <1>3, <1>7, <1>14, <2>2, NoneAssumption
    <3>2. Refs(p)' = Refs(p)
      BY <1>1, <1>6, <1>11, <1>14, <2>2, <3>1, RefsSame
    <3> QED BY <1>7, <1>14, <3>2 DEF Settled
  <2> QED BY <2>1, <2>2
<1>15. CountedAfter(t, o)
  <2>1. PICK R : R = {<<"owned", t, 1>>}
    OBVIOUS
  <2>2. IsFiniteSet(R) /\ Cardinality(R) = 1
    BY <2>1, FS_Singleton
  <2>3. Refs(o)' = R
    BY <1>12, <2>1
  <2>4. word'[o].count = 1 /\ Live(o)'
    BY <1>7 DEF Live, Local
  <2> QED BY <1>3, <2>2, <2>3, <2>4 DEF CountedAfter
<1>16. \A p \in Objects : CountedAfter(t, p)
  BY <1>14, <1>15, SettledCounted
<1>17. PICK own \in [Objects -> Threads] : BelongTo(own)
  BY OwnerOf
<1>18. Exclusive'
  <2>1. /\ \A q \in Objects : child[q] # o
        /\ o \notin Global
    BY <1>3, OnlyHand
  <2>2. \A q \in Objects : child'[q] # o
    BY <1>4, <1>7, <2>1
  <2>3. \A u \in Threads : u # t => ~Touches(u, o)
    BY <1>3, Untouched
  <2>4. \A u \in Threads : Touches(u, o)' => u = t
    BY <1>1, <1>6, <2>3 DEF Touches
  <2>5. Global' = Global
    BY <1>1 DEF Global
  <2>6. ASSUME NEW p \in Objects, p # o, LocalObject(p)'
        PROVE  /\ LocalObject(p) /\ p \notin Global
               /\ \A u \in Threads : Touches(u, p)' => Touches(u, p)
               /\ \A q \in Objects :
                    q # o /\ child'[q] = p => child[q] = p /\ ~word'[q].shared
               /\ child'[o] = p => own[p] = t
    <3>1. LocalObject(p)
      BY <1>7, <2>6 DEF LocalObject, Live
    <3>2. p \notin Global /\ \A q \in Objects : child[q] = p => ~word[q].shared
      BY <1>17, <3>1 DEF BelongTo
    <3>3. \A u \in Threads : Touches(u, p)' => Touches(u, p)
      <4>1. \A u \in Threads : owned'[u][p] > 0 => owned[u][p] > 0
        BY <1>1, <1>6, <2>6
      <4> QED BY <1>1, <4>1 DEF Touches
    <3>4. child'[o] = p => own[p] = t
      <4>1. Touches(t, c)
        BY <1>1 DEF Touches
      <4> QED BY <1>7, <1>17, <3>1, <4>1, TouchesOwn
    <3> QED BY <1>7, <3>1, <3>2, <3>3, <3>4
  <2>7. word'[o].shared = FALSE
    BY <1>7 DEF Local
  <2> QED BY <1>17, <2>1, <2>2, <2>4, <2>5, <2>6, <2>7, ExclusiveNew
<1>19. BorrowedHeld' /\ CallInv(t)' /\ PathInv(t)'
  <2>1. BorrowedHeld'
    BY <1>1, <1>2 DEF BorrowedHeld
  <2>2. CallInv(t)'
    BY <1>1, <1>2 DEF CallInv
  <2>3. PathInv(t)'
    BY <1>1, NoPath
  <2> QED BY <2>1, <2>2, <2>3
<1>20. /\ \A p \in Objects : Live(p) /\ word'[p] # word[p] => Touches(t, p)
       /\ \A p \in Objects :
            word[p].shared /\ ~word'[p].shared => Refs(p) \subseteq {Hand(t)}
  BY <1>3, <1>7
<1> QED BY <1>8, <1>9, <1>10, <1>16, <1>18, <1>19, <1>20, Combine

-----------------------------------------------------------------------------
\* Object_isReusable: two references go into the hand ...
LEMMA PairTaken ==
  ASSUME TypeOK, NEW t \in Threads, NEW o \in Objects, NEW c \in Objects, o # c,
         owned[t][o] > 0, owned[t][c] > 0,
         owned' = [owned EXCEPT ![t][o] = @ - 1, ![t][c] = @ - 1]
  PROVE  /\ owned' \in [Threads -> [Objects -> 0 .. MaxRefs]]
         /\ owned'[t][o] = owned[t][o] - 1 /\ owned'[t][c] = owned[t][c] - 1
         /\ owned[t][o] \in 1 .. MaxRefs /\ owned[t][c] \in 1 .. MaxRefs
         /\ \A p \in Objects : p # o /\ p # c => owned'[t][p] = owned[t][p]
         /\ \A u \in Threads : u # t => owned'[u] = owned[u]
  BY MaxRefsAssumption DEF TypeOK

LEMMA PairGiven ==
  ASSUME TypeOK, NEW t \in Threads, NEW o \in Objects, NEW c \in Objects, o # c,
         owned[t][o] < MaxRefs, owned[t][c] < MaxRefs,
         owned' = [owned EXCEPT ![t][o] = @ + 1, ![t][c] = @ + 1]
  PROVE  /\ owned' \in [Threads -> [Objects -> 0 .. MaxRefs]]
         /\ owned'[t][o] = owned[t][o] + 1 /\ owned'[t][c] = owned[t][c] + 1
         /\ owned[t][o] + 1 \in 1 .. MaxRefs /\ owned[t][c] + 1 \in 1 .. MaxRefs
         /\ \A p \in Objects : p # o /\ p # c => owned'[t][p] = owned[t][p]
         /\ \A u \in Threads : u # t => owned'[u] = owned[u]
  BY MaxRefsAssumption DEF TypeOK

LEMMA ReuseLoadStep ==
  ASSUME RefCountInv, NEW t \in Threads, NEW o \in Objects, NEW c \in Objects,
         ReuseLoad(t, o, c)
  PROVE  RefCountInv'
<1>1. /\ owned[t][o] > 0 /\ owned[t][c] > 0 /\ o # c
      /\ owned' = [owned EXCEPT ![t][o] = @ - 1, ![t][c] = @ - 1]
      /\ Call(t, "reuse", o)
      /\ arg' = [arg EXCEPT ![t] = c]
      /\ UNCHANGED <<word, life, child, root, pending, borrowed, path>>
  BY DEF ReuseLoad, heapVars
<1>2. TypeOK /\ Counted /\ BorrowedHeld
  BY DEF RefCountInv
<1>3. /\ owned' \in [Threads -> [Objects -> 0 .. MaxRefs]]
      /\ owned'[t][o] = owned[t][o] - 1 /\ owned'[t][c] = owned[t][c] - 1
      /\ owned[t][o] \in 1 .. MaxRefs /\ owned[t][c] \in 1 .. MaxRefs
      /\ \A p \in Objects : p # o /\ p # c => owned'[t][p] = owned[t][p]
      /\ \A u \in Threads : u # t => owned'[u] = owned[u]
  BY <1>1, <1>2, PairTaken
<1>4. /\ pc[t] = "run" /\ obj[t] = None /\ arg[t] = None
      /\ pc'[t] = "reuse" /\ obj'[t] = o /\ cur'[t] = word[o]
      /\ pc' \in [Threads -> {"run", "retain", "release", "reuse", "promote",
                              "mark", "exchange"}]
      /\ obj' \in [Threads -> Maybe] /\ cur' \in [Threads -> Words]
      /\ \A u \in Threads : u # t =>
           pc'[u] = pc[u] /\ obj'[u] = obj[u] /\ cur'[u] = cur[u]
  BY <1>1, CallFacts
<1>5. /\ arg'[t] = c /\ arg' \in [Threads -> Maybe]
      /\ \A u \in Threads : u # t => arg'[u] = arg[u]
  BY <1>1, <1>2 DEF TypeOK, Maybe
<1>6. TypeOK'
  BY <1>1, <1>2, <1>3, <1>4, <1>5 DEF TypeOK
<1>7. OthersKept(t)
  BY <1>1, <1>3, <1>4, <1>5 DEF OthersKept
<1>8. PICK own \in [Objects -> Threads] : BelongTo(own)
  BY OwnerOf
<1>9. \A p \in Objects : ~Holds(t, p) /\ (Holds(t, p)' <=> p \in {o, c})
  BY <1>4, <1>5, NoneAssumption DEF Holds
<1>10. \A p \in {o, c} : \E a, b : Moved(t, p, a, b)
  <2> SUFFICES ASSUME NEW p \in Objects, p \in {o, c}
               PROVE  \E a, b : Moved(t, p, a, b)
    OBVIOUS
  <2>1. PICK n \in 1 .. MaxRefs : n = owned[t][p]
    BY <1>3
  <2>2. owned'[t][p] = n - 1
    BY <1>3, <2>1
  <2> QED BY <1>1, <1>3, <1>7, <1>9, <2>1, <2>2, OtherHolds, IntoHand
<1>11. \A p \in Objects : p \notin {o, c} => Refs(p)' = Refs(p)
  <2>1. \A u \in Threads, p \in Objects :
          p \notin {o, c} => (Holds(u, p)' <=> Holds(u, p))
    BY <1>7, <1>9, OtherHolds
  <2> QED BY <1>1, <1>3, <2>1, RefsSame
<1>12. \A p \in Objects : LocalObject(p) => p \notin Global'
  BY <1>1, <1>8 DEF Global, BelongTo
<1>13. \A p \in Objects : Touches(t, p)' => Touches(t, p)
  <2>1. \A p \in Objects : p \notin {o, c} => owned'[t][p] = owned[t][p]
    BY <1>3
  <2> QED BY <1>1, <1>4, <1>5, <2>1, NoneAssumption DEF Touches
<1>14. BorrowedHeld'
  BY <1>1, <1>2 DEF BorrowedHeld
<1>15. ASSUME word[o].count = 1
       PROVE  Refs(o)' = {Hand(t)}
  <2>1. Settled(t, o)
    BY <1>1, <1>10 DEF Settled
  <2>2. CountedAfter(t, o)
    BY <2>1, SettledCounted
  <2>3. Live(o)'
    BY <1>1, OwnedRef DEF Live
  <2>4. PICK R : R = Refs(o)'
    OBVIOUS
  <2>5. IsFiniteSet(R) /\ Cardinality(R) = 1
    BY <1>1, <1>15, <2>2, <2>3, <2>4 DEF CountedAfter
  <2>6. Hand(t) \in R
    BY <1>9, <2>4 DEF Refs, Hand, Holds
  <2>7. \E x : R = {x}
    BY <2>5, FS_Singleton
  <2> QED BY <2>4, <2>6, <2>7
<1>16. CallInv(t)'
  <2>1. /\ arg'[t] # None /\ obj'[t] # None /\ arg'[t] # obj'[t]
        /\ owned'[t][arg'[t]] < MaxRefs /\ owned'[t][obj'[t]] < MaxRefs
    BY <1>1, <1>3, <1>4, <1>5, NoneAssumption, MaxRefsAssumption
  <2>2. word'[obj'[t]] = cur'[t]
    BY <1>1, <1>4
  <2>3. cur'[t].count = 1 => Refs(obj[t])' = {Hand(t)}
    <3>1. Refs(obj[t])' = Refs(o)'
      BY <1>4 DEF Refs
    <3> QED BY <1>4, <1>15, <3>1
  <2>4. cur'[t].count = 1 => Refs(obj[t])' = {Hand(t)'}
    BY <2>3 DEF Hand
  <2> QED BY <1>4, <2>1, <2>2, <2>4 DEF CallInv
<1>17. PathInv(t)'
  BY <1>1, <1>4, NoPath
<1> QED BY <1>1, <1>6, <1>7, <1>8, <1>10, <1>11, <1>12, <1>13, <1>14, <1>16, <1>17,
           SameHeap DEF heapVars

\* ... and back when the object is not to be changed.
LEMMA ReuseRefusedStep ==
  ASSUME RefCountInv, NEW t \in Threads, ReuseRefused(t)
  PROVE  RefCountInv'
<1>1. pc[t] = "reuse" /\ pc[t] # "run"
  BY DEF ReuseRefused
<1>2. PICK o \in Objects, c \in Objects : o = obj[t] /\ c = arg[t]
  BY <1>1, ObjLive
<1>3. /\ owned' = [owned EXCEPT ![t][o] = @ + 1, ![t][c] = @ + 1]
      /\ Return(t)
      /\ UNCHANGED <<word, life, child, root, pending, borrowed, path>>
  BY <1>2 DEF ReuseRefused, heapVars
<1>4. TypeOK /\ BorrowedHeld /\ CallInv(t)
  BY DEF RefCountInv
<1>5. o # c /\ owned[t][o] < MaxRefs /\ owned[t][c] < MaxRefs
  BY <1>1, <1>2, <1>4 DEF CallInv
<1>6. /\ owned' \in [Threads -> [Objects -> 0 .. MaxRefs]]
      /\ owned'[t][o] = owned[t][o] + 1 /\ owned'[t][c] = owned[t][c] + 1
      /\ owned[t][o] + 1 \in 1 .. MaxRefs /\ owned[t][c] + 1 \in 1 .. MaxRefs
      /\ \A p \in Objects : p # o /\ p # c => owned'[t][p] = owned[t][p]
      /\ \A u \in Threads : u # t => owned'[u] = owned[u]
  BY <1>3, <1>4, <1>5, PairGiven
<1>7. /\ pc'[t] = "run" /\ obj'[t] = None /\ arg'[t] = None
      /\ pc' \in [Threads -> {"run", "retain", "release", "reuse", "promote",
                              "mark", "exchange"}]
      /\ obj' \in [Threads -> Maybe] /\ arg' \in [Threads -> Maybe]
      /\ cur' \in [Threads -> Words]
      /\ \A u \in Threads : u # t =>
           pc'[u] = pc[u] /\ obj'[u] = obj[u] /\ arg'[u] = arg[u] /\ cur'[u] = cur[u]
  BY <1>3, ReturnFacts
<1>8. TypeOK'
  BY <1>3, <1>4, <1>6, <1>7 DEF TypeOK
<1>9. OthersKept(t)
  BY <1>3, <1>6, <1>7 DEF OthersKept
<1>10. PICK own \in [Objects -> Threads] : BelongTo(own)
  BY OwnerOf
<1>11. \A p \in Objects : ~Holds(t, p)' /\ (Holds(t, p) <=> p \in {o, c})
  BY <1>1, <1>2, <1>7, NoneAssumption DEF Holds
<1>12. \A p \in {o, c} : \E a, b : Moved(t, p, a, b)
  <2> SUFFICES ASSUME NEW p \in Objects, p \in {o, c}
               PROVE  \E a, b : Moved(t, p, a, b)
    OBVIOUS
  <2>1. PICK n \in 1 .. MaxRefs : n = owned[t][p] + 1
    BY <1>6
  <2>2. owned[t][p] \in 0 .. MaxRefs
    BY <1>4 DEF TypeOK
  <2>3. owned'[t][p] = owned[t][p] + 1
    BY <1>6
  <2>4. PICK m \in 0 .. MaxRefs : m = owned[t][p]
    BY <2>2
  <2>5. n = m + 1 /\ m = n - 1
    BY <2>1, <2>4, MaxRefsAssumption
  <2> QED BY <1>3, <1>6, <1>9, <1>11, <2>3, <2>4, <2>5, OtherHolds, OutOfHand
<1>13. \A p \in Objects : p \notin {o, c} => Refs(p)' = Refs(p)
  <2>1. \A u \in Threads, p \in Objects :
          p \notin {o, c} => (Holds(u, p)' <=> Holds(u, p))
    BY <1>9, <1>11, OtherHolds
  <2> QED BY <1>3, <1>6, <2>1, RefsSame
<1>14. \A p \in Objects : LocalObject(p) => p \notin Global'
  BY <1>3, <1>10 DEF Global, BelongTo
<1>15. \A p \in Objects : Touches(t, p)' => Touches(t, p)
  <2>1. \A p \in Objects : p \notin {o, c} => owned'[t][p] = owned[t][p]
    BY <1>6
  <2> QED BY <1>2, <1>3, <1>7, <2>1, NoneAssumption DEF Touches
<1>16. BorrowedHeld'
  BY <1>3, <1>4 DEF BorrowedHeld
<1>17. CallInv(t)' /\ PathInv(t)'
  BY <1>1, <1>3, Returned
<1> QED BY <1>3, <1>8, <1>9, <1>10, <1>12, <1>13, <1>14, <1>15, <1>16, <1>17, SameHeap
        DEF heapVars

\* From the hand into an object.
LEMMA HandToChild ==
  ASSUME NEW t \in Threads, NEW o \in Objects, NEW c \in Objects,
         Holds(t, c), ~Holds(t, c)', child[o] # c, child'[o] = c,
         \A p \in Objects : p # o => child'[p] = child[p],
         \A u \in Threads : owned'[u][c] = owned[u][c],
         \A u \in Threads : u # t => (Holds(u, c)' <=> Holds(u, c)),
         root' = root, pending' = pending
  PROVE  \E a, b : Moved(t, c, a, b)
<1>1. PICK a, b : a = Hand(t) /\ b = <<"child", o, 0>>
  OBVIOUS
<1>2. a \in Refs(c) /\ b \notin Refs(c) /\ b \in Elsewhere(c)
  <2>1. <<"child", o, 0>> \notin Refs(c) /\ Hand(t) \in Refs(c)
    BY RefsIn
  <2>2. <<"child", o, 0>> \in Elsewhere(c)
    BY DEF Elsewhere
  <2> QED BY <1>1, <2>1, <2>2
<1>3. \A q \in Objects :
        child'[q] = c <=> \/ child[q] = c /\ a # <<"child", q, 0>>
                          \/ b = <<"child", q, 0>>
  BY <1>1 DEF Hand
<1>4. /\ a # <<"root", c, 0>> /\ b # <<"root", c, 0>>
      /\ \A i : a # <<"pending", i, 0>> /\ b # <<"pending", i, 0>>
  BY <1>1 DEF Hand
<1> QED BY <1>1, <1>2, <1>3, <1>4, HandMoved

\* The only reference: the references of the changed object, of what it is to
\* refer to and of what it referred to.
LEMMA InPlaceRefs ==
  ASSUME RefCountInv, NEW t \in Threads, NEW o \in Objects, NEW c \in Objects,
         o = obj[t], c = arg[t], pc[t] = "reuse", Refs(o) = {Hand(t)},
         OthersKept(t), owned[t][o] < MaxRefs,
         owned' = [owned EXCEPT ![t][o] = @ + 1],
         pending' = pending, root' = root, child' = [child EXCEPT ![o] = c],
         pc'[t] # "retain", arg'[t] = None, obj'[t] = child[o]
  PROVE  \A p \in Objects : Refs(p)' = Refs(p) \/ \E a, b : Moved(t, p, a, b)
<1>1. TypeOK /\ CallInv(t)
  BY DEF RefCountInv
<1>2. o # c
  BY <1>1 DEF CallInv
<1>3. \A p \in Objects : child[p] # o
  BY OnlyHand
<1>4. \A p \in Objects : child'[p] = IF p = o THEN c ELSE child[p]
  BY <1>1 DEF TypeOK
<1>5. /\ \A p \in Objects : Holds(t, p) <=> p \in {o, c}
      /\ \A p \in Objects : Holds(t, p)' <=> p = child[o]
      /\ \A u \in Threads, p \in Objects : u # t => (Holds(u, p)' <=> Holds(u, p))
  <2>1. \A p \in Objects : Holds(t, p) <=> p \in {o, c}
    BY DEF Holds
  <2>2. \A p \in Objects : Holds(t, p)' <=> p = child[o]
    BY NoneAssumption DEF Holds
  <2> QED BY <2>1, <2>2, OtherHolds
<1>6. /\ owned'[t][o] = owned[t][o] + 1
      /\ owned[t][o] \in Nat /\ owned[t][o] + 1 \in 1 .. MaxRefs
      /\ \A p \in Objects : p # o => owned'[t][p] = owned[t][p]
      /\ \A u \in Threads : u # t => owned'[u] = owned[u]
  BY <1>1, MaxRefsAssumption DEF TypeOK
<1>7. \E a, b : Moved(t, o, a, b)
  <2>1. PICK n \in 1 .. MaxRefs : n = owned[t][o] + 1
    BY <1>6
  <2>2. owned[t][o] = n - 1 /\ owned'[t][o] = n
    BY <1>6, <2>1
  <2>3. \A p \in Objects : child'[p] = o <=> child[p] = o
    BY <1>2, <1>3, <1>4
  <2>4. Holds(t, o) /\ ~Holds(t, o)'
    BY <1>3, <1>5
  <2> QED BY <1>5, <1>6, <2>2, <2>3, <2>4, OutOfHand
<1>8. ASSUME NEW p \in Objects, p # o, p # c, p # child[o]
      PROVE  Refs(p)' = Refs(p)
  <2>1. \A u \in Threads : Holds(u, p)' <=> Holds(u, p)
    BY <1>5, <1>8
  <2>2. \A q \in Objects : child'[q] = p <=> child[q] = p
    BY <1>4, <1>8
  <2>3. \A u \in Threads : owned'[u][p] = owned[u][p]
    BY <1>6, <1>8
  <2> QED BY <2>1, <2>2, <2>3, RefsSame
<1>9. ASSUME c = child[o]
      PROVE  Refs(c)' = Refs(c)
  <2>1. \A u \in Threads : Holds(u, c)' <=> Holds(u, c)
    BY <1>5, <1>9
  <2>2. \A q \in Objects : child'[q] = c <=> child[q] = c
    BY <1>4, <1>9
  <2>3. \A u \in Threads : owned'[u][c] = owned[u][c]
    BY <1>2, <1>6
  <2> QED BY <2>1, <2>2, <2>3, RefsSame
<1>10. ASSUME c # child[o]
       PROVE  \E a, b : Moved(t, c, a, b)
  <2>1. Holds(t, c) /\ ~Holds(t, c)'
    BY <1>5, <1>10
  <2>2. \A u \in Threads : owned'[u][c] = owned[u][c]
    BY <1>2, <1>6
  <2>3. child'[o] = c /\ \A p \in Objects : p # o => child'[p] = child[p]
    BY <1>4
  <2>4. \A u \in Threads : u # t => (Holds(u, c)' <=> Holds(u, c))
    BY <1>5
  <2> QED BY <1>10, <2>1, <2>2, <2>3, <2>4, HandToChild
<1>11. ASSUME NEW p \in Objects, p = child[o], p # c
       PROVE  \E a, b : Moved(t, p, a, b)
  <2>1. PICK a, b : a = <<"child", o, 0>> /\ b = Hand(t)
    OBVIOUS
  <2>2. ~Holds(t, p) /\ Holds(t, p)' /\ p # o
    BY <1>3, <1>5, <1>11
  <2>3. a \in Refs(p) /\ b \notin Refs(p) /\ a \in Elsewhere(p)
    <3>1. <<"child", o, 0>> \in Refs(p) /\ Hand(t) \notin Refs(p)
      BY <1>11, <2>2, RefsIn
    <3>2. <<"child", o, 0>> \in Elsewhere(p)
      BY DEF Elsewhere
    <3> QED BY <2>1, <3>1, <3>2
  <2>4. \A q \in Objects :
          child'[q] = p <=> \/ child[q] = p /\ a # <<"child", q, 0>>
                            \/ b = <<"child", q, 0>>
    BY <1>4, <1>11, <2>1 DEF Hand
  <2>5. /\ a # <<"root", p, 0>> /\ b # <<"root", p, 0>>
        /\ \A i : a # <<"pending", i, 0>> /\ b # <<"pending", i, 0>>
    BY <2>1 DEF Hand
  <2>6. \A u \in Threads : owned'[u][p] = owned[u][p]
    BY <1>6, <2>2
  <2>7. /\ root' = p <=> (root = p /\ a # <<"root", p, 0>>) \/ b = <<"root", p, 0>>
        /\ \A i \in Slots :
             pending'[i].obj = p <=> \/ pending[i].obj = p /\ a # <<"pending", i, 0>>
                                     \/ b = <<"pending", i, 0>>
    BY <2>5
  <2>8. \A u \in Threads : u # t => (Holds(u, p)' <=> Holds(u, p))
    BY <1>5
  <2> QED BY <2>1, <2>2, <2>3, <2>4, <2>5, <2>6, <2>7, <2>8, HandMoved
<1> QED BY <1>7, <1>8, <1>9, <1>10, <1>11

\* Object_isReusable, and the change in place.
LEMMA ReuseInPlaceStep ==
  ASSUME RefCountInv, NEW t \in Threads, ReuseInPlace(t)
  PROVE  RefCountInv'
<1>1. pc[t] = "reuse" /\ pc[t] # "run" /\ cur[t].count = 1
  BY DEF ReuseInPlace
<1>2. PICK o \in Objects, c \in Objects : o = obj[t] /\ c = arg[t] /\ Live(o)
  BY <1>1, ObjLive
<1>3. TypeOK /\ Counted /\ BorrowedHeld /\ CallInv(t)
  BY DEF RefCountInv
<1>4. /\ o # c /\ owned[t][o] < MaxRefs /\ Refs(o) = {Hand(t)}
      /\ ~cur[t].shared => word[o] = cur[t]
  BY <1>1, <1>2, <1>3 DEF CallInv
<1>5. /\ word' = [word EXCEPT ![o] = IF cur[t].shared THEN Local(1) ELSE word[o]]
      /\ child' = [child EXCEPT ![o] = c]
      /\ owned' = [owned EXCEPT ![t][o] = @ + 1]
      /\ UNCHANGED <<life, root, pending, borrowed, path>>
  BY <1>2 DEF ReuseInPlace, Give
<1>6. /\ child[o] = None => Return(t)
      /\ child[o] # None => /\ pc' = [pc EXCEPT ![t] = "release"]
                            /\ obj' = [obj EXCEPT ![t] = child[o]]
                            /\ cur' = [cur EXCEPT ![t] = word[child[o]]]
                            /\ arg' = [arg EXCEPT ![t] = None]
  BY <1>2 DEF ReuseInPlace
<1>7. /\ obj'[t] = child[o] /\ arg'[t] = None
      /\ pc'[t] = IF child[o] = None THEN "run" ELSE "release"
      /\ child[o] # None => cur'[t] = word[child[o]]
      /\ pc' \in [Threads -> {"run", "retain", "release", "reuse", "promote",
                              "mark", "exchange"}]
      /\ obj' \in [Threads -> Maybe] /\ arg' \in [Threads -> Maybe]
      /\ cur' \in [Threads -> Words]
      /\ \A u \in Threads : u # t =>
           pc'[u] = pc[u] /\ obj'[u] = obj[u] /\ arg'[u] = arg[u] /\ cur'[u] = cur[u]
  <2>1. CASE child[o] = None
    BY <1>6, <2>1, ReturnFacts
  <2>2. CASE child[o] # None
    <3>1. child[o] \in Objects
      BY <1>3, <2>2 DEF TypeOK, Maybe
    <3>2. /\ pc \in [Threads -> {"run", "retain", "release", "reuse", "promote",
                                  "mark", "exchange"}]
          /\ obj \in [Threads -> Maybe] /\ arg \in [Threads -> Maybe]
          /\ cur \in [Threads -> Words]
          /\ child[o] \in Maybe /\ None \in Maybe /\ word[child[o]] \in Words
      BY <1>3, <3>1 DEF TypeOK, Maybe
    <3>3. /\ pc' = [pc EXCEPT ![t] = "release"]
          /\ obj' = [obj EXCEPT ![t] = child[o]]
          /\ cur' = [cur EXCEPT ![t] = word[child[o]]]
          /\ arg' = [arg EXCEPT ![t] = None]
      BY <1>6, <2>2
    <3> QED BY <2>2, <3>2, <3>3
  <2> QED BY <2>1, <2>2
<1>8. word[o] \in Words /\ word[o].count = 1
  <2>1. word[o].count = Cardinality(Refs(o))
    BY <1>2, <1>3 DEF Counted
  <2>2. Cardinality({Hand(t)}) = 1
    BY FS_Singleton
  <2> QED BY <1>3, <1>4, <2>1, <2>2 DEF TypeOK
<1>9. /\ word'[o].count = 1 /\ word'[o].shared = FALSE
      /\ \A p \in Objects : p # o => word'[p] = word[p]
      /\ word' \in [Objects -> Words]
  <2>1. PICK w : w = IF cur[t].shared THEN Local(1) ELSE word[o]
    OBVIOUS
  <2>2. w.count = 1 /\ w.shared = FALSE /\ w \in Words
    <3>1. CASE cur[t].shared
      <4>1. w = Local(1)
        BY <2>1, <3>1
      <4> QED BY <4>1 DEF Local, Words
    <3>2. CASE ~cur[t].shared
      <4>1. w = word[o] /\ word[o] = cur[t]
        BY <1>4, <2>1, <3>2
      <4>2. w.shared = FALSE
        BY <1>8, <3>2, <4>1 DEF Words
      <4> QED BY <1>8, <4>1, <4>2
    <3> QED BY <3>1, <3>2
  <2>3. word' = [word EXCEPT ![o] = w]
    BY <1>5, <2>1
  <2> QED BY <1>3, <2>2, <2>3 DEF TypeOK
<1>10. /\ child'[o] = c /\ child' \in [Objects -> Maybe]
       /\ \A p \in Objects : p # o => child'[p] = child[p]
  BY <1>3, <1>5 DEF TypeOK, Maybe
<1>11. /\ owned' \in [Threads -> [Objects -> 0 .. MaxRefs]]
       /\ \A p \in Objects : p # o => owned'[t][p] = owned[t][p]
       /\ \A u \in Threads : u # t => owned'[u] = owned[u]
  BY <1>3, <1>4, <1>5, GiveOwned
<1>12. TypeOK'
  BY <1>3, <1>5, <1>7, <1>9, <1>10, <1>11 DEF TypeOK
<1>13. OthersKept(t)
  BY <1>5, <1>7, <1>11 DEF OthersKept
<1>14. OneChild(t)
  BY <1>4, <1>5 DEF OneChild, Maybe
<1>15. \A p \in Objects : Refs(p)' = Refs(p) \/ \E a, b : Moved(t, p, a, b)
  <2>1. pc'[t] # "retain"
    BY <1>7
  <2> QED BY <1>1, <1>2, <1>4, <1>5, <1>7, <1>13, <2>1, InPlaceRefs
<1>16. \A p \in Objects : CountedAfter(t, p)
  <2>1. \A p \in Objects : word'[p].count = word[p].count
    BY <1>8, <1>9
  <2>2. \A p \in Objects : ~Live(p) => child'[p] = child[p]
    BY <1>2, <1>10
  <2>3. \A p \in Objects : Settled(t, p)
    BY <1>5, <1>15, <2>1, <2>2 DEF Settled
  <2> QED BY <2>3, SettledCounted
<1>17. PICK own \in [Objects -> Threads] : BelongTo(own)
  BY OwnerOf
<1>18. Touches(t, o) /\ Touches(t, c)
  BY <1>2 DEF Touches
<1>19. Exclusive'
  <2>1. /\ \A q \in Objects : child[q] # o
        /\ o \notin Global
    BY <1>4, OnlyHand
  <2>2. \A q \in Objects : child'[q] # o
    BY <1>4, <1>10, <2>1
  <2>3. \A u \in Threads : u # t => ~Touches(u, o)
    BY <1>4, Untouched
  <2>4. \A u \in Threads : Touches(u, o)' => u = t
    BY <1>13, <2>3 DEF OthersKept, Touches
  <2>5. Global' = Global
    BY <1>5 DEF Global
  <2>6. ASSUME NEW p \in Objects, p # o, LocalObject(p)'
        PROVE  /\ LocalObject(p) /\ p \notin Global
               /\ \A u \in Threads : Touches(u, p)' => Touches(u, p) \/ own[p] = u
               /\ \A q \in Objects :
                    q # o /\ child'[q] = p => child[q] = p /\ ~word'[q].shared
               /\ child'[o] = p => own[p] = t
    <3>1. LocalObject(p)
      BY <1>5, <1>9, <2>6 DEF LocalObject, Live
    <3>2. p \notin Global /\ \A q \in Objects : child[q] = p => ~word[q].shared
      BY <1>17, <3>1 DEF BelongTo
    <3>3. ASSUME NEW u \in Threads, Touches(u, p)', ~Touches(u, p)
          PROVE  own[p] = u
      <4>1. u = t
        BY <1>13, <3>3 DEF OthersKept, Touches
      <4>2. p = child[o]
        BY <1>5, <1>7, <1>11, <2>6, <3>3, <4>1, NoneAssumption DEF Touches
      <4> QED BY <1>17, <1>18, <3>1, <4>1, <4>2, ChildOwn
    <3>4. child'[o] = p => own[p] = t
      BY <1>10, <1>17, <1>18, <3>1, TouchesOwn
    <3> QED BY <1>9, <1>10, <3>1, <3>2, <3>3, <3>4
  <2> QED BY <1>9, <1>17, <2>1, <2>2, <2>4, <2>5, <2>6, ExclusiveNew
<1>20. BorrowedHeld'
  BY <1>3, <1>5 DEF BorrowedHeld
<1>21. CallInv(t)'
  <2>1. CASE child[o] = None
    BY <1>7, <2>1, NoneAssumption DEF CallInv
  <2>2. CASE child[o] # None
    <3>1. child[o] \in Objects
      BY <1>3, <2>2 DEF TypeOK, Maybe
    <3>2. child[o] # o
      BY <1>4, OnlyHand
    <3>3. /\ pc'[t] = "release" /\ obj'[t] # None /\ arg'[t] = None
          /\ word'[obj'[t]] = cur'[t]
      BY <1>7, <1>9, <2>2, <3>1, <3>2
    <3> QED BY <3>3 DEF CallInv
  <2> QED BY <2>1, <2>2
<1>22. PathInv(t)'
  BY <1>1, <1>5, <1>7, NoPath
<1>23. /\ \A p \in Objects : Live(p) /\ word'[p] # word[p] => Touches(t, p)
       /\ \A p \in Objects :
            word[p].shared /\ ~word'[p].shared => Refs(p) \subseteq {Hand(t)}
  BY <1>4, <1>9, <1>18
<1> QED BY <1>12, <1>13, <1>14, <1>16, <1>19, <1>20, <1>21, <1>22, <1>23, Combine

-----------------------------------------------------------------------------
\* promoteToShared: what the path is.
Chain(s) ==
  /\ s \in Seq([obj : Objects, cur : Words]) /\ DOMAIN s = 1 .. Len(s)
  /\ Len(s) \in Nat /\ (s = <<>> <=> Len(s) = 0)
  /\ \A k \in DOMAIN s :
       /\ s[k].obj \in Objects /\ s[k].cur \in Words
       /\ s[k].cur = word[s[k].obj] /\ ~s[k].cur.shared
       /\ k + 1 \in DOMAIN s => child[s[k].obj] = s[k + 1].obj
       /\ \A j \in DOMAIN s : j < k => s[k].obj \in Reach({child[s[j].obj]})

Longer(s, n) == Append(s, [obj |-> n, cur |-> word[n]])

LongerBy(s, n, r) ==
  /\ r # <<>> /\ r[1].obj = IF s = <<>> THEN n ELSE s[1].obj
  /\ \A k \in DOMAIN r : k \in DOMAIN s \/ r[k].obj = n
  /\ \A k \in DOMAIN s : r[k] = s[k]

LEMMA PathFacts ==
  ASSUME RefCountInv, NEW t \in Threads, NEW s, s = path[t]
  PROVE  Chain(s)
<1>1. s \in Seq([obj : Objects, cur : Words]) /\ PathInv(t)
  BY DEF RefCountInv, TypeOK
<1>2. DOMAIN s = 1 .. Len(s) /\ Len(s) \in Nat /\ (s = <<>> <=> Len(s) = 0)
  BY <1>1
<1>3. \A k \in DOMAIN s : s[k] \in [obj : Objects, cur : Words]
  BY <1>1, <1>2, ElementOfSeq
<1> QED BY <1>1, <1>2, <1>3 DEF PathInv, Chain

\* The chain gets longer by an object that the last one refers to.
LEMMA PathLonger ==
  ASSUME RefCountInv, NEW t \in Threads, NEW s, s = path[t],
         NEW n \in Objects, ~word[n].shared,
         s # <<>> => child[s[Len(s)].obj] = n,
         NEW r, r = Longer(s, n)
  PROVE  Chain(r) /\ LongerBy(s, n, r)
<1>1. /\ s \in Seq([obj : Objects, cur : Words]) /\ DOMAIN s = 1 .. Len(s)
      /\ Len(s) \in Nat /\ (s = <<>> <=> Len(s) = 0)
      /\ \A k \in DOMAIN s :
           /\ s[k].obj \in Objects /\ s[k].cur \in Words
           /\ s[k].cur = word[s[k].obj] /\ ~s[k].cur.shared
           /\ k + 1 \in DOMAIN s => child[s[k].obj] = s[k + 1].obj
           /\ \A j \in DOMAIN s : j < k => s[k].obj \in Reach({child[s[j].obj]})
  <2>1. Chain(s)
    BY PathFacts
  <2> QED BY <2>1 DEF Chain
<1>2. TypeOK
  BY DEF RefCountInv
<1>3. PICK e : e = [obj |-> n, cur |-> word[n]]
  OBVIOUS
<1>4. e \in [obj : Objects, cur : Words] /\ e.obj = n /\ e.cur = word[n]
  BY <1>2, <1>3 DEF TypeOK
<1>5. PICK m \in Nat : m = Len(s)
  BY <1>1
<1>6. /\ r \in Seq([obj : Objects, cur : Words]) /\ Len(r) = m + 1
      /\ DOMAIN r = 1 .. (m + 1) /\ r[m + 1] = e
      /\ \A k \in 1 .. m : r[k] = s[k]
  <2>1. r = Append(s, e)
    BY <1>3 DEF Longer
  <2>2. r \in Seq([obj : Objects, cur : Words])
    BY <1>1, <1>4, <2>1
  <2>3. Len(r) = m + 1 /\ r[m + 1] = e /\ \A k \in 1 .. m : r[k] = s[k]
    BY <1>1, <1>4, <1>5, <2>1
  <2> QED BY <2>2, <2>3
<1>7. r # <<>> /\ r[1].obj = IF s = <<>> THEN n ELSE s[1].obj
  <2>1. CASE s = <<>>
    BY <1>1, <1>4, <1>5, <1>6, <2>1
  <2>2. CASE s # <<>>
    <3>1. m # 0 /\ 1 \in 1 .. m
      BY <1>1, <1>5, <2>2
    <3> QED BY <1>6, <2>2, <3>1
  <2> QED BY <2>1, <2>2
<1>8. /\ \A k \in DOMAIN r : k \in DOMAIN s \/ (k = m + 1 /\ r[k] = e)
      /\ \A k \in DOMAIN s : r[k] = s[k] /\ k \in DOMAIN r
      /\ DOMAIN s = 1 .. m /\ DOMAIN r = 1 .. (m + 1)
  BY <1>1, <1>5, <1>6
<1>9. ASSUME m # 0
      PROVE  m \in DOMAIN s /\ s[m].obj \in Objects /\ child[s[m].obj] = n
  BY <1>1, <1>5, <1>9
<1>10. \A k \in DOMAIN r : r[k].cur = word[r[k].obj] /\ ~r[k].cur.shared
  BY <1>1, <1>4, <1>8
<1>11. ASSUME NEW k \in DOMAIN r, k + 1 \in DOMAIN r
       PROVE  child[r[k].obj] = r[k + 1].obj
  <2>1. k \in 1 .. m /\ k \in DOMAIN s
    BY <1>8, <1>11
  <2>2. CASE k = m
    BY <1>4, <1>6, <1>8, <1>9, <2>1, <2>2
  <2>3. CASE k # m
    <3>1. k + 1 \in DOMAIN s
      BY <1>8, <2>1, <2>3
    <3> QED BY <1>1, <1>8, <2>1, <3>1
  <2> QED BY <2>2, <2>3
<1>12. ASSUME NEW k \in DOMAIN r, NEW j \in DOMAIN r, j < k
       PROVE  r[k].obj \in Reach({child[r[j].obj]})
  <2>1. j \in 1 .. m /\ j \in DOMAIN s /\ r[j] = s[j]
    BY <1>8, <1>12
  <2>2. CASE k \in DOMAIN s
    BY <1>1, <1>8, <1>12, <2>1, <2>2
  <2>3. CASE k = m + 1
    <3>1. m # 0 /\ r[k].obj = n
      BY <1>4, <1>6, <2>1, <2>3
    <3>2. CASE j = m
      <4>1. child[r[j].obj] = n
        BY <1>9, <2>1, <3>1, <3>2
      <4> QED BY <3>1, <4>1, ReachStart
    <3>3. CASE j # m
      <4>1. j < m
        BY <2>1, <3>3
      <4>2. PICK d : d = child[r[j].obj]
        OBVIOUS
      <4>3. s[m].obj \in Reach({d})
        BY <1>1, <1>9, <2>1, <3>1, <4>1, <4>2
      <4>4. child[s[m].obj] \in Reach({d})
        BY <1>2, <1>9, <3>1, <4>3, ReachChild, NoneAssumption
      <4> QED BY <1>9, <3>1, <4>2, <4>4
    <3> QED BY <3>2, <3>3
  <2> QED BY <1>8, <2>2, <2>3
<1>13. \A k \in DOMAIN r : k \in DOMAIN s \/ r[k].obj = n
  BY <1>4, <1>8
<1>14. Chain(r)
  <2>1. DOMAIN r = 1 .. Len(r) /\ Len(r) \in Nat /\ (r = <<>> <=> Len(r) = 0)
    BY <1>6
  <2>2. \A k \in DOMAIN r : r[k] \in [obj : Objects, cur : Words]
    BY <1>6, <2>1, ElementOfSeq
  <2>3. \A k \in DOMAIN r : r[k].obj \in Objects /\ r[k].cur \in Words
    BY <2>2
  <2>4. ASSUME NEW k \in DOMAIN r
        PROVE  /\ k + 1 \in DOMAIN r => child[r[k].obj] = r[k + 1].obj
               /\ \A j \in DOMAIN r : j < k => r[k].obj \in Reach({child[r[j].obj]})
    BY <1>11, <1>12
  <2>5. r \in Seq([obj : Objects, cur : Words])
    BY <1>6
  <2> QED BY <1>10, <2>1, <2>3, <2>4, <2>5 DEF Chain
<1> QED BY <1>7, <1>8, <1>13, <1>14 DEF LongerBy

LEMMA PromoteDownStep ==
  ASSUME RefCountInv, PromotionsCover, NEW t \in Threads, PromoteDown(t)
  PROVE  RefCountInv'
<1>1. /\ pc[t] = "promote" /\ pc[t] # "run"
      /\ UNCHANGED <<word, life, child, root, pending, owned, borrowed, obj, cur, arg>>
  BY DEF PromoteDown, heapVars
<1>2. TypeOK /\ BorrowedHeld /\ CallInv(t) /\ PathInv(t)
  BY DEF RefCountInv
<1>3. PICK o \in Objects : o = obj[t] /\ Live(o)
  BY <1>1, ObjLive
<1>4. PICK s : s = path[t]
  OBVIOUS
<1>5. PICK n : n = IF s = <<>> THEN o ELSE child[s[Len(s)].obj]
  OBVIOUS
<1>6. /\ s \in Seq([obj : Objects, cur : Words]) /\ DOMAIN s = 1 .. Len(s)
      /\ Len(s) \in Nat /\ (s = <<>> <=> Len(s) = 0)
      /\ \A k \in DOMAIN s :
           /\ s[k].obj \in Objects /\ s[k].cur \in Words
           /\ s[k].cur = word[s[k].obj] /\ ~s[k].cur.shared
           /\ k + 1 \in DOMAIN s => child[s[k].obj] = s[k + 1].obj
           /\ \A j \in DOMAIN s : j < k => s[k].obj \in Reach({child[s[j].obj]})
  <2>1. Chain(s)
    BY <1>4, PathFacts
  <2> QED BY <2>1 DEF Chain
<1>7. /\ s = <<>> => n = o
      /\ s # <<>> => n = child[s[Len(s)].obj]
      /\ n \in Maybe
  <2>1. CASE s = <<>>
    BY <1>5, <2>1 DEF Maybe
  <2>2. CASE s # <<>>
    <3>1. Len(s) \in DOMAIN s
      BY <1>6, <2>2
    <3>2. n = child[s[Len(s)].obj]
      BY <1>5, <2>2
    <3> QED BY <1>2, <1>6, <2>2, <3>1, <3>2 DEF TypeOK
  <2> QED BY <2>1, <2>2
<1>8. PICK own \in [Objects -> Threads] : BelongTo(own)
  BY OwnerOf
<1>9. IF n = None \/ word[n].shared
      THEN pc' = [pc EXCEPT ![t] = "mark"] /\ UNCHANGED path
      ELSE /\ path' = [path EXCEPT ![t] = Append(@, [obj |-> n, cur |-> word[n]])]
           /\ UNCHANGED pc
  <2>1. \/ PromoteNext(t) = n
        \/ PromoteNext(t) = None /\ (n = None \/ word[n].shared)
    BY <1>1, <1>3, <1>4, <1>5 DEF PromoteNext, PromotionsCover
  <2>2. IF PromoteNext(t) = None \/ word[PromoteNext(t)].shared
        THEN pc' = [pc EXCEPT ![t] = "mark"] /\ UNCHANGED path
        ELSE /\ path' = [path EXCEPT ![t] =
                           Append(@, [obj |-> PromoteNext(t), cur |-> word[PromoteNext(t)]])]
             /\ UNCHANGED pc
    BY DEF PromoteDown
  <2> QED BY <2>1, <2>2
<1>10. /\ path[t] # <<>> => path[t][1].obj = obj[t]
       /\ arg[t] = None /\ obj[t] # None
  BY <1>1, <1>2, <1>3, NoneAssumption DEF PathInv, CallInv
<1>11. CASE n = None \/ word[n].shared
  <2>1. pc' = [pc EXCEPT ![t] = "mark"] /\ path' = path
    BY <1>9, <1>11
  <2>2. pc'[t] = "mark" /\ \A u \in Threads : u # t => pc'[u] = pc[u]
    BY <1>2, <2>1 DEF TypeOK
  <2>3. TypeOK'
    BY <1>1, <1>2, <2>1 DEF TypeOK
  <2>4. OthersKept(t)
    BY <1>1, <2>1, <2>2 DEF OthersKept
  <2>5. \A u \in Threads, p \in Objects : Holds(u, p)' <=> Holds(u, p)
    BY <1>1, <2>2 DEF Holds
  <2>6. \A p \in Objects : Refs(p)' = Refs(p)
    BY <1>1, <2>5, RefsSame
  <2>7. \A p \in Objects : LocalObject(p) => p \notin Global'
    BY <1>1, <1>8 DEF Global, BelongTo
  <2>8. \A p \in Objects : Touches(t, p)' => Touches(t, p)
    BY <1>1, <2>1 DEF Touches
  <2>9. BorrowedHeld'
    BY <1>1, <1>2 DEF BorrowedHeld
  <2>10. CallInv(t)'
    BY <1>1, <1>10, <2>2 DEF CallInv
  <2>11. IF path'[t] = <<>>
         THEN word'[obj'[t]].shared
         ELSE LET c == child'[path'[t][Len(path'[t])].obj]
              IN c = None \/ word'[c].shared
    <3>1. CASE s = <<>>
      <4>1. word[obj[t]].shared
        BY <1>3, <1>7, <1>11, <3>1, NoneAssumption
      <4> QED BY <1>1, <1>4, <2>1, <3>1, <4>1
    <3>2. CASE s # <<>>
      BY <1>1, <1>4, <1>7, <1>11, <2>1, <3>2
    <3> QED BY <3>1, <3>2
  <2>12. PathInv(t)'
    <3>1. \A x : Reach({child[x]})' = Reach({child[x]})
      BY <1>1 DEF Reach, Closed
    <3>2. \A k \in DOMAIN path'[t] :
            /\ path'[t][k].cur = word'[path'[t][k].obj]
            /\ ~path'[t][k].cur.shared
            /\ k + 1 \in DOMAIN path'[t] => child'[path'[t][k].obj] = path'[t][k + 1].obj
      BY <1>1, <1>4, <1>6, <2>1
    <3>3. \A k, j \in DOMAIN path'[t] :
            j < k => path'[t][k].obj \in Reach({child[path[t][j].obj]})'
      <4>1. \A k, j \in DOMAIN path[t] :
              j < k => path[t][k].obj \in Reach({child[path[t][j].obj]})
        BY <1>4, <1>6
      <4>2. \A j : Reach({child[path[t][j].obj]})' = Reach({child[path[t][j].obj]})
        BY <1>1, <2>1 DEF Reach, Closed
      <4>3. ASSUME NEW k \in DOMAIN path'[t], NEW j \in DOMAIN path'[t], j < k
            PROVE  path'[t][k].obj \in Reach({child[path[t][j].obj]})'
        <5>1. path[t][k].obj \in Reach({child[path[t][j].obj]}) /\ path'[t] = path[t]
          BY <2>1, <4>1, <4>3
        <5> QED BY <4>2, <5>1
      <4> QED BY <4>3
    <3> QED BY <1>1, <1>10, <2>1, <2>2, <2>11, <3>2, <3>3 DEF PathInv
  <2> QED BY <1>1, <1>8, <2>3, <2>4, <2>6, <2>7, <2>8, <2>9, <2>10, <2>12, SameHeap
          DEF heapVars
<1>12. CASE n # None /\ ~word[n].shared
  <2>1. PICK r : r = Longer(s, n)
    OBVIOUS
  <2>2. path' = [path EXCEPT ![t] = r] /\ pc' = pc
    BY <1>4, <1>9, <1>12, <2>1 DEF Longer
  <2>3. n \in Objects
    BY <1>7, <1>12 DEF Maybe
  <2>4. /\ r \in Seq([obj : Objects, cur : Words]) /\ r # <<>>
        /\ r[1].obj = IF s = <<>> THEN n ELSE s[1].obj
        /\ \A k \in DOMAIN r : k \in DOMAIN s \/ r[k].obj = n
        /\ \A k \in DOMAIN s : r[k] = s[k]
        /\ \A k \in DOMAIN r :
             /\ r[k].cur = word[r[k].obj] /\ ~r[k].cur.shared
             /\ k + 1 \in DOMAIN r => child[r[k].obj] = r[k + 1].obj
             /\ \A j \in DOMAIN r : j < k => r[k].obj \in Reach({child[r[j].obj]})
    <3>0. (s # <<>> => child[s[Len(s)].obj] = n) /\ ~word[n].shared
      BY <1>7, <1>12
    <3>1. Chain(r) /\ LongerBy(s, n, r)
      BY <1>4, <2>1, <2>3, <3>0, PathLonger
    <3> QED BY <3>1 DEF Chain, LongerBy
  <2>5. path'[t] = r /\ \A u \in Threads : u # t => path'[u] = path[u]
    BY <1>2, <2>2 DEF TypeOK
  <2>6. TypeOK'
    BY <1>1, <1>2, <2>2, <2>4 DEF TypeOK
  <2>7. OthersKept(t)
    BY <1>1, <2>2, <2>5 DEF OthersKept
  <2>8. \A u \in Threads, p \in Objects : Holds(u, p)' <=> Holds(u, p)
    BY <1>1, <2>2 DEF Holds
  <2>9. \A p \in Objects : Refs(p)' = Refs(p)
    BY <1>1, <2>8, RefsSame
  <2>10. \A p \in Objects : LocalObject(p) => p \notin Global'
    BY <1>1, <1>8 DEF Global, BelongTo
  <2>11. LocalObject(n) => own[n] = t
    <3>1. CASE s = <<>>
      <4>1. Touches(t, n)
        BY <1>3, <1>7, <3>1 DEF Touches
      <4> QED BY <1>8, <2>3, <4>1, TouchesOwn
    <3>2. CASE s # <<>>
      <4>1. PICK p \in Objects : p = s[Len(s)].obj /\ Len(s) \in DOMAIN s
        BY <1>6, <3>2
      <4>2. Touches(t, p)
        BY <1>4, <4>1 DEF Touches
      <4>3. child[p] = n
        BY <1>7, <3>2, <4>1
      <4> QED BY <1>8, <2>3, <4>2, <4>3, ChildOwn
    <3> QED BY <3>1, <3>2
  <2>12. \A p \in Objects :
           LocalObject(p) /\ Touches(t, p)' => Touches(t, p) \/ own[p] = t
    <3> SUFFICES ASSUME NEW p \in Objects, LocalObject(p), Touches(t, p)',
                        ~Touches(t, p)
                 PROVE  own[p] = t
      OBVIOUS
    <3>1. PICK k \in DOMAIN r : r[k].obj = p
      BY <1>1, <2>5 DEF Touches
    <3>2. k \notin DOMAIN s
      BY <1>4, <2>4, <3>1 DEF Touches
    <3>3. p = n
      BY <2>4, <3>1, <3>2
    <3> QED BY <2>11, <3>3
  <2>13. BorrowedHeld'
    BY <1>1, <1>2 DEF BorrowedHeld
  <2>14. CallInv(t)'
    BY <1>1, <1>10, <2>2 DEF CallInv
  <2>15. PathInv(t)'
    <3>1. path'[t][1].obj = obj'[t]
      <4>1. CASE s = <<>>
        BY <1>1, <1>3, <1>7, <2>4, <2>5, <4>1
      <4>2. CASE s # <<>>
        BY <1>1, <1>4, <1>10, <2>4, <2>5, <4>2
      <4> QED BY <4>1, <4>2
    <3>2. \A k \in DOMAIN path'[t] :
            /\ path'[t][k].cur = word'[path'[t][k].obj]
            /\ ~path'[t][k].cur.shared
            /\ k + 1 \in DOMAIN path'[t] => child'[path'[t][k].obj] = path'[t][k + 1].obj
      BY <1>1, <2>4, <2>5
    <3>3. \A k, j \in DOMAIN path'[t] :
            j < k => path'[t][k].obj \in Reach({child[path[t][j].obj]})'
      <4>1. \A j : Reach({child[path[t][j].obj]})' = Reach({child[r[j].obj]})
        BY <1>1, <2>5 DEF Reach, Closed
      <4>2. ASSUME NEW k \in DOMAIN path'[t], NEW j \in DOMAIN path'[t], j < k
            PROVE  path'[t][k].obj \in Reach({child[path[t][j].obj]})'
        <5>1. r[k].obj \in Reach({child[r[j].obj]})
          BY <2>4, <2>5, <4>2
        <5> QED BY <2>5, <4>1, <5>1
      <4> QED BY <4>2
    <3>4. pc'[t] = "promote"
      BY <1>1, <2>2
    <3> QED BY <3>1, <3>2, <3>3, <3>4 DEF PathInv
  <2> QED BY <1>1, <1>8, <2>6, <2>7, <2>9, <2>10, <2>12, <2>13, <2>14, <2>15, SameHeap
          DEF heapVars
<1> QED BY <1>11, <1>12

Shorter(s) == SubSeq(s, 1, Len(s) - 1)

LEMMA ShorterIs ==
  ASSUME NEW T, NEW s \in Seq(T), s # <<>>, NEW r, r = Shorter(s)
  PROVE  /\ r \in Seq(T) /\ DOMAIN r = 1 .. (Len(s) - 1) /\ Len(r) = Len(s) - 1
         /\ \A k \in DOMAIN r : k \in DOMAIN s /\ k < Len(s) /\ r[k] = s[k]
         /\ r = <<>> <=> Len(s) = 1
<1>1. PICK n \in Nat : n = Len(s) - 1 /\ Len(s) = n + 1
  BY EmptySeq, LenProperties
<1>2. \A k \in 1 .. n : s[k] \in T /\ k \in DOMAIN s /\ k < Len(s)
  BY <1>1, ElementOfSeq
<1>3. r = SubSeq(s, 1, n)
  BY <1>1 DEF Shorter
<1>4. r \in Seq(T) /\ Len(r) = n
  <2>1. /\ SubSeq(s, 1, n) \in Seq(T)
        /\ Len(SubSeq(s, 1, n)) = IF 1 <= n THEN n - 1 + 1 ELSE 0
    BY <1>2, SubSeqProperties
  <2>2. n = IF 1 <= n THEN n - 1 + 1 ELSE 0
    OBVIOUS
  <2> QED BY <1>3, <2>1, <2>2
<1>5. \A k \in 1 .. n : r[k] = s[k]
  <2>1. \A k \in 1 .. (n - 1 + 1) : SubSeq(s, 1, n)[k] = s[1 + k - 1]
    BY <1>2, SubSeqProperties
  <2>2. \A k \in 1 .. n : k \in 1 .. (n - 1 + 1) /\ 1 + k - 1 = k
    OBVIOUS
  <2> QED BY <1>3, <2>1, <2>2
<1>6. DOMAIN r = 1 .. n /\ (r = <<>> <=> n = 0)
  BY <1>4, LenProperties, EmptySeq
<1> QED BY <1>1, <1>2, <1>4, <1>5, <1>6

\* All objects on the way are marked.
LEMMA MarkedStep ==
  ASSUME RefCountInv, NEW t \in Threads, PromoteUp(t), path[t] = <<>>
  PROVE  RefCountInv'
<1>1. /\ pc[t] = "mark" /\ pc' = [pc EXCEPT ![t] = "exchange"]
      /\ UNCHANGED <<word, life, child, root, pending, owned, borrowed, obj, cur, arg,
                     path>>
  BY DEF PromoteUp
<1>2. TypeOK /\ BorrowedHeld /\ CallInv(t) /\ PathInv(t)
  BY DEF RefCountInv
<1>3. pc'[t] = "exchange" /\ \A u \in Threads : u # t => pc'[u] = pc[u]
  BY <1>1, <1>2 DEF TypeOK
<1>4. TypeOK'
  BY <1>1, <1>2 DEF TypeOK
<1>5. OthersKept(t)
  BY <1>1, <1>3 DEF OthersKept
<1>6. PICK own \in [Objects -> Threads] : BelongTo(own)
  BY OwnerOf
<1>7. \A u \in Threads, p \in Objects : Holds(u, p)' <=> Holds(u, p)
  BY <1>1, <1>3 DEF Holds
<1>8. \A p \in Objects : Refs(p)' = Refs(p)
  BY <1>1, <1>7, RefsSame
<1>9. \A p \in Objects : LocalObject(p) => p \notin Global'
  BY <1>1, <1>6 DEF Global, BelongTo
<1>10. \A p \in Objects : Touches(t, p)' => Touches(t, p)
  BY <1>1 DEF Touches
<1>11. BorrowedHeld'
  BY <1>1, <1>2 DEF BorrowedHeld
<1>12. CallInv(t)'
  BY <1>1, <1>2, <1>3 DEF CallInv
<1>13. PathInv(t)'
  <2>1. word'[obj'[t]].shared
    BY <1>1, <1>2 DEF PathInv
  <2>2. path'[t] = <<>> /\ \A k \in DOMAIN path'[t] : FALSE
    BY <1>1
  <2> QED BY <1>3, <2>1, <2>2 DEF PathInv
<1> QED BY <1>1, <1>4, <1>5, <1>6, <1>8, <1>9, <1>10, <1>11, <1>12, <1>13, SameHeap
        DEF heapVars

\* One object is marked.
LEMMA MarkStep ==
  ASSUME RefCountInv, NEW t \in Threads, PromoteUp(t), path[t] # <<>>
  PROVE  RefCountInv'
<1>1. TypeOK /\ Acyclic /\ BorrowedHeld /\ CallInv(t) /\ PathInv(t)
  BY DEF RefCountInv
<1>2. PICK s : s = path[t]
  OBVIOUS
<1>3. /\ s \in Seq([obj : Objects, cur : Words]) /\ DOMAIN s = 1 .. Len(s)
      /\ Len(s) \in Nat /\ Len(s) # 0
      /\ \A k \in DOMAIN s :
           /\ s[k].obj \in Objects /\ s[k].cur \in Words
           /\ s[k].cur = word[s[k].obj] /\ ~s[k].cur.shared
           /\ k + 1 \in DOMAIN s => child[s[k].obj] = s[k + 1].obj
           /\ \A j \in DOMAIN s : j < k => s[k].obj \in Reach({child[s[j].obj]})
  <2>1. Chain(s)
    BY <1>2, PathFacts
  <2> QED BY <1>2, <2>1 DEF Chain
<1>4. PICK m \in DOMAIN s : m = Len(s)
  BY <1>3
<1>5. PICK q \in Objects : q = s[m].obj
  BY <1>3
<1>6. PICK w : w = [count |-> word[q].count, shared |-> TRUE]
  OBVIOUS
<1>7. PICK r : r = Shorter(s)
  OBVIOUS
<1>8. /\ pc[t] = "mark"
      /\ word' = [word EXCEPT ![q] = w]
      /\ path' = [path EXCEPT ![t] = r]
      /\ UNCHANGED <<pc, life, child, root, pending, owned, borrowed, obj, cur, arg>>
  <2>1. s[m].cur = word[q]
    BY <1>3, <1>5
  <2>2. /\ pc[t] = "mark"
        /\ word' = [word EXCEPT ![s[Len(s)].obj] =
                      [count |-> s[Len(s)].cur.count, shared |-> TRUE]]
        /\ path' = [path EXCEPT ![t] = Shorter(s)]
        /\ UNCHANGED <<pc, life, child, root, pending, owned, borrowed, obj, cur, arg>>
    BY <1>2 DEF PromoteUp, Shorter
  <2> QED BY <1>4, <1>5, <1>6, <1>7, <2>1, <2>2
<1>9. /\ r \in Seq([obj : Objects, cur : Words])
      /\ DOMAIN r = 1 .. (m - 1) /\ Len(r) = m - 1
      /\ \A k \in DOMAIN r : k \in DOMAIN s /\ k < m /\ r[k] = s[k]
      /\ r = <<>> <=> m = 1
  BY <1>2, <1>3, <1>4, <1>7, ShorterIs
<1>10. /\ word'[q].count = word[q].count /\ word'[q].shared = TRUE
       /\ \A p \in Objects : p # q => word'[p] = word[p]
       /\ word' \in [Objects -> Words]
  <2>1. w \in Words /\ w.count = word[q].count /\ w.shared = TRUE
    BY <1>1, <1>6 DEF TypeOK, Words
  <2> QED BY <1>1, <1>8, <2>1 DEF TypeOK
<1>11. path'[t] = r /\ \A u \in Threads : u # t => path'[u] = path[u]
  BY <1>1, <1>8 DEF TypeOK
<1>12. TypeOK'
  BY <1>1, <1>8, <1>9, <1>10 DEF TypeOK
<1>13. OthersKept(t) /\ OneChild(t)
  BY <1>8, <1>11 DEF OthersKept, OneChild
<1>14. \A p \in Objects : CountedAfter(t, p)
  <2>1. \A p \in Objects : Refs(p)' = Refs(p)
    BY <1>8 DEF Refs
  <2>2. \A p \in Objects : word'[p].count = word[p].count
    BY <1>10
  <2>3. \A p \in Objects : Settled(t, p)
    BY <1>8, <2>1, <2>2 DEF Settled
  <2> QED BY <2>3, SettledCounted
<1>15. PICK own \in [Objects -> Threads] : BelongTo(own)
  BY OwnerOf
<1>16. child[q] = None \/ word[child[q]].shared
  BY <1>1, <1>2, <1>4, <1>5, <1>8 DEF PathInv
<1>17. Touches(t, q)
  BY <1>2, <1>5 DEF Touches
<1>18. \A u \in Threads, p \in Objects : Touches(u, p)' => Touches(u, p)
  <2>1. \A p \in Objects : Touches(t, p)' => Touches(t, p)
    BY <1>2, <1>8, <1>9, <1>11 DEF Touches
  <2> QED BY <1>13, <2>1 DEF OthersKept, Touches
<1>19. Exclusive'
  <2>1. \A p \in Objects : LocalObject(p)' => p # q /\ LocalObject(p)
    BY <1>8, <1>10 DEF LocalObject, Live
  <2>2. \A p \in Objects : LocalObject(p) => p \notin Global'
    BY <1>8, <1>15 DEF Global, BelongTo
  <2>3. ASSUME NEW p \in Objects, NEW x \in Objects, LocalObject(p), child[x] = p
        PROVE  ~word'[x].shared
    <3>1. ~word[x].shared
      BY <1>15, <2>3 DEF BelongTo
    <3>2. x # q
      BY <1>16, <2>3, NoneAssumption DEF LocalObject
    <3> QED BY <1>10, <3>1, <3>2
  <2> QED BY <1>8, <1>15, <1>18, <2>1, <2>2, <2>3, ExclusiveKept
<1>20. BorrowedHeld'
  BY <1>1, <1>8 DEF BorrowedHeld
<1>21. CallInv(t)'
  <2>1. pc[t] = "run" <=> obj[t] = None
    BY <1>1 DEF CallInv
  <2>2. arg[t] = None
    BY <1>1, <1>8 DEF CallInv
  <2> QED BY <1>8, <2>1, <2>2 DEF CallInv
<1>22. \A k \in DOMAIN r : s[k].obj # q
  <2> SUFFICES ASSUME NEW k \in DOMAIN r, s[k].obj = q
               PROVE  FALSE
    OBVIOUS
  <2>1. k \in DOMAIN s /\ k < m /\ k + 1 \in DOMAIN s
    BY <1>3, <1>4, <1>9
  <2>2. child[q] # None
    BY <1>3, <2>1, NoneAssumption
  <2>3. q \in Reach({child[q]})
    BY <1>3, <1>4, <1>5, <2>1
  <2> QED BY <1>1, <2>2, <2>3 DEF Acyclic
<1>23. PathInv(t)'
  <2>1. r # <<>> => r[1].obj = obj[t]
    <3>1. s[1].obj = obj[t]
      BY <1>1, <1>2 DEF PathInv
    <3> QED BY <1>9, <3>1
  <2>2. \A k \in DOMAIN r :
          /\ r[k].cur = word'[r[k].obj] /\ ~r[k].cur.shared
          /\ k + 1 \in DOMAIN r => child[r[k].obj] = r[k + 1].obj
    BY <1>3, <1>9, <1>10, <1>22
  <2>3. ASSUME NEW k \in DOMAIN r, NEW j \in DOMAIN r, j < k
        PROVE  r[k].obj \in Reach({child[r[j].obj]})
    <3>1. k \in DOMAIN s /\ j \in DOMAIN s /\ r[k] = s[k] /\ r[j] = s[j]
      BY <1>9
    <3>2. s[k].obj \in Reach({child[s[j].obj]})
      BY <1>3, <2>3, <3>1
    <3> QED BY <3>1, <3>2
  <2>4. \A j : Reach({child[path[t][j].obj]})' = Reach({child[r[j].obj]})
    BY <1>8, <1>11 DEF Reach, Closed
  <2>5. IF r = <<>> THEN word'[obj[t]].shared
                    ELSE LET c == child[r[Len(r)].obj] IN c = None \/ word'[c].shared
    <3>1. CASE r = <<>>
      <4>1. q = obj[t]
        BY <1>1, <1>2, <1>5, <1>9, <3>1 DEF PathInv
      <4> QED BY <1>10, <3>1, <4>1
    <3>2. CASE r # <<>>
      <4>1. Len(r) \in DOMAIN r /\ Len(r) \in DOMAIN s /\ Len(r) + 1 = m
        BY <1>3, <1>4, <1>9, <3>2
      <4>2. child[r[Len(r)].obj] = q
        BY <1>3, <1>5, <1>9, <4>1
      <4> QED BY <1>10, <3>2, <4>2
    <3> QED BY <3>1, <3>2
  <2>6. pc'[t] = "mark"
    BY <1>8
  <2>7. path'[t] # <<>> => pc'[t] \in {"promote", "mark"} /\ path'[t][1].obj = obj'[t]
    BY <1>8, <1>11, <2>1
  <2>8. \A k \in DOMAIN path'[t] :
          /\ path'[t][k].cur = word'[path'[t][k].obj]
          /\ ~path'[t][k].cur.shared
          /\ k + 1 \in DOMAIN path'[t] => child'[path'[t][k].obj] = path'[t][k + 1].obj
    BY <1>8, <1>11, <2>2
  <2>9. \A k, j \in DOMAIN path'[t] :
          j < k => path'[t][k].obj \in Reach({child[path[t][j].obj]})'
    <3>1. ASSUME NEW k \in DOMAIN path'[t], NEW j \in DOMAIN path'[t], j < k
          PROVE  path'[t][k].obj \in Reach({child[path[t][j].obj]})'
      <4>1. r[k].obj \in Reach({child[r[j].obj]})
        BY <1>11, <2>3, <3>1
      <4> QED BY <1>11, <2>4, <4>1
    <3> QED BY <3>1
  <2>10. IF path'[t] = <<>>
         THEN word'[obj'[t]].shared
         ELSE LET c == child'[path'[t][Len(path'[t])].obj]
              IN c = None \/ word'[c].shared
    BY <1>8, <1>11, <2>5
  <2> QED BY <2>6, <2>7, <2>8, <2>9, <2>10 DEF PathInv
<1>24. /\ \A p \in Objects : Live(p) /\ word'[p] # word[p] => Touches(t, p)
       /\ \A p \in Objects :
            word[p].shared /\ ~word'[p].shared => Refs(p) \subseteq {Hand(t)}
  BY <1>10, <1>17
<1> QED BY <1>12, <1>13, <1>14, <1>19, <1>20, <1>21, <1>23, <1>24, Combine

LEMMA PromoteUpStep ==
  ASSUME RefCountInv, NEW t \in Threads, PromoteUp(t)
  PROVE  RefCountInv'
  BY MarkedStep, MarkStep

-----------------------------------------------------------------------------
LEMMA InitInv ==
  ASSUME Init
  PROVE  RefCountInv
<1>1. TypeOK
  BY MaxRefsAssumption, NoneAssumption DEF Init, TypeOK, Words, Local, Maybe, Free
<1>2. \A o \in Objects : Refs(o) = {}
  <2> SUFFICES ASSUME NEW o \in Objects, NEW r \in Refs(o)
               PROVE  FALSE
    OBVIOUS
  <2>1. r \in Places(o)
    BY RefsIn
  <2>2. CASE r \in {"owned"} \X Threads \X (1 .. MaxRefs)
    <3>1. PICK t \in Threads, n \in 1 .. MaxRefs : r = <<"owned", t, n>>
      BY <2>2
    <3>2. n <= owned[t][o]
      BY <3>1, RefsIn
    <3>3. owned[t][o] = 0
      BY DEF Init
    <3> QED BY <3>2, <3>3
  <2>3. CASE r \in {"held"} \X Threads \X {0}
    <3>1. PICK t \in Threads : r = Hand(t)
      BY <2>3 DEF Hand
    <3>2. Holds(t, o)
      BY <3>1, RefsIn
    <3> QED BY <3>2, NoneAssumption DEF Init, Holds
  <2>4. CASE r \in {"root"} \X {o} \X {0}
    <3>1. r = <<"root", o, 0>>
      BY <2>4
    <3>2. root = o
      BY <3>1, RefsIn
    <3> QED BY <3>2, NoneAssumption DEF Init
  <2>5. CASE r \in {"pending"} \X Slots \X {0}
    <3>1. PICK i \in Slots : r = <<"pending", i, 0>>
      BY <2>5
    <3>2. pending[i].obj = o
      BY <3>1, RefsIn
    <3> QED BY <3>2, NoneAssumption DEF Init, Free
  <2>6. CASE r \in {"child"} \X Objects \X {0}
    <3>1. PICK p \in Objects : r = <<"child", p, 0>>
      BY <2>6
    <3>2. child[p] = o
      BY <3>1, RefsIn
    <3> QED BY <3>2, NoneAssumption DEF Init
  <2> QED BY <2>1, <2>2, <2>3, <2>4, <2>5, <2>6 DEF Places
<1>3. Counted
  <2>1. \A o \in Objects : ~Live(o) /\ child[o] = None
    BY DEF Init, Live
  <2>2. IsFiniteSet({})
    BY FS_EmptySet
  <2> QED BY <1>2, <2>1, <2>2 DEF Counted
<1>4. Acyclic
  BY DEF Init, Acyclic
<1>5. Exclusive
  <2>1. PICK u : u \in Threads
    BY ThreadsAssumption
  <2>2. PICK own \in [Objects -> Threads] : own = [o \in Objects |-> u]
    BY <2>1
  <2>3. \A o \in Objects : ~LocalObject(o)
    BY DEF Init, LocalObject, Live
  <2>4. BelongTo(own)
    BY <2>3 DEF BelongTo
  <2> QED BY <2>4 DEF Exclusive
<1>6. BorrowedHeld
  BY DEF Init, BorrowedHeld
<1>7. ASSUME NEW t \in Threads
      PROVE  CallInv(t) /\ PathInv(t)
  <2>1. /\ pc[t] = "run" /\ obj[t] = None /\ arg[t] = None /\ path[t] = <<>>
    BY DEF Init
  <2>2. \A k \in DOMAIN path[t] : FALSE
    BY <2>1
  <2>3. CallInv(t)
    BY <2>1 DEF CallInv
  <2>4. PathInv(t)
    BY <2>1, <2>2 DEF PathInv
  <2> QED BY <2>3, <2>4
<1> QED BY <1>1, <1>3, <1>4, <1>5, <1>6, <1>7 DEF RefCountInv

LEMMA StutterInv ==
  ASSUME RefCountInv, UNCHANGED vars
  PROVE  RefCountInv'
<1>1. UNCHANGED <<word, life, child, root, pending, owned, borrowed, pc, obj, cur, arg,
                  path>>
  BY DEF vars
<1>2. TypeOK' /\ BorrowedHeld' /\ Exclusive'
  <2>1. TypeOK'
    BY <1>1 DEF RefCountInv, TypeOK
  <2>4. BorrowedHeld'
    BY <1>1 DEF RefCountInv, BorrowedHeld
  <2>2. PICK own \in [Objects -> Threads] : BelongTo(own)
    BY OwnerOf
  <2>3. BelongTo(own)'
    BY <1>1, <2>2 DEF BelongTo, LocalObject, Live, Global
  <2> QED BY <2>1, <2>3, <2>4 DEF Exclusive
<1>3. \A S : Reach(S)' = Reach(S)
  BY <1>1 DEF Reach, Closed
<1>4. \A o : Refs(o)' = Refs(o)
  BY <1>1 DEF Refs
<1>5. Counted'
  BY <1>1, <1>4 DEF RefCountInv, Counted, Live
<1>6. Acyclic'
  BY <1>1 DEF RefCountInv, Acyclic, Reach, Closed
<1>7. ASSUME NEW t \in Threads
      PROVE  CallInv(t)' /\ PathInv(t)'
  <2>1. CallInv(t) /\ PathInv(t)
    BY DEF RefCountInv
  <2>2. CallInv(t)'
    BY <1>1, <2>1 DEF CallInv, Pointers, Reach, Closed, Refs, Hand
  <2>3. PathInv(t)'
    BY <1>1, <2>1 DEF PathInv, Reach, Closed
  <2> QED BY <2>2, <2>3
<1> QED BY <1>2, <1>5, <1>6, <1>7 DEF RefCountInv

LEMMA NextInv ==
  ASSUME RefCountInv, PromotionsCover, [Next]_vars
  PROVE  RefCountInv'
<1>1. CASE UNCHANGED vars
  BY <1>1, StutterInv
<1>2. ASSUME NEW t \in Threads, Step(t)
      PROVE  RefCountInv'
  <2>1. ASSUME NEW o \in Objects, Create(t, o)
        PROVE  RefCountInv'
    BY <2>1, CreateStep
  <2>2. ASSUME NEW o \in Objects, RetainLoad(t, o)
        PROVE  RefCountInv'
    BY <2>2, RetainLoadStep
  <2>3. ASSUME NEW o \in Objects, ReleaseLoad(t, o)
        PROVE  RefCountInv'
    <3>1. /\ Take(t, o) /\ Call(t, "release", o)
          /\ UNCHANGED <<heapVars, root, pending, borrowed, arg, path>>
      BY <2>3 DEF ReleaseLoad
    <3> QED BY <3>1, TakeStep
  <2>4. ASSUME NEW o \in Objects, BindRoot(t, o)
        PROVE  RefCountInv'
    <3>1. /\ Take(t, o) /\ Call(t, "promote", o)
          /\ UNCHANGED <<heapVars, root, pending, borrowed, arg, path>>
      BY <2>4 DEF BindRoot
    <3> QED BY <3>1, TakeStep
  <2>5. ASSUME NEW o \in Objects, NEW c \in Objects, Wrap(t, o, c)
        PROVE  RefCountInv'
    BY <2>5, WrapStep
  <2>6. ASSUME NEW o \in Objects, NEW c \in Objects, ReuseLoad(t, o, c)
        PROVE  RefCountInv'
    BY <2>6, ReuseLoadStep
  <2>7. ASSUME NEW i \in Slots, Reclaim(t, i)
        PROVE  RefCountInv'
    BY <2>7, ReclaimStep
  <2> QED BY <1>2, <2>1, <2>2, <2>3, <2>4, <2>5, <2>6, <2>7, RetainStoreStep,
             ReleaseStoreStep, ReleaseDestroyStep, ReuseRefusedStep, ReuseInPlaceStep,
             PromoteDownStep, PromoteUpStep, BindExchangeStep, UnbindStep, PeekStep,
             QuiesceStep DEF Step
<1> QED BY <1>1, <1>2 DEF Next

\* The inductive invariant: every reference has its place, local objects have
\* an owner, and what is in a hand is as it was loaded.  It holds in the
\* behaviours in which every shallow promotion (Object_promoteToSharedShallow) is
\* enough for what hangs below its object.
THEOREM RefCountInvariant == CoveredSpec => []RefCountInv
<1>1. Init => RefCountInv /\ PromotionsCover
  <2>1. Init => PromotionsCover
    BY DEF Init, PromotionsCover
  <2> QED BY <2>1, InitInv
<1>2. RefCountInv /\ PromotionsCover /\ [Next /\ PromotionsCover']_vars
        => RefCountInv' /\ PromotionsCover'
  <2>1. PromotionsCover /\ UNCHANGED vars => PromotionsCover'
    BY DEF PromotionsCover, vars
  <2> QED BY <2>1, NextInv
<1> QED BY <1>1, <1>2, PTL DEF CoveredSpec

-----------------------------------------------------------------------------
\* Object_retain and Object_release: the count of every object is the number of
\* references to it, if no shallow promotion leaves a local object below the one it
\* marks.
THEOREM CountsTheorem == CoveredSpec => []CountsAreExact
<1>1. RefCountInv => CountsAreExact
  BY DEF RefCountInv, Counted, CountsAreExact, References, Live
<1> QED BY <1>1, RefCountInvariant, PTL

\* What a thread has a pointer to.
LEMMA RootsLive ==
  ASSUME RefCountInv, NEW t \in Threads
  PROVE  /\ Roots(t) \in SUBSET Objects
         /\ Roots(t) \subseteq {o \in Objects : Live(o)}
<1>1. TypeOK /\ CallInv(t)
  BY DEF RefCountInv
<1>2. \A o \in borrowed[t] : o \in Objects /\ Live(o)
  BY BorrowedGlobal, GlobalRef
<1>3. obj[t] # None => obj[t] \in Objects /\ Live(obj[t])
  BY <1>1, ObjLive DEF CallInv
<1>4. arg[t] # None => arg[t] \in Objects /\ Live(arg[t])
  BY <1>1, ObjLive DEF CallInv
<1>5. \A o \in Objects : owned[t][o] > 0 => Live(o)
  BY OwnedRef
<1>6. \A o \in Roots(t) : o \in Objects /\ Live(o)
  BY <1>2, <1>3, <1>4, <1>5 DEF Roots
<1> QED BY <1>6

LEMMA GlobalLive ==
  ASSUME RefCountInv
  PROVE  Global \in SUBSET Objects /\ Global \subseteq {o \in Objects : Live(o)}
<1>1. Global \in SUBSET Objects
  BY DEF RefCountInv, TypeOK, Maybe, Global
<1> QED BY <1>1, GlobalRef

\* Nobody follows a pointer to a destroyed object, neither one of a thread nor
\* one from the root of the Var or from the pending list, if every shallow
\* promotion is enough.
THEOREM NoDanglingTheorem == CoveredSpec => []NoDangling
<1>1. RefCountInv => NoDangling
  <2> SUFFICES ASSUME RefCountInv
               PROVE  NoDangling
    OBVIOUS
  <2>1. Reach(Global) \subseteq {o \in Objects : Live(o)}
    BY GlobalLive, LiveClosed
  <2>2. \A t \in Threads : Reach(Roots(t)) \subseteq {o \in Objects : Live(o)}
    BY RootsLive, LiveClosed
  <2> QED BY <2>1, <2>2 DEF NoDangling, Reaches, Live
<1> QED BY <1>1, RefCountInvariant, PTL

\* promoteToShared and Object_isReusable keep what Object_retain relies on: an
\* object without SHARED_BIT is within the reach of one thread at most, if every
\* shallow promotion is enough.
THEOREM LocalTheorem == CoveredSpec => []LocalMeansExclusive
<1>1. RefCountInv => LocalMeansExclusive
  <2> SUFFICES ASSUME RefCountInv
               PROVE  LocalMeansExclusive
    OBVIOUS
  <2>1. PICK own \in [Objects -> Threads] : BelongTo(own)
    BY OwnerOf
  <2>2. \A o \in Reach(Global) : ~LocalObject(o)
    <3>1. \A o \in Global : ~LocalObject(o)
      BY <2>1, GlobalLive DEF BelongTo
    <3> QED BY <3>1, GlobalLive, ReachShared
  <2>3. ASSUME NEW t \in Threads
        PROVE  \A o \in Reach(Roots(t)) : LocalObject(o) => own[o] = t
    <3>1. \A o \in borrowed[t] : o \in Objects /\ ~LocalObject(o)
      BY <2>1, BorrowedGlobal DEF BelongTo
    <3>2. \A o \in Objects : o \in Roots(t) \ borrowed[t] => Touches(t, o)
      BY DEF Roots, Touches
    <3>3. \A o \in Roots(t) : LocalObject(o) => own[o] = t
      BY <2>1, <3>1, <3>2, RootsLive, TouchesOwn
    <3> QED BY <2>1, <3>3, RootsLive, ReachOwn
  <2>4. \A o \in Objects : LocalObject(o) =>
          /\ o \notin Reach(Global)
          /\ \A t, u \in Threads :
               o \in Reach(Roots(t)) /\ o \in Reach(Roots(u)) => t = u
    BY <2>2, <2>3
  <2> QED BY <2>4 DEF LocalMeansExclusive, LocalObject, Live, Reaches
<1> QED BY <1>1, RefCountInvariant, PTL

\* Object_isReusable: an object is changed in place only while the changing
\* thread has the one reference to it, and nobody borrows it, if every shallow
\* promotion is enough.
THEOREM InPlaceTheorem == CoveredSpec => InPlaceUnseen
<1> DEFINE Unseen ==
      \A o \in Objects :
        life[o] = "live" /\ life'[o] = "live" /\ child'[o] # child[o] =>
          /\ References(o) = 1
          /\ \A t \in Threads : o \notin Reach(borrowed[t])
<1>1. RefCountInv /\ [Next]_vars => Unseen
  <2> SUFFICES ASSUME RefCountInv, [Next]_vars, NEW o \in Objects,
                      life[o] = "live", life'[o] = "live", child'[o] # child[o]
               PROVE  /\ References(o) = 1
                      /\ \A t \in Threads : o \notin Reach(borrowed[t])
    OBVIOUS
  <2>1. TypeOK
    BY DEF RefCountInv
  <2>2. PICK t \in Threads : Step(t) /\ child' # child
    BY DEF Next, vars
  <2>3. \/ \E p, c \in Objects : Wrap(t, p, c)
        \/ ReleaseDestroy(t) \/ ReuseInPlace(t)
    BY <2>2 DEF Step, Create, RetainLoad, ReleaseLoad, BindRoot, ReuseLoad, RetainStore,
                ReleaseStore, ReuseRefused, PromoteDown, PromoteUp, BindExchange,
                UnbindRoot, Peek, Quiesce, Reclaim, heapVars
  <2>4. ASSUME NEW p \in Objects, NEW c \in Objects, Wrap(t, p, c)
        PROVE  FALSE
    <3>1. child' = [child EXCEPT ![p] = c] /\ life[p] = "unused"
      BY <2>4 DEF Wrap
    <3>2. p = o
      BY <2>1, <3>1 DEF TypeOK
    <3> QED BY <3>1, <3>2
  <2>5. ~ReleaseDestroy(t)
    <3> SUFFICES ASSUME ReleaseDestroy(t)
                 PROVE  FALSE
      OBVIOUS
    <3>1. /\ child' = [child EXCEPT ![obj[t]] = None]
          /\ life' = [life EXCEPT ![obj[t]] = "dead"]
      BY DEF ReleaseDestroy
    <3>2. obj[t] = o
      BY <2>1, <3>1 DEF TypeOK
    <3> QED BY <2>1, <3>1, <3>2 DEF TypeOK
  <2>6. ReuseInPlace(t)
    BY <2>3, <2>4, <2>5
  <2>7. /\ pc[t] = "reuse" /\ cur[t].count = 1
        /\ child' = [child EXCEPT ![obj[t]] = arg[t]]
    BY <2>6 DEF ReuseInPlace
  <2>8. obj[t] = o
    BY <2>1, <2>7 DEF TypeOK
  <2>9. Refs(o) = {Hand(t)}
    BY <2>7, <2>8 DEF RefCountInv, CallInv
  <2>10. Cardinality({Hand(t)}) = 1
    BY FS_Singleton
  <2> QED BY <2>9, <2>10, OnlyHand DEF References
<1>2. [Next /\ PromotionsCover']_vars => [Next]_vars
  OBVIOUS
<1> QED BY <1>1, <1>2, RefCountInvariant, PTL DEF CoveredSpec, InPlaceUnseen

-----------------------------------------------------------------------------
\* Nothing leaks.

\* What keeps an object: the root, the pending list, a reference that a thread
\* has to release, or a function of Object.h that works on one.
Anchors ==
  {o \in Objects :
     o \in Global \/ \E t \in Threads : owned[t][o] > 0 \/ Holds(t, o)}

\* Every object that has not been destroyed can still be reached from a place
\* whose owner is going to release it.
NothingLeaks == \A o \in Objects : Live(o) => o \in Reach(Anchors)

\* Object_release does not leave an object with a count of zero.
Positive == \A o \in Objects : Live(o) => word[o].count > 0

LEMMA PositiveKept ==
  ASSUME RefCountInv, Positive, [Next]_vars
  PROVE  Positive'
<1> SUFFICES ASSUME NEW o \in Objects, Live(o)'
             PROVE  word'[o].count > 0
  BY DEF Positive
<1>1. TypeOK
  BY DEF RefCountInv
<1>2. CASE word' = word /\ life' = life
  BY <1>2 DEF Positive, Live
<1>3. ASSUME NEW t \in Threads, Step(t), ~(word' = word /\ life' = life)
      PROVE  word'[o].count > 0
  <2>1. \/ \E p \in Objects : Create(t, p) \/ \E c \in Objects : Wrap(t, p, c)
        \/ RetainStore(t) \/ ReleaseStore(t) \/ ReleaseDestroy(t)
        \/ ReuseInPlace(t) \/ PromoteUp(t)
    BY <1>3 DEF Step, RetainLoad, ReleaseLoad, BindRoot, ReuseLoad, ReuseRefused,
                PromoteDown, BindExchange, UnbindRoot, Peek, Quiesce, Reclaim, heapVars
  <2>2. ASSUME NEW p \in Objects, Create(t, p) \/ \E c \in Objects : Wrap(t, p, c)
        PROVE  word'[o].count > 0
    <3>1. /\ life' = [life EXCEPT ![p] = "live"]
          /\ word' = [word EXCEPT ![p] = Local(1)]
      BY <2>2 DEF Create, Wrap
    <3> QED BY <1>1, <3>1 DEF TypeOK, Positive, Live, Local
  <2>3. CASE RetainStore(t)
    <3>1. /\ word' = [word EXCEPT ![obj[t]] =
                        IF cur[t].shared
                        THEN [count |-> @.count + 1, shared |-> @.shared]
                        ELSE Local(cur[t].count + 1)]
          /\ life' = life
      BY <2>3 DEF RetainStore
    <3>2. cur[t].count \in Nat /\ word[o].count \in Nat /\ word[o].count > 0
      BY <1>1, <3>1 DEF TypeOK, Words, Positive, Live
    <3> QED BY <1>1, <3>1, <3>2 DEF TypeOK, Local
  <2>4. CASE ReleaseStore(t)
    <3>1. /\ word' = [word EXCEPT ![obj[t]] =
                        IF cur[t].shared
                        THEN [count |-> @.count - 1, shared |-> @.shared]
                        ELSE Local(cur[t].count - 1)]
          /\ life' = life /\ CountBefore(t) # 1 /\ pc[t] = "release"
      BY <2>4 DEF ReleaseStore
    <3>2. word[o].count \in Nat /\ word[o].count > 0
      BY <1>1, <3>1 DEF TypeOK, Words, Positive, Live
    <3>3. /\ word[obj[t]].count # 1
          /\ ~cur[t].shared => word[obj[t]].count = cur[t].count
      BY <3>1, ReleaseCount
    <3> QED BY <1>1, <3>1, <3>2, <3>3 DEF TypeOK, Local
  <2>5. CASE ReleaseDestroy(t)
    <3>1. /\ life' = [life EXCEPT ![obj[t]] = "dead"]
          /\ word' = [word EXCEPT ![obj[t]] = Local(0)]
      BY <2>5 DEF ReleaseDestroy
    <3>2. o # obj[t]
      BY <1>1, <3>1 DEF TypeOK, Live
    <3> QED BY <1>1, <3>1, <3>2 DEF TypeOK, Positive, Live
  <2>6. CASE ReuseInPlace(t)
    <3>1. /\ word' = [word EXCEPT ![obj[t]] = IF cur[t].shared THEN Local(1) ELSE @]
          /\ life' = life
      BY <2>6 DEF ReuseInPlace
    <3> QED BY <1>1, <3>1 DEF TypeOK, Positive, Live, Local
  <2>7. CASE PromoteUp(t)
    <3>1. life' = life /\ path[t] # <<>>
      BY <1>3, <2>7 DEF PromoteUp
    <3> DEFINE n == Len(path[t])
    <3>2. word' = [word EXCEPT ![path[t][n].obj] =
                     [count |-> path[t][n].cur.count, shared |-> TRUE]]
      BY <2>7, <3>1 DEF PromoteUp
    <3>3. n \in DOMAIN path[t]
      BY <1>1, <3>1 DEF TypeOK
    <3>4. path[t][n].cur = word[path[t][n].obj]
      BY <3>3 DEF RefCountInv, PathInv
    <3> HIDE DEF n
    <3> QED BY <1>1, <3>1, <3>2, <3>4 DEF TypeOK, Positive, Live
  <2> QED BY <2>1, <2>2, <2>3, <2>4, <2>5, <2>6, <2>7
<1> QED BY <1>2, <1>3 DEF Next, vars

\* An object without an anchor is kept by another one, which has none either.
LEMMA KeptByAnother ==
  ASSUME RefCountInv, Positive, NEW o \in Objects, Live(o), o \notin Reach(Anchors)
  PROVE  \E p \in Objects : Live(p) /\ p \notin Reach(Anchors) /\ child[p] = o
<1>1. TypeOK /\ Counted
  BY DEF RefCountInv
<1>2. Cardinality(Refs(o)) > 0
  BY <1>1 DEF Counted, Positive
<1>3. PICK r : r \in Refs(o)
  BY <1>2, FS_EmptySet
<1>4. o \notin Anchors
  BY ReachStart
<1>5. /\ o \notin Global
      /\ \A t \in Threads : ~(owned[t][o] > 0) /\ ~Holds(t, o)
  BY <1>4 DEF Anchors
<1>6. o # None
  BY NoneAssumption
<1>7. root # o /\ \A i \in Slots : pending[i].obj # o
  BY <1>5, <1>6 DEF Global
<1>8. ~(r \in {"owned"} \X Threads \X (1 .. MaxRefs))
  <2> SUFFICES ASSUME NEW t \in Threads, NEW n \in 1 .. MaxRefs, r = <<"owned", t, n>>
               PROVE  FALSE
    OBVIOUS
  <2>1. <<"owned", t, n>> \in Refs(o)
    BY <1>3
  <2>2. n <= owned[t][o]
    BY <2>1, RefsIn
  <2>3. owned[t][o] \in Int /\ n \in Int /\ n > 0
    BY <1>1, MaxRefsAssumption DEF TypeOK
  <2>4. owned[t][o] > 0
    BY <2>2, <2>3
  <2> QED BY <1>5, <2>4
<1>9. ~(r \in {"held"} \X Threads \X {0})
  <2> SUFFICES ASSUME NEW t \in Threads, r = Hand(t)
               PROVE  FALSE
    BY DEF Hand
  <2>1. Holds(t, o)
    BY <1>3, RefsIn
  <2> QED BY <1>5, <2>1
<1>10. ~(r \in {"root"} \X {o} \X {0})
  BY <1>3, <1>7, RefsIn
<1>11. ~(r \in {"pending"} \X Slots \X {0})
  <2> SUFFICES ASSUME NEW i \in Slots, r = <<"pending", i, 0>>
               PROVE  FALSE
    OBVIOUS
  <2>1. <<"pending", i, 0>> \in Refs(o)
    BY <1>3
  <2>2. pending[i].obj = o
    BY <2>1, RefsIn
  <2> QED BY <1>7, <2>2
<1>12. r \in Places(o)
  BY <1>3, RefsIn
<1>13. PICK p \in Objects : r = <<"child", p, 0>>
  BY <1>8, <1>9, <1>10, <1>11, <1>12 DEF Places
<1>14. child[p] = o
  BY <1>3, <1>13, RefsIn
<1>15. Live(p)
  BY <1>14, ChildRef
<1>16. p \notin Reach(Anchors)
  BY <1>1, <1>6, <1>14, ReachChild
<1> QED BY <1>14, <1>15, <1>16

\* The keeper of an object reaches more than the object does.
LEMMA KeeperReachesMore ==
  ASSUME RefCountInv, IsFiniteSet(Objects), NEW o \in Objects, NEW p \in Objects,
         child[p] = o
  PROVE  /\ Cardinality(Reach({o})) \in Nat
         /\ Cardinality(Reach({p})) \in Nat
         /\ Cardinality(Reach({o})) < Cardinality(Reach({p}))
         /\ Cardinality(Reach({p})) <= Cardinality(Objects)
<1>1. TypeOK /\ Acyclic /\ o # None
  BY NoneAssumption DEF RefCountInv
<1>2. p \notin Reach({o})
  BY <1>1 DEF Acyclic
<1>3. p \in Reach({p})
  BY ReachStart
<1>4. o \in Reach({p})
  BY <1>1, <1>3, ReachChild
<1>5. Closed(Reach({p}))
  BY <1>1, ReachChild DEF Closed
<1>6. Reach({o}) \subseteq Reach({p})
  BY <1>4, <1>5, ReachWithin, ReachType
<1>7. Reach({p}) \subseteq Objects
  BY ReachType
<1>8. IsFiniteSet(Reach({p})) /\ Cardinality(Reach({p})) <= Cardinality(Objects)
  BY <1>7, FS_Subset
<1>9. /\ IsFiniteSet(Reach({o}))
      /\ Cardinality(Reach({o})) <= Cardinality(Reach({p}))
      /\ Cardinality(Reach({o})) = Cardinality(Reach({p})) => Reach({o}) = Reach({p})
  BY <1>6, <1>8, FS_Subset
<1>10. Cardinality(Reach({o})) \in Nat /\ Cardinality(Reach({p})) \in Nat
  BY <1>8, <1>9, FS_CardinalityType
<1> QED BY <1>2, <1>3, <1>8, <1>9, <1>10

LessNat == {p \in Nat \X Nat : p[1] < p[2]}

LEMMA SmallestOf ==
  ASSUME NEW T \in SUBSET Nat, T # {}
  PROVE  \E n \in T : \A m \in T : n <= m
<1>1. OpToRel(<, Nat) = LessNat
  BY Zenon DEF OpToRel, LessNat
<1>2. PICK n \in T : \A m \in T : ~(<<m, n>> \in LessNat)
  BY <1>1, NatLessThanWellFounded, WFMin
<1>3. ASSUME NEW m \in T
      PROVE  n <= m
  <2>1. <<m, n>> \in Nat \X Nat /\ ~(<<m, n>> \in LessNat)
    BY <1>2
  <2>2. ~(<<m, n>>[1] < <<m, n>>[2])
    BY <2>1 DEF LessNat
  <2> QED BY <2>2
<1> QED BY <1>3

\* A leaked object would have a leaked keeper, that one another, and so on; but
\* each of them reaches more objects than the one it keeps.
LEMMA NoneLeaks ==
  ASSUME RefCountInv, Positive, IsFiniteSet(Objects)
  PROVE  NothingLeaks
<1> DEFINE Leaked == {o \in Objects : Live(o) /\ o \notin Reach(Anchors)}
           Room(o) == Cardinality(Objects) - Cardinality(Reach({o}))
           T == {n \in Nat : \E o \in Leaked : n = Room(o)}
<1>1. ASSUME NEW o \in Leaked
      PROVE  \E p \in Leaked : Room(p) \in Nat /\ Room(p) < Room(o)
  <2>1. o \in Objects /\ Live(o) /\ o \notin Reach(Anchors)
    OBVIOUS
  <2>2. PICK p \in Objects : Live(p) /\ p \notin Reach(Anchors) /\ child[p] = o
    BY <2>1, KeptByAnother
  <2>3. p \in Leaked
    BY <2>2
  <2>4. /\ Cardinality(Reach({o})) \in Nat
        /\ Cardinality(Reach({p})) \in Nat
        /\ Cardinality(Reach({o})) < Cardinality(Reach({p}))
        /\ Cardinality(Reach({p})) <= Cardinality(Objects)
    BY <2>1, <2>2, KeeperReachesMore
  <2>5. Cardinality(Objects) \in Nat
    BY FS_CardinalityType
  <2>6. Room(p) \in Nat /\ Room(p) < Room(o)
    BY <2>4, <2>5
  <2> QED BY <2>3, <2>6
<1> HIDE DEF Room
<1>2. ASSUME NEW o \in Leaked
      PROVE  FALSE
  <2>1. T \in SUBSET Nat /\ T # {}
    BY <1>1
  <2>2. PICK n \in T : \A m \in T : n <= m
    BY <2>1, SmallestOf
  <2>3. PICK q \in Leaked : n = Room(q)
    BY <2>2
  <2>4. PICK p \in Leaked : Room(p) \in Nat /\ Room(p) < Room(q)
    BY <2>3, <1>1
  <2>5. Room(p) \in T
    BY <2>4
  <2> QED BY <2>2, <2>3, <2>4, <2>5
<1> QED BY <1>2 DEF NothingLeaks

\* Object_release destroys what nobody can reach any more: an object that is
\* still alive hangs from the root of the Var, from the pending list or from a
\* reference that a thread has yet to release, however many threads count, if
\* every shallow promotion is enough.
THEOREM NothingLeaksTheorem ==
  ASSUME IsFiniteSet(Objects)
  PROVE  CoveredSpec => []NothingLeaks
<1>1. Init => Positive
  BY DEF Init, Positive, Live
<1>2. RefCountInv /\ Positive /\ [Next]_vars => Positive'
  BY PositiveKept
<1>3. RefCountInv /\ Positive => NothingLeaks
  BY NoneLeaks
<1>4. [Next /\ PromotionsCover']_vars => [Next]_vars
  OBVIOUS
<1> QED BY <1>1, <1>2, <1>3, <1>4, RefCountInvariant, PTL DEF CoveredSpec
=============================================================================
