----------------------------- MODULE VectorOps -----------------------------
(***************************************************************************)
(* Persistent vectors: a tree of nodes of RRB_BRANCHING slots and a tail   *)
(* (backend/runtime/PersistentVector.c, PersistentVectorNode.c).  Every    *)
(* operation consumes its vector, and one that has the only reference to   *)
(* it updates it in place.                                                 *)
(*                                                                         *)
(* The operators are the C functions, on the heaps of Heap.tla.  A call    *)
(* that returns a pointer yields [h |-> heap, r |-> pointer].              *)
(***************************************************************************)
EXTENDS Heap

CONSTANT RRB_BITS          \* log2 of the branching factor

ASSUME BitsAssumption == RRB_BITS \in Nat \ {0}

RRB_BRANCHING == 2^RRB_BITS
PERSISTENT == 0

(* (index >> level) & RRB_MASK *)
Slot(index, level) == (index \div 2^level) % RRB_BRANCHING

-----------------------------------------------------------------------------
(* Objects.  A node owns the values or subnodes of its array; the array    *)
(* always has room for RRB_BRANCHING entries.  A vector owns its tail, its *)
(* root and its metadata.                                                  *)

NewNode(h, array, leaf, tid) == Alloc(h, "node", array, [leaf |-> leaf, tid |-> tid])

NewVector(h, count, shift, tid, tail, root, meta) ==
  Alloc(h, "vector", <<tail, root, meta>>, [count |-> count, shift |-> shift, tid |-> tid])

Array(h, n) == h[n].kids
IsLeaf(h, n) == h[n].info.leaf
Tid(h, a) == h[a].info.tid
TailOf(h, v) == h[v].kids[1]
RootOf(h, v) == h[v].kids[2]
MetaOf(h, v) == h[v].kids[3]
Count(h, v) == h[v].info.count
Shift(h, v) == h[v].info.shift
TailOffset(h, v) == Count(h, v) - Len(Array(h, TailOf(h, v)))

(* The new vector of memcpy: every field is copied, and no count changes.  *)
CopyVector(h, v) == Alloc(h, "vector", h[v].kids, h[v].info)

(* A node copied with memcpy has the transient ID of the original.         *)
CopyNode(h, n, array) == NewNode(h, array, IsLeaf(h, n), Tid(h, n))

-----------------------------------------------------------------------------
(* Reading *)

RECURSIVE Descend(_, _, _, _)
Descend(h, node, level, index) ==
  IF node \notin Addr \/ level <= 0 THEN node
  ELSE Descend(h, At(Array(h, node), Slot(index, level)), level - RRB_BITS, index)

nthBlock(h, v, index) ==
  IF index >= Count(h, v) THEN Null
  ELSE IF index >= TailOffset(h, v) THEN TailOf(h, v)
  ELSE Descend(h, RootOf(h, v), Shift(h, v), index)

(* The element at an index inside the vector, without its count.           *)
Element(h, v, index) ==
  LET block == nthBlock(h, v, index)
  IN  IF block \notin Addr THEN Garbage
      ELSE At(Array(h, block), IF index >= TailOffset(h, v) THEN index - TailOffset(h, v)
                                                             ELSE index % RRB_BRANCHING)

(* nth consumes the vector and gives the caller a reference to the element.*)
nth(h, v, index) ==
  IF index >= Count(h, v) THEN [h |-> Release(h, v), r |-> Throws]
  ELSE LET e == Element(h, v, index) IN [h |-> Release(Retain(h, e), v), r |-> e]

nth_default(h, v, index, notFound) ==
  IF index >= Count(h, v) THEN [h |-> Release(h, v), r |-> notFound]
  ELSE LET e == Element(h, v, index)
       IN  [h |-> Release(Release(Retain(h, e), notFound), v), r |-> e]

(* A key that is no small integer is in no vector; the keys here are     *)
(* integers, in and out of bounds.                                         *)
InBounds(h, v, key) == 0 <= key /\ key < Count(h, v)
valAt(h, v, key) ==
  IF InBounds(h, v, key) THEN nth(h, v, key) ELSE [h |-> Release(h, v), r |-> Nil]
valAt_default(h, v, key, notFound) ==
  IF InBounds(h, v, key) THEN nth(Release(h, notFound), v, key)
  ELSE [h |-> Release(h, v), r |-> notFound]
peek(h, v) ==
  IF Count(h, v) = 0 THEN [h |-> Release(h, v), r |-> Nil] ELSE nth(h, v, Count(h, v) - 1)

Contents(h, v) == [i \in 1 .. Count(h, v) |-> Element(h, v, i - 1)]

RECURSIVE Leaves(_, _)
(* The elements under a node in the order of hash, equals, toString and    *)
(* reduce, which walk the nodes and never look at the vector's count.      *)
Leaves(h, n) ==
  IF n \notin Addr \/ h[n].tag # "node" THEN <<Garbage>>
  ELSE IF IsLeaf(h, n) THEN Array(h, n)
  ELSE FlattenSeq([i \in DOMAIN Array(h, n) |-> Leaves(h, Array(h, n)[i])])

Walk(h, v) ==
  (IF RootOf(h, v) = Null THEN <<>> ELSE Leaves(h, RootOf(h, v))) \o Array(h, TailOf(h, v))

RECURSIVE NodeEquals(_, _, _)
NodeEquals(h, m, n) ==
  /\ Len(Array(h, m)) = Len(Array(h, n))
  /\ \A i \in DOMAIN Array(h, m) :
       IF IsLeaf(h, m) THEN Array(h, m)[i] = Array(h, n)[i]
       ELSE NodeEquals(h, Array(h, m)[i], Array(h, n)[i])

(* equals compares the trees node by node, and no tree of a vector that    *)
(* has only a tail.                                                        *)
PersistentVector_equals(h, v, w) ==
  /\ Count(h, v) = Count(h, w)
  /\ NodeEquals(h, TailOf(h, v), TailOf(h, w))
  /\ Count(h, v) > RRB_BRANCHING => NodeEquals(h, RootOf(h, v), RootOf(h, w))

(* combineHash over the array of a node, and over the nodes under it; the  *)
(* absence of a root hashes like an empty one.                             *)
Mark == -5381

RECURSIVE NodeHash(_, _)
NodeHash(h, n) ==
  IF n = Null THEN <<Mark>>
  ELSE <<Mark>> \o IF IsLeaf(h, n) THEN Array(h, n)
                   ELSE FlattenSeq([i \in DOMAIN Array(h, n) |-> NodeHash(h, Array(h, n)[i])])

PersistentVector_hash(h, v) == NodeHash(h, RootOf(h, v)) \o NodeHash(h, TailOf(h, v))

(* contains consumes the vector; the value it looks for stays with the     *)
(* caller here.                                                            *)
contains(h, v, value) ==
  [h |-> Release(h, v), r |-> IF value \in Range(Walk(h, v)) THEN 1 ELSE 0]

-----------------------------------------------------------------------------
(* Updates of the tree *)

RECURSIVE replacePath(_, _, _, _, _, _, _)

\* Mutant: a node is changed in place whenever the vector is.
replacePathInPlace(h, self, level, index, other, allowsReuse, vtid) ==
  LET i == Slot(index, level) + 1
      below == IF IsLeaf(h, self) THEN [h |-> h, r |-> other]
               ELSE replacePath(h, Array(h, self)[i], level - RRB_BITS, index, other,
                                allowsReuse, vtid)
  IN  [h |-> [below.h EXCEPT ![self].kids[i] = below.r], r |-> self]

(* A node is changed in place if the caller may and this node has one      *)
(* owner or the transient ID of the vector; the ID of a persistent vector  *)
(* and of a node made by one is PERSISTENT, and the two are equal.  The    *)
(* node that a copy replaces is not released here.                         *)
replacePath(h, self, level, index, other, allowsReuse, vtid) ==
  LET array == Array(h, self)
      i == Slot(index, level) + 1
      reusable == allowsReuse /\ (IsReusable(h, self) \/ Tid(h, self) = vtid)
      shared(new) == [new EXCEPT !.h = RetainAll(@, RemoveAt(array, i))]
      below(h2) == IF IsLeaf(h, self)
                   THEN [h |-> IF reusable THEN Release(h2, array[i]) ELSE h2, r |-> other]
                   ELSE replacePath(h2, array[i], level - RRB_BITS, index, other, reusable, vtid)
      put(node, child) == [h |-> [child.h EXCEPT ![node.r].kids[i] = child.r], r |-> node.r]
      done(node) == put(node, below(node.h))
  IN  done(IF reusable THEN [h |-> h, r |-> self] ELSE shared(CopyNode(h, self, array)))

RECURSIVE pushTail(_, _, _, _, _, _, _)
(* Appends a full tail to the tree under self.  copied tells the parent    *)
(* that self was replaced or changed, and not given a sibling.             *)
pushTail(h, isRoot, self, tail, level, allowsReuse, vtid) ==
  IF self = Null THEN [h |-> h, r |-> tail, copied |-> FALSE]
  ELSE IF IsLeaf(h, self) THEN
    LET new == NewNode(h, <<self, tail>>, FALSE, vtid)
    IN  [h |-> new.h, r |-> new.r, copied |-> FALSE]
  ELSE
    LET array == Array(h, self)
        n == Len(array)
        entry == IF level <= RRB_BITS THEN Null ELSE array[n]
        reusable == allowsReuse /\ (IsReusable(h, self) \/ Tid(h, self) = vtid)
        sub == pushTail(Retain(h, entry), FALSE, entry, tail, level - RRB_BITS, reusable, vtid)
    IN  IF sub.copied THEN
          IF reusable
          THEN [h |-> [Release(sub.h, array[n]) EXCEPT ![self].kids[n] = sub.r],
                r |-> self, copied |-> TRUE]
          ELSE LET new == CopyNode(sub.h, self, [array EXCEPT ![n] = sub.r])
               IN  [h |-> Release(RetainAll(new.h, Front(array)), self),
                    r |-> new.r, copied |-> TRUE]
        ELSE IF n < RRB_BRANCHING THEN
          LET new == CopyNode(sub.h, self, Append(array, sub.r))
          IN  [h |-> Release(RetainAll(new.h, array), self), r |-> new.r, copied |-> TRUE]
        ELSE IF isRoot THEN
          LET down == NewNode(sub.h, <<sub.r>>, FALSE, vtid)
              new == NewNode(down.h, <<self, down.r>>, FALSE, vtid)
          IN  [h |-> new.h, r |-> new.r, copied |-> FALSE]
        ELSE LET new == NewNode(sub.h, <<sub.r>>, FALSE, vtid)
             IN  [h |-> Release(new.h, self), r |-> new.r, copied |-> FALSE]

RECURSIVE popTail(_, _, _, _)
(* Takes the last leaf out of the tree under self; the result is Null if   *)
(* nothing is left.                                                        *)
popTail(h, self, allowsReuse, vtid) ==
  LET array == Array(h, self)
      n == Len(array)
      reusable == /\ allowsReuse
                  /\ IsReusable(h, self) \/ (Tid(h, self) # 0 /\ Tid(h, self) = vtid)
      shared(new) == [new EXCEPT !.h = RetainAll(@, Front(array))]
      replaced(node, sub) ==
        [h |-> [(IF reusable /\ sub.r # array[n] THEN Release(node.h, array[n]) ELSE node.h)
                  EXCEPT ![node.r].kids[n] = sub.r],
         r |-> node.r, leaf |-> sub.leaf]
      removed(h2, node, sub) ==
        IF n > 1 THEN [h |-> h2, r |-> node.r, leaf |-> sub.leaf]
        ELSE [h |-> IF reusable THEN h2 ELSE Release(h2, node.r), r |-> Null, leaf |-> sub.leaf]
      shorter(node) == [node.h EXCEPT ![node.r].kids = Front(@)]
      put(node, sub) ==
        IF sub.r # Null THEN replaced(node, sub)
        ELSE removed(IF reusable THEN Release(shorter(node), array[n]) ELSE shorter(node),
                     node, sub)
      done(sub) == put(IF reusable THEN [h |-> sub.h, r |-> self]
                       ELSE shared(NewNode(sub.h, array, FALSE, vtid)), sub)
  IN  IF IsLeaf(h, self) THEN [h |-> Retain(h, self), r |-> Null, leaf |-> self]
      ELSE done(popTail(h, array[n], reusable, vtid))

-----------------------------------------------------------------------------
(* Updates of the vector *)

UpdatesInPlace(h, v) == IsReusable(h, v) \/ Tid(h, v) # PERSISTENT

(* The vector that an update changes: self, or a copy of its fields.       *)
SelfOrCopy(h, self, reusable) ==
  IF reusable THEN [h |-> h, r |-> self] ELSE CopyVector(h, self)

\* Mutant: the owners of the vector are not asked.
TailUpdatesAlone(h, v) == IsReusable(h, TailOf(h, v))

TailUpdatesInPlace(h, v) ==
  \/ UpdatesInPlace(h, v) /\ IsReusable(h, TailOf(h, v))
  \/ Tid(h, v) # PERSISTENT /\ Tid(h, v) = Tid(h, TailOf(h, v))

\* Mutant: the first tail that becomes the root counts as a level.
DeepensAlways(oldRoot, copied) == ~copied

(* The tree has a new top.                                                 *)
Deepens(oldRoot, copied) == ~copied /\ oldRoot # Null

(* conj_internal: into the tail, or into a new tail once the old one has   *)
(* gone to the tree.  A vector that is updated in place takes the value    *)
(* into its own tail, whoever else has that tail.                          *)
conjToTail(h, self, made, other, reusable) ==
  LET array == Array(h, TailOf(h, self))
      longer == [made.h EXCEPT ![made.r].info.count = @ + 1]
      put(new) == [RetainAll(new.h, array) EXCEPT ![made.r].kids[1] = new.r]
  IN  [h |-> IF reusable THEN [longer EXCEPT ![TailOf(h, self)].kids = Append(@, other)]
             ELSE Release(put(NewNode(Retain(longer, RootOf(h, self)), Append(array, other),
                                      TRUE, Tid(h, self))), self),
       r |-> made.r]

conjToTree(h, self, made, fresh, reusable) ==
  LET tail == TailOf(h, self)
      root == RootOf(h, self)
      shared == IF reusable THEN fresh.h ELSE Retain(Retain(fresh.h, tail), root)
      put(pushed) ==
        [pushed.h EXCEPT
           ![made.r].kids = <<fresh.r, pushed.r, @[3]>>,
           ![made.r].info.shift = IF Deepens(root, pushed.copied) THEN @ + RRB_BITS ELSE @,
           ![made.r].info.count = @ + 1]
      done(h2) == [h |-> IF reusable THEN h2 ELSE Release(h2, self), r |-> made.r]
  IN  done(put(pushTail(shared, TRUE, root, tail, Shift(h, self), reusable, Tid(h, self))))

conjInto(h, self, made, other, reusable) ==
  IF Len(Array(h, TailOf(h, self))) < RRB_BRANCHING
  THEN conjToTail(h, self, made, other, reusable)
  ELSE conjToTree(h, self, made, NewNode(made.h, <<other>>, TRUE, Tid(h, self)), reusable)

conj(h, self, other) ==
  conjInto(h, self, SelfOrCopy(h, self, UpdatesInPlace(h, self)), other, UpdatesInPlace(h, self))

(* assoc_internal: of a value in the tail, and of one in the tree.         *)
assocInTail(h, self, index, other, reusable) ==
  LET tail == TailOf(h, self)
      array == Array(h, tail)
      i == index - TailOffset(h, self) + 1
      copied(new) == [new EXCEPT !.h = RetainAll(@, RemoveAt(array, i))]
      put(new, made) == [h |-> [made.h EXCEPT ![made.r].kids[1] = new.r], r |-> made.r]
      kept(made) == IF reusable THEN made ELSE [made EXCEPT !.h = Retain(@, RootOf(h, self))]
      done(new) == put(new, kept(SelfOrCopy(new.h, self, reusable)))
  IN  done(IF TailUpdatesInPlace(h, self)
           THEN [h |-> Release([h EXCEPT ![tail].kids[i] = other], array[i]), r |-> tail]
           ELSE copied(NewNode(h, [array EXCEPT ![i] = other], TRUE, Tid(h, self))))

assocInTree(h, self, made, index, other, reusable) ==
  LET kept == IF reusable THEN made.h ELSE Retain(made.h, TailOf(h, self))
      put(root) == [h |-> [root.h EXCEPT ![made.r].kids[2] = root.r], r |-> made.r]
  IN  put(replacePath(kept, RootOf(h, self), Shift(h, self), index, other, reusable, Tid(h, self)))

assocAt(h, self, index, other, reusable) ==
  LET done(new) == IF reusable THEN new ELSE [new EXCEPT !.h = Release(@, self)]
  IN  done(IF index >= TailOffset(h, self) THEN assocInTail(h, self, index, other, reusable)
           ELSE assocInTree(h, self, SelfOrCopy(h, self, reusable), index, other, reusable))

assoc(h, self, index, other) ==
  IF index > Count(h, self) THEN [h |-> Release(Release(h, self), other), r |-> Throws]
  ELSE IF index = Count(h, self) THEN conj(h, self, other)
  ELSE assocAt(h, self, index, other, UpdatesInPlace(h, self))

(* A top node with one child is dropped.                                   *)
Lowers(h, newRoot, shift) ==
  newRoot # Null /\ shift > 0 /\ Len(Array(h, newRoot)) = 1

(* pop_internal, the three cases: of the tail, of the last value of the    *)
(* tail, which the last leaf of the tree then replaces, and of nothing.    *)
(* made is the vector that becomes the result, self or a copy of it.       *)
popFromTail(h, self, made, reusable) ==
  LET tail == TailOf(h, self)
      left == Front(Array(h, tail))
      kept == IF reusable THEN made.h ELSE Retain(made.h, RootOf(h, self))
      copied(new) == [new EXCEPT !.h = IF reusable THEN Release(RetainAll(@, left), tail)
                                                   ELSE RetainAll(@, left)]
      put(new) == [new.h EXCEPT ![made.r].kids[1] = new.r, ![made.r].info.count = @ - 1]
      done(h2) == [h |-> IF reusable THEN h2 ELSE Release(h2, self), r |-> made.r]
  IN  done(put(IF TailUpdatesInPlace(h, self)
               THEN [h |-> [Release(kept, Last(Array(h, tail))) EXCEPT
                              ![tail] = [@ EXCEPT !.kids = left, !.info.tid = Tid(h, self)]],
                     r |-> tail]
               ELSE copied(NewNode(kept, left, TRUE, Tid(h, self)))))

popFromTree(h, self, made, popped, reusable) ==
  LET root == RootOf(h, self)
      lower == Lowers(popped.h, popped.r, Shift(h, self))
      newRoot == IF lower THEN Array(popped.h, popped.r)[1] ELSE popped.r
      h2 == IF lower THEN Retain(popped.h, newRoot) ELSE popped.h
      h3 == IF lower /\ popped.r # root THEN Release(h2, popped.r) ELSE h2
      put == [h3 EXCEPT ![made.r].kids = <<popped.leaf, newRoot, @[3]>>,
                        ![made.r].info.shift = IF lower THEN @ - RRB_BITS ELSE @,
                        ![made.r].info.count = @ - 1]
      h4 == Release(put, IF reusable THEN TailOf(h, self) ELSE self)
  IN  [h |-> IF reusable /\ root # Null /\ (lower \/ popped.r # root)
             THEN Release(h4, root) ELSE h4,
       r |-> made.r]

popInto(h, self, made, reusable) ==
  LET root == RootOf(h, self)
      empty(new) == [h |-> new.h, r |-> Null, leaf |-> new.r]
  IN  IF Len(Array(h, TailOf(h, self))) > 1 THEN popFromTail(h, self, made, reusable)
      ELSE popFromTree(h, self, made,
                       IF root # Null THEN popTail(made.h, root, reusable, Tid(h, self))
                       ELSE empty(NewNode(made.h, <<>>, TRUE, Tid(h, self))), reusable)

pop(h, self) ==
  IF Count(h, self) = 0 THEN [h |-> Release(h, self), r |-> Throws]
  ELSE popInto(h, self, SelfOrCopy(h, self, UpdatesInPlace(h, self)), UpdatesInPlace(h, self))

\* Mutant: the root of the old vector is not retained for the new one.
copy_rootUnretained(h, self, tid) ==
  LET array == Array(h, TailOf(h, self))
      done(new) == [new EXCEPT !.h = Release(@, self)]
      vector(tail) == NewVector(RetainAll(tail.h, array), Count(h, self), Shift(h, self), tid,
                                tail.r, RootOf(h, self), MetaOf(h, self))
  IN  done(vector(CopyNode(h, TailOf(h, self), array)))

(* copy_root: a new vector with its own tail, on the same tree.  The tail  *)
(* keeps the transient ID of the one it is copied from.                    *)
copy_root(h, self, tid) ==
  LET array == Array(h, TailOf(h, self))
      marked(h2) == IF tid = PERSISTENT THEN [h2 EXCEPT ![self].info.tid = PERSISTENT] ELSE h2
      done(new) == [new EXCEPT !.h = Release(marked(Retain(@, MetaOf(h, self))), self)]
      vector(tail) == NewVector(RetainAll(tail.h, array), Count(h, self), Shift(h, self), tid,
                                tail.r, RootOf(h, self), MetaOf(h, self))
  IN  done(vector(CopyNode(Retain(h, RootOf(h, self)), TailOf(h, self), array)))

withMeta(h, self, meta) ==
  LET put(made) == [h |-> [Release(made.h, MetaOf(made.h, made.r)) EXCEPT ![made.r].kids[3] = meta],
                    r |-> made.r]
  IN  put(IF IsReusable(h, self) THEN [h |-> h, r |-> self] ELSE copy_root(h, self, PERSISTENT))

(* createMany: the first values make the tail, the others are conj'ed.     *)
createMany(h, values) ==
  LET n == IF Len(values) < RRB_BRANCHING THEN Len(values) ELSE RRB_BRANCHING
      vector(tail) == NewVector(tail.h, n, 0, PERSISTENT, tail.r, Null, Nil)
  IN  FoldLeft(LAMBDA acc, value : conj(acc.h, acc.r, value),
               vector(NewNode(h, SubSeq(values, 1, n), TRUE, PERSISTENT)),
               SubSeq(values, n + 1, Len(values)))

RECURSIVE reduceNode(_, _, _)
(* A call of the reducing function with an element.  The function borrows  *)
(* it and keeps nothing; the call releases it afterwards.  What functions  *)
(* are given is collected.                                                 *)
RT_invokeMethodWithFrame(acc, element) ==
  [h |-> Release(acc.h, element), seen |-> Append(acc.seen, element)]

(* Node_reduce: a node with one owner gives its elements to the function   *)
(* and is freed on the way.                                                *)
reduceNode(acc, n, reusable) ==
  LET array == Array(acc.h, n) IN
  IF IsLeaf(acc.h, n) THEN
    LET given == IF reusable THEN acc.h ELSE RetainAll(acc.h, array)
        called == FoldLeft(RT_invokeMethodWithFrame, [acc EXCEPT !.h = given], array)
    IN  IF reusable THEN [called EXCEPT !.h = Release([@ EXCEPT ![n].kids = <<>>], n)] ELSE called
  ELSE
    LET child(a, i) ==
          LET own == reusable /\ IsReusable(a.h, array[i])
              b == reduceNode(a, array[i], own)
          IN  IF own THEN [b EXCEPT !.h = [@ EXCEPT ![n].kids[i] = Null]] ELSE b
        all == FoldLeft(child, acc, [i \in DOMAIN array |-> i])
    IN  IF reusable THEN [all EXCEPT !.h = Release(@, n)] ELSE all

(* reduce: the tail is stolen like a leaf if vector and tail have one      *)
(* owner, and the vector forgets what was freed.                           *)
reduce(h, v) ==
  LET root == RootOf(h, v)
      tail == TailOf(h, v)
      owns(h2, n) == IsReusable(h, v) /\ n # Null /\ IsReusable(h2, n)
      part(acc, n, i, own) ==
        IF n = Null THEN acc
        ELSE IF own THEN [reduceNode(acc, n, TRUE) EXCEPT !.h[v].kids[i] = Null]
        ELSE reduceNode(acc, n, FALSE)
      rest(acc) == part(acc, tail, 1, owns(acc.h, tail))
      done(acc) == [acc EXCEPT !.h = Release(@, v)]
  IN  done(rest(part([h |-> h, seen |-> <<>>], root, 2, owns(h, root))))

=============================================================================
