--------------------------- MODULE CollectionOps ---------------------------
(***************************************************************************)
(* Lists, array maps and the sequences over a vector, as functions on the  *)
(* heaps of Heap.tla (backend/runtime/PersistentList.c,                    *)
(* PersistentArrayMap.c, PersistentVectorChunkedSeq.c,                     *)
(* PersistentVectorReverseSeq.c, PersistentVectorIterator.c, ArrayChunk.c).*)
(***************************************************************************)
EXTENDS VectorOps

CONSTANT HASHTABLE_THRESHOLD       \* entries an array map can hold

(* A call that answers with a value that is no reference.                  *)
Says(h, value) == [h |-> h, r |-> value]

-----------------------------------------------------------------------------
(* Lists: first, rest and metadata.  The empty list is one object, with    *)
(* the null value as its first; a list ends with it or with NULL.          *)
EMPTY_LIST == 2

First(h, l) == h[l].kids[1]
Rest(h, l) == h[l].kids[2]
Length(h, l) == IF l = Null THEN 0 ELSE h[l].info.count

PersistentList_create(h, first, rest) ==
  Alloc(h, "list", <<first, rest, Nil>>,
        [count |-> Length(h, rest) + (IF first = Null THEN 0 ELSE 1)])

PersistentList_empty(h) == [h |-> Retain(h, EMPTY_LIST), r |-> EMPTY_LIST]

PersistentList_conj(h, self, other) == PersistentList_create(h, other, self)

PersistentList_fromArray(h, args) ==
  FoldRight(LAMBDA arg, acc : PersistentList_conj(acc.h, acc.r, arg), args,
            PersistentList_empty(h))

PersistentList_withMeta(h, self, meta) ==
  IF IsReusable(h, self)
  THEN [h |-> [Release(h, h[self].kids[3]) EXCEPT ![self].kids[3] = meta], r |-> self]
  ELSE LET new == Alloc(h, "list", <<First(h, self), Rest(h, self), meta>>, h[self].info)
       IN  [h |-> Release(RetainAll(new.h, <<First(h, self), Rest(h, self)>>), self),
            r |-> new.r]

(* next and pop differ for a list without a rest.                          *)
PersistentList_next(h, self) ==
  IF Rest(h, self) = Null THEN Says(Release(h, self), Nil)
  ELSE [h |-> Release(Retain(h, Rest(h, self)), self), r |-> Rest(h, self)]

PersistentList_pop(h, self) ==
  IF Rest(h, self) = Null THEN PersistentList_empty(Release(h, self))
  ELSE PersistentList_next(h, self)

PersistentList_first(h, self) ==
  [h |-> Release(Retain(h, First(h, self)), self), r |-> First(h, self)]

PersistentList_count(h, self) == Says(Release(h, self), Length(h, self))

RECURSIVE ListElements(_, _)
ListElements(h, l) ==
  IF l = Null THEN <<>>
  ELSE (IF First(h, l) = Null THEN <<>> ELSE <<First(h, l)>>) \o ListElements(h, Rest(h, l))

RECURSIVE PersistentList_equals(_, _, _)
PersistentList_equals(h, l, k) ==
  \/ l = Null
  \/ /\ Length(h, l) = Length(h, k)
     /\ First(h, l) = First(h, k)
     /\ PersistentList_equals(h, Rest(h, l), Rest(h, k))

RECURSIVE ListReduce(_, _)
(* A cell with one owner is taken apart before the function is called on   *)
(* its element; another one is released afterwards.                        *)
ListReduce(acc, current) ==
  IF current = Null THEN acc
  ELSE IF First(acc.h, current) = Null THEN [acc EXCEPT !.h = Release(@, current)]
  ELSE LET first == First(acc.h, current)
           rest == Rest(acc.h, current)
           freed == Release([acc.h EXCEPT ![current].kids = <<Null, Null, @[3]>>], current)
           kept == Retain(Retain(acc.h, first), rest)
           call(h) == RT_invokeMethodWithFrame([acc EXCEPT !.h = h], first)
       IN  ListReduce(IF IsReusable(acc.h, current) THEN call(freed)
                      ELSE [call(kept) EXCEPT !.h = Release(@, current)], rest)

PersistentList_reduce(h, self) == ListReduce([h |-> h, seen |-> <<>>], self)

(* Without a start value the first element is the first argument.          *)
PersistentList_reduce2(h, self) ==
  LET first == First(h, self)
      rest == Rest(h, self)
      h2 == IF IsReusable(h, self)
            THEN Release([h EXCEPT ![self].kids = <<Null, Null, @[3]>>], self)
            ELSE Release(Retain(Retain(h, first), rest), self)
  IN  IF first = Null THEN [h |-> Release(h, self), seen |-> <<>>]
      ELSE ListReduce([h |-> Release(h2, first), seen |-> <<first>>], rest)

-----------------------------------------------------------------------------
(* Array maps: keys and values alternate, the metadata comes last.         *)

Entries(h, m) == h[m].info.count
Key(h, m, i) == h[m].kids[2 * i - 1]
Value(h, m, i) == h[m].kids[2 * i]
MapMeta(h, m) == Last(h[m].kids)
MapPairs(h, m) == {<<Key(h, m, i), Value(h, m, i)>> : i \in 1 .. Entries(h, m)}

WithEntries(h, m, kids) ==
  [h EXCEPT ![m].kids = Append(kids, MapMeta(h, m)), ![m].info.count = Len(kids) \div 2]

(* The position of a key, or 0 for -1.                                     *)
PersistentArrayMap_indexOf(h, m, key) ==
  LET at == {i \in 1 .. Entries(h, m) : Key(h, m, i) = key}
  IN  IF at = {} THEN 0 ELSE Min(at)

PersistentArrayMap_get(h, m, key) ==
  LET i == PersistentArrayMap_indexOf(h, m, key)
      value == IF i = 0 THEN Nil ELSE Value(h, m, i)
  IN  [h |-> Release(Release(Retain(h, value), m), key), r |-> value]

(* copy shares the entries without counting them, and counts the metadata. *)
PersistentArrayMap_copy(h, m) ==
  LET new == Alloc(h, "map", h[m].kids, h[m].info)
  IN  [h |-> Retain(new.h, MapMeta(h, m)), r |-> new.r]

PersistentArrayMap_createMany(h, pairs) ==
  Alloc(h, "map", Append(pairs, Nil), [count |-> Len(pairs) \div 2])

PersistentArrayMap_assoc(h, self, key, value) ==
  LET found == PersistentArrayMap_indexOf(h, self, key)
      old == Front(h[self].kids)
      reusable == IsReusable(h, self)
      made == IF reusable THEN [h |-> h, r |-> self] ELSE PersistentArrayMap_copy(h, self)
      done(h2) == IF reusable THEN h2 ELSE Release(h2, self)
  IN  IF found = 0 /\ Entries(h, self) >= HASHTABLE_THRESHOLD
      THEN [h |-> ReleaseAll(h, <<self, key, value>>), r |-> Throws]
      ELSE IF found = 0
      THEN LET put == WithEntries(made.h, made.r, old \o <<key, value>>)
           IN  [h |-> done(IF reusable THEN put ELSE RetainAll(put, old)), r |-> made.r]
      ELSE LET freed == IF reusable THEN Release(made.h, Value(h, self, found))
                        ELSE RetainAll(made.h, RemoveAt(old, 2 * found))
           IN  [h |-> Release(done([freed EXCEPT ![made.r].kids[2 * found] = value]), key),
                r |-> made.r]

PersistentArrayMap_dissoc(h, self, key) ==
  LET found == PersistentArrayMap_indexOf(h, self, key)
      h1 == Release(h, key)
      reusable == IsReusable(h1, self)
      made == IF reusable THEN [h |-> h1, r |-> self] ELSE PersistentArrayMap_copy(h1, self)
      left == RemoveAt(RemoveAt(Front(h[self].kids), 2 * found), 2 * found - 1)
      shorter == WithEntries(made.h, made.r, left)
  IN  IF found = 0 THEN [h |-> h1, r |-> self]
      ELSE [h |-> IF reusable
                  THEN Release(Release(shorter, Key(h, self, found)), Value(h, self, found))
                  ELSE Release(RetainAll(shorter, left), self),
            r |-> made.r]

(* withMeta of a shared map keeps the reference that it was given.         *)
PersistentArrayMap_withMeta(h, self, meta) ==
  LET reusable == IsReusable(h, self)
      made == IF reusable THEN [h |-> h, r |-> self] ELSE PersistentArrayMap_copy(h, self)
      counted == IF reusable THEN made.h ELSE RetainAll(made.h, Front(h[self].kids))
      freed == Release(counted, MapMeta(h, self))
  IN  [h |-> [freed EXCEPT ![made.r].kids[Len(h[self].kids)] = meta], r |-> made.r]

PersistentArrayMap_equals(h, m, n) ==
  /\ Entries(h, m) = Entries(h, n)
  /\ \A i \in 1 .. Entries(h, m) :
       LET j == PersistentArrayMap_indexOf(h, n, Key(h, m, i))
       IN  (IF j = 0 THEN Nil ELSE Value(h, n, j)) = Value(h, m, i)

-----------------------------------------------------------------------------
(* Sequences over a vector.  A chunked sequence owns the vector, and       *)
(* remembers the block its position is in without owning that.             *)

Parent(h, s) == h[s].kids[1]
It(h, s) == h[s].info

PersistentVector_iterator(h, v) ==
  [index |-> 0, blockIndex |-> 0, block |-> nthBlock(h, v, 0)]

PersistentVector_iteratorGet(h, it) == At(Array(h, it.block), it.blockIndex)

PersistentVector_iteratorNext(h, v, it) ==
  LET next == nthBlock(h, v, it.index + 1)
  IN  IF it.blockIndex + 1 < Len(Array(h, it.block)) \/ next = Null
      THEN [it EXCEPT !.index = @ + 1, !.blockIndex = @ + 1]
      ELSE [index |-> it.index + 1, blockIndex |-> 0, block |-> next]

ChunkedSeq_create(h, v, it) == Alloc(Retain(h, v), "cseq", <<v>>, it)

PersistentVector_seq(h, v) ==
  IF Count(h, v) = 0 THEN Says(Release(h, v), Nil)
  ELSE LET s == ChunkedSeq_create(h, v, PersistentVector_iterator(h, v))
       IN  [h |-> Release(s.h, v), r |-> s.r]

\* Mutant: a sequence that others have is moved in place as well.
ChunkedSeq_movedShared(h, self, it) ==
  IF it.index >= Count(h, Parent(h, self)) THEN Says(Release(h, self), Nil)
  ELSE [h |-> [h EXCEPT ![self].info = it], r |-> self]

(* The sequence goes to the position it, in place if nobody else has it.   *)
ChunkedSeq_moved(h, self, it) ==
  IF it.index >= Count(h, Parent(h, self)) THEN Says(Release(h, self), Nil)
  ELSE IF IsReusable(h, self) THEN [h |-> [h EXCEPT ![self].info = it], r |-> self]
  ELSE LET new == ChunkedSeq_create(h, Parent(h, self), it)
       IN  [h |-> Release(new.h, self), r |-> new.r]

ChunkedSeq_next(h, self) ==
  ChunkedSeq_moved(h, self, PersistentVector_iteratorNext(h, Parent(h, self), It(h, self)))

(* The block is looked up only if the position is inside the vector.       *)
BlockAt(h, self, index, blockIndex) ==
  [index |-> index, blockIndex |-> blockIndex, block |-> nthBlock(h, Parent(h, self), index)]

\* Mutant: the position in the block is that in the old one.
ChunkedSeq_chunkedNextUnreset(h, self) ==
  LET it == It(h, self)
  IN  ChunkedSeq_moved(h, self,
        BlockAt(h, self, it.index + Len(Array(h, it.block)) - it.blockIndex, it.blockIndex))

ChunkedSeq_chunkedNext(h, self) ==
  LET it == It(h, self)
  IN  ChunkedSeq_moved(h, self,
        BlockAt(h, self, it.index + Len(Array(h, it.block)) - it.blockIndex, 0))

ChunkedSeq_drop(h, self, n) ==
  LET index == It(h, self).index + n
  IN  IF n <= 0 THEN [h |-> h, r |-> self]
      ELSE ChunkedSeq_moved(h, self, BlockAt(h, self, index, index % RRB_BRANCHING))

(* more and chunkedMore have the empty list where next has nil.            *)
OrEmpty(call) == IF call.r = Nil THEN PersistentList_empty(call.h) ELSE call

ChunkedSeq_first(h, self) ==
  LET value == IF It(h, self).index >= Count(h, Parent(h, self)) THEN Nil
               ELSE PersistentVector_iteratorGet(h, It(h, self))
  IN  [h |-> Release(Retain(h, value), self), r |-> value]

ChunkedSeq_count(h, self) ==
  Says(Release(h, self), Count(h, Parent(h, self)) - It(h, self).index)

ChunkedSeq_elements(h, s) ==
  SubSeq(Contents(h, Parent(h, s)), It(h, s).index + 1, Count(h, Parent(h, s)))

\* Mutant: the tail is taken from its start.
ChunkedSeq_reduceWholeTail(h, self) ==
  LET v == Parent(h, self)
      start == It(h, self).index
      tree == [i \in 1 .. (IF start < TailOffset(h, v) THEN TailOffset(h, v) - start ELSE 0) |->
                 At(Array(h, nthBlock(h, v, start + i - 1)), (start + i - 1) % RRB_BRANCHING)]
  IN  [h |-> Release(h, self), seen |-> tree \o Array(h, TailOf(h, v))]

(* The rest of the tree block by block, then the rest of the tail.         *)
ChunkedSeq_reduce(h, self) ==
  LET v == Parent(h, self)
      start == It(h, self).index
      tree == [i \in 1 .. (IF start < TailOffset(h, v) THEN TailOffset(h, v) - start ELSE 0) |->
                 At(Array(h, nthBlock(h, v, start + i - 1)), (start + i - 1) % RRB_BRANCHING)]
      from == IF start < TailOffset(h, v) THEN 0 ELSE start - TailOffset(h, v)
      tail == SubSeq(Array(h, TailOf(h, v)), from + 1, Len(Array(h, TailOf(h, v))))
  IN  [h |-> Release(h, self), seen |-> tree \o tail]

(* Without a start value the sequence itself is advanced, also when        *)
(* somebody else has it.                                                   *)
ChunkedSeq_reduce2(h, self) ==
  LET v == Parent(h, self)
      first == PersistentVector_iteratorGet(h, It(h, self))
      moved == [h EXCEPT ![self].info = PersistentVector_iteratorNext(h, v, @)]
  IN  IF It(h, self).index >= Count(h, v) THEN [h |-> Release(h, self), seen |-> <<>>]
      ELSE IF It(moved, self).index >= Count(h, v)
      THEN [h |-> Release(moved, self), seen |-> <<first>>]
      ELSE LET rest == ChunkedSeq_reduce(moved, self)
           IN  [rest EXCEPT !.seen = <<first>> \o @]

(* Without a start value a vector is reduced through a sequence that has   *)
(* passed its first element.                                               *)
PersistentVector_reduce2(h, self) ==
  LET first == Element(h, self, 0)
      start == PersistentVector_iterator(h, self)
      it == IF start.blockIndex < Len(Array(h, start.block)) - 1
            THEN [start EXCEPT !.index = 1, !.blockIndex = @ + 1]
            ELSE [start EXCEPT !.index = 1, !.block = nthBlock(h, self, 1), !.blockIndex = 0]
      seq == ChunkedSeq_create(h, self, it)
      rest == ChunkedSeq_reduce(Release(seq.h, self), seq.r)
  IN  CASE Count(h, self) = 0 -> [h |-> Release(h, self), seen |-> <<>>]
        [] Count(h, self) = 1 -> [h |-> Release(h, self), seen |-> <<first>>]
        [] OTHER -> [rest EXCEPT !.seen = <<first>> \o @]

PersistentVector_count(h, self) == Says(Release(h, self), Count(h, self))

(* The entry of a key, as a list.                                          *)
PersistentVector_entryAt(h, self, key, index) ==
  LET val == nth(h, self, index)
  IN  IF index < Count(h, self) THEN PersistentList_fromArray(val.h, <<key, val.r>>)
      ELSE Says(ReleaseAll(h, <<self, key>>), Nil)

(* A chunk owns the block.                                                 *)
ArrayChunk_create(h, node, offset) == Alloc(Retain(h, node), "chunk", <<node>>, [offset |-> offset])

ChunkedSeq_chunkedFirst(h, self) ==
  LET c == ArrayChunk_create(h, It(h, self).block, It(h, self).blockIndex)
  IN  [h |-> Release(c.h, self), r |-> c.r]

ArrayChunk_count(h, c) ==
  Says(Release(h, c), Len(Array(h, Parent(h, c))) - h[c].info.offset)

(* nth throws outside the chunk, nth_default answers with notFound.        *)
ArrayChunk_nth(h, c, i, notFound) ==
  IF h[c].info.offset + i >= Len(Array(h, Parent(h, c))) THEN Says(Release(h, c), notFound)
  ELSE LET value == At(Array(h, Parent(h, c)), h[c].info.offset + i)
       IN  [h |-> Release(Release(Retain(h, value), notFound), c), r |-> value]

ArrayChunk_elements(h, c) ==
  SubSeq(Array(h, Parent(h, c)), h[c].info.offset + 1, Len(Array(h, Parent(h, c))))

ReverseSeq_create(h, v, index) ==
  IF index < 0 THEN Says(h, Nil) ELSE Alloc(Retain(h, v), "rseq", <<v>>, [index |-> index])

PersistentVector_rseq(h, v) ==
  LET s == ReverseSeq_create(h, v, Count(h, v) - 1) IN [h |-> Release(s.h, v), r |-> s.r]

ReverseSeq_first(h, self) ==
  LET value == nth(Retain(h, Parent(h, self)), Parent(h, self), h[self].info.index)
  IN  [h |-> Release(value.h, self), r |-> value.r]

ReverseSeq_next(h, self) ==
  IF h[self].info.index <= 0 THEN Says(Release(h, self), Nil)
  ELSE IF IsReusable(h, self) THEN [h |-> [h EXCEPT ![self].info.index = @ - 1], r |-> self]
  ELSE LET new == ReverseSeq_create(h, Parent(h, self), h[self].info.index - 1)
       IN  [h |-> Release(new.h, self), r |-> new.r]

ReverseSeq_count(h, self) == Says(Release(h, self), h[self].info.index + 1)

ReverseSeq_elements(h, s) ==
  [i \in 1 .. h[s].info.index + 1 |-> Contents(h, Parent(h, s))[h[s].info.index + 2 - i]]
=============================================================================
