------------------------------- MODULE Vector -------------------------------
(***************************************************************************)
(* A program with a few variables that works on persistent and transient   *)
(* vectors: each step calls one operation of VectorOps, on a vector that   *)
(* it gives away or on one that it keeps as well.                          *)
(***************************************************************************)
EXTENDS VectorOps

CONSTANTS Vars,            \* variables of the program
          MaxCount,        \* longest vector it builds
          Sizes,           \* lengths it creates vectors with
          MaxOps,          \* calls it makes
          ConjValue,       \* the value conj'ed at an index
          AssocValue,      \* the value assoc'ed
          Metas            \* metadata it attaches

ASSUME VectorAssumption ==
  /\ MaxCount \in Nat /\ MaxOps \in Nat
  /\ ConjValue \in [0 .. MaxCount -> Int] /\ AssocValue \in Int
  /\ Metas \subseteq Int /\ Sizes \subseteq 0 .. MaxCount

(* The runtime keeps one reference to a boxed value, Item, and one to      *)
(* EMPTY_VECTOR.                                                           *)
VARIABLES heap,
          ref,     \* the vector each variable refers to, or Null
          nextTid, \* getTransientID's counter
          last,    \* the variable the last call wrote, or none
          want,    \* history: the elements that vector should have
          got,     \* history: the answer of the last read, and the right one
          ops      \* calls made, to bound the behaviours

vars == <<heap, ref, nextTid, last, want, got, ops>>

None == "none"
Item == 1
EMPTY_VECTOR == 2

Right == [is |-> <<>>, should |-> <<>>]

Init ==
  LET item == Alloc(EmptyHeap, "item", <<>>, <<>>)
      empty == NewVector(item.h, 0, 0, PERSISTENT, 3, Null, Nil)
  IN  /\ heap = NewNode(empty.h, <<>>, TRUE, PERSISTENT).h
      /\ ref = [x \in Vars |-> Null]
      /\ want = [x \in Vars |-> <<>>]
      /\ nextTid = 1 /\ last = None /\ ops = 0 /\ got = Right

RECURSIVE Alive(_, _)
Alive(h, a) ==
  a \in Addr /\ h[a].rc > 0 /\ \A i \in DOMAIN h[a].kids : IsPtr(h[a].kids[i]) => Alive(h, h[a].kids[i])

(* The vector can be used: its two readings agree and reach no freed       *)
(* object.  On another one the code reads outside of arrays.               *)
Sound(h, v) == Alive(h, v) /\ Walk(h, v) = Contents(h, v)

Room == Cardinality(FreeCells(heap)) > MaxCount

Usable(x) == ops < MaxOps /\ Room /\ ref[x] # Null /\ Sound(heap, ref[x])

(* The vector in x goes to a call that puts its result into y: if y is     *)
(* another variable, the program keeps x and passes a reference of its own.*)
Passes(x, y) ==
  /\ y = x \/ ref[y] = Null
Passed(x, y) == IF y = x THEN heap ELSE Retain(heap, ref[x])
Elements(x) == Contents(heap, ref[x])

(* A call that threw has consumed the vector and written nothing.  All the *)
(* variables that refer to one transient see what is done to it.           *)
Returns(y, call, elements) ==
  /\ heap' = call.h
  /\ ref' = [ref EXCEPT ![y] = IF call.r = Throws THEN Null ELSE call.r]
  /\ want' = [z \in Vars |-> IF call.r # Throws /\ ref'[z] = call.r THEN elements
                             ELSE IF z = y THEN <<>> ELSE want[z]]
  /\ last' = IF call.r = Throws THEN None ELSE y
  /\ got' = Right
  /\ ops' = ops + 1

(* conj, assoc and pop copy a vector that they may not change with memcpy  *)
(* (PersistentVector.c:193, 209, 274, 659) and do not retain the metadata  *)
(* that the copy then shares.  The program of this model makes no such     *)
(* copy of metadata that is counted.                                       *)
CopiesMeta(h, v) == ~UpdatesInPlace(h, v) /\ IsPtr(MetaOf(h, v))

Create(y) ==
  \E n \in Sizes :
    LET values == [i \in 1 .. n |-> ConjValue[i - 1]] IN
    /\ ref[y] = Null /\ ops < MaxOps /\ Room
    /\ Returns(y, IF n = 0 THEN [h |-> Retain(heap, EMPTY_VECTOR), r |-> EMPTY_VECTOR]
                  ELSE createMany(RetainAll(heap, values), values), values)
    /\ UNCHANGED nextTid

Conj(x, y) ==
  LET value == ConjValue[Count(heap, ref[x])] IN
  /\ Passes(x, y) /\ Count(heap, ref[x]) < MaxCount
  /\ ~CopiesMeta(Passed(x, y), ref[x])
  /\ Returns(y, conj(Retain(Passed(x, y), value), ref[x], value), Append(Elements(x), value))
  /\ UNCHANGED nextTid

Assoc(x, y) ==
  /\ Passes(x, y) /\ ~CopiesMeta(Passed(x, y), ref[x])
  /\ \E index \in 0 .. Count(heap, ref[x]) + 1 :
    /\ index < MaxCount
    /\ Returns(y, assoc(Retain(Passed(x, y), AssocValue), ref[x], index, AssocValue),
               [i \in 1 .. Len(Elements(x)) + (IF index = Len(Elements(x)) THEN 1 ELSE 0)
                  |-> IF i = index + 1 THEN AssocValue ELSE Elements(x)[i]])
    /\ UNCHANGED nextTid

Pop(x, y) ==
  /\ Passes(x, y) /\ ~CopiesMeta(Passed(x, y), ref[x])
  /\ Returns(y, pop(Passed(x, y), ref[x]),
             IF Elements(x) = <<>> THEN <<>> ELSE Front(Elements(x)))
  /\ UNCHANGED nextTid

WithMeta(x, y) ==
  \E meta \in Metas :
    /\ Passes(x, y)
    /\ Returns(y, withMeta(Retain(Passed(x, y), meta), ref[x], meta), Elements(x))
    /\ UNCHANGED nextTid

Transient(x, y) ==
  /\ Passes(x, y) /\ nextTid = 1
  /\ Returns(y, copy_root(Passed(x, y), ref[x], nextTid), Elements(x))
  /\ nextTid' = nextTid + 1

PersistentBang(x, y) ==
  /\ Passes(x, y) /\ Tid(heap, ref[x]) # PERSISTENT
  /\ Returns(y, copy_root(Passed(x, y), ref[x], PERSISTENT), Elements(x))
  /\ UNCHANGED nextTid

(* A call that consumes the vector and answers with a value, which the     *)
(* program releases when it has looked at it.                              *)
Answers(x, h, is, should) ==
  /\ heap' = h
  /\ ref' = [ref EXCEPT ![x] = Null]
  /\ want' = [want EXCEPT ![x] = <<>>]
  /\ got' = [is |-> is, should |-> should]
  /\ last' = None /\ ops' = ops + 1
  /\ UNCHANGED nextTid

Read(x) ==
  /\ Passes(x, x)
  /\ \E index \in {0, Count(heap, ref[x]) \div 2, Count(heap, ref[x]) - 1, Count(heap, ref[x])} \ {-1} :
       LET inside == index < Len(Elements(x))
           element(other) == IF inside THEN Elements(x)[index + 1] ELSE other
           reads(call, should) == Answers(x, Release(call.h, call.r), <<call.r>>, <<should>>)
       IN  \/ reads(nth(heap, ref[x], index), element(Throws))
           \/ reads(nth_default(Retain(heap, Item), ref[x], index, Item), element(Item))
           \/ reads(valAt(heap, ref[x], index), element(Nil))
           \/ reads(valAt_default(Retain(heap, Item), ref[x], index, Item), element(Item))
           \/ /\ index + 1 = Len(Elements(x)) \/ Elements(x) = <<>>
              /\ reads(peek(heap, ref[x]), element(Nil))
           \/ \E call \in {contains(heap, ref[x], AssocValue)} :
                  Answers(x, call.h, <<call.r>>,
                          <<IF AssocValue \in Range(Elements(x)) THEN 1 ELSE 0>>)

(* The elements the reducing function was given.                           *)
Reduce(x) ==
  /\ Passes(x, x)
  /\ \E call \in {reduce(heap, ref[x])} : Answers(x, call.h, call.seen, Elements(x))

Drop(x) ==
  /\ ref[x] # Null
  /\ heap' = Release(heap, ref[x]) /\ ref' = [ref EXCEPT ![x] = Null]
  /\ want' = [want EXCEPT ![x] = <<>>] /\ last' = None /\ got' = Right
  /\ UNCHANGED <<nextTid, ops>>

Next ==
  \E x \in Vars :
    \/ Create(x)
    \/ Drop(x)
    \/ /\ Usable(x)
       /\ \/ Read(x) \/ Reduce(x)
          \/ \E y \in Vars : \/ Conj(x, y) \/ Assoc(x, y) \/ Pop(x, y) \/ WithMeta(x, y)
                             \/ Transient(x, y) \/ PersistentBang(x, y)

Spec == Init /\ [][Next]_vars

-----------------------------------------------------------------------------
TypeOK ==
  /\ DOMAIN heap = Addr
  /\ \A a \in Addr :
       /\ heap[a].tag \in {"free", "item", "node", "vector"}
       /\ heap[a].rc \in Nat /\ heap[a].kids \in Seq(Int)
       /\ heap[a].tag = "node" => heap[a].info \in [leaf : BOOLEAN, tid : Nat]
       /\ heap[a].tag = "vector" => heap[a].info \in [count : Nat, shift : Nat, tid : Nat]
  /\ ref \in [Vars -> Addr \cup {Null}] /\ nextTid \in Nat /\ ops \in 0 .. MaxOps
  /\ last \in Vars \cup {None} /\ want \in [Vars -> Seq(Int)]
  /\ got \in [is : Seq(Int), should : Seq(Int)]

(* Whatever the shape of the tree and whoever shares its nodes, the vector *)
(* that conj, assoc, pop, withMeta, transient or persistent! returns has   *)
(* the elements of the argument with that one change, both when it is read *)
(* by index and when it is walked.                                         *)
ResultIsRight ==
  last # None => /\ Contents(heap, ref[last]) = want[last]
                 /\ Walk(heap, ref[last]) = want[last]

(* nth, the default and the map-like lookups, peek, contains and reduce    *)
(* answer for the elements the vector has, at both ends of its range too.  *)
AnswersAreRight == got.is = got.should

(* Two vectors are equal exactly if their elements are, whatever was done  *)
(* to build them: the comparison of trees relies on one shape per length.  *)
EqualityIsByElements ==
  \A x, y \in Vars :
    ref[x] # Null /\ ref[y] # Null /\ Sound(heap, ref[x]) /\ Sound(heap, ref[y])
    => (PersistentVector_equals(heap, ref[x], ref[y]) <=> Contents(heap, ref[x]) = Contents(heap, ref[y]))

(* Every call is right: what it builds, what it answers and what it takes  *)
(* to be equal.                                                            *)
CallsAreRight == ResultIsRight /\ AnswersAreRight /\ EqualityIsByElements

External(a) == Cardinality({x \in Vars : ref[x] = a}) + (IF a \in {Item, EMPTY_VECTOR} THEN 1 ELSE 0)

(* No object is freed while something refers to it: an object has at       *)
(* least as many counts as there are references to it, those from metadata *)
(* included, as long as conj, assoc and pop copy no metadata that is       *)
(* counted (CopiesMeta).                                                   *)
CountsCover ==
  LET refs == Refs(heap)
  IN  \A a \in Addr : heap[a].rc >= Times(a, refs) + External(a)

(* A vector that does not fill its tail keeps its elements, whatever is    *)
(* done with vectors made from it or with those it was made from.          *)
SmallVectorsPersist ==
  \A x \in Vars : /\ ref[x] # Null
                  /\ Tid(heap, ref[x]) = PERSISTENT
                  /\ Len(want[x]) < RRB_BRANCHING
                  => Contents(heap, ref[x]) = want[x]

(* An operation on a transient changes no other vector, although it shares *)
(* its tree with the vector it was made from.                              *)
TransientIsolated ==
  [][\A x, z \in Vars :
       /\ ref[x] # Null /\ ref[x] # ref[z] /\ ref'[z] = ref[z] /\ ref[z] # Null
       /\ Tid(heap, ref[x]) # PERSISTENT /\ last' = x /\ ref'[x] = ref[x]
       => Contents(heap', ref[z]) = Contents(heap, ref[z])]_vars

(* No vector that some variable still refers to changes: what persistence  *)
(* means, and what the comment in conj_internal relies on.  The code does   *)
(* not keep it for vectors with a tree (see README.md).                    *)
Persistent ==
  \A x \in Vars : /\ ref[x] # Null /\ Tid(heap, ref[x]) = PERSISTENT
                  => Contents(heap, ref[x]) = want[x]

=============================================================================
