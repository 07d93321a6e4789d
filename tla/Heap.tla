-------------------------------- MODULE Heap --------------------------------
(***************************************************************************)
(* The heap that the immutable collections live in: objects that own       *)
(* references to others and release them when they are destroyed           *)
(* (backend/runtime/Object.h).                                             *)
(***************************************************************************)
EXTENDS Cells, SequencesExt

Nil == -999

EmptyHeap == [a \in Addr |-> Free]

(* Result of a call that throws; the heap is as the exception leaves it.   *)
Throws == -1000001

RetainAll(h, vs) == FoldLeft(Retain, h, vs)

RECURSIVE Release(_, _)

(* release: the last owner destroys the object, which releases what it     *)
(* owns.  Releasing a freed cell is recorded in its count.                 *)
Release(h, v) ==
  IF ~IsPtr(v) THEN h
  ELSE IF h[v].rc = 1
       THEN FoldLeft(Release, [h EXCEPT ![v] = Free], h[v].kids)
       ELSE [h EXCEPT ![v].rc = @ - 1]

ReleaseAll(h, vs) == FoldLeft(Release, h, vs)

(* All the references that the objects of the heap own, and how many of    *)
(* them are to a.                                                          *)
Refs(h) == FlattenSeq([a \in Addr |-> h[a].kids])
Times(a, refs) == Cardinality({i \in DOMAIN refs : refs[i] = a})

(* The array a[i] of C, for an index the caller computed: what lies        *)
(* outside the array is garbage.                                           *)
Garbage == -1000000
At(array, i) == IF i + 1 \in DOMAIN array THEN array[i + 1] ELSE Garbage
=============================================================================
