------------------------------- MODULE Cells -------------------------------
(***************************************************************************)
(* The cells of the heap that a thread works in alone: an object with a    *)
(* plain reference count (backend/runtime/Object.h); RefCount.tla models   *)
(* the two modes of the count and its races.  Operations are functions on  *)
(* heaps, so that a whole C function is one expression.                    *)
(*                                                                         *)
(* A value (RTValue) is an integer: a positive one is the address of an    *)
(* object, a negative one a value boxed in the word itself (a number, a    *)
(* keyword, a boolean, nil), and 0 is null, the absence of a value, and    *)
(* also the NULL pointer.                                                  *)
(***************************************************************************)
EXTENDS Integers, Sequences, FiniteSets, FiniteSetsExt

CONSTANT MaxObj           \* objects the heap can hold

ASSUME MaxObjAssumption == MaxObj \in Nat \ {0}

Addr == 1 .. MaxObj
Null == 0

(* RT_isPtr *)
IsPtr(v) == v > 0

(* A free cell.  A count below zero marks an object released once too      *)
(* often; nothing ever repairs it.                                         *)
Free == [tag |-> "free", rc |-> 0, kids |-> <<>>, info |-> <<>>]

FreeCells(h) == {a \in Addr : h[a].tag = "free" /\ h[a].rc = 0}

StoreAt(h, a, object) == [h |-> [h EXCEPT ![a] = object], r |-> a]

(* allocate and Object_create: the new object has one owner.               *)
Alloc(h, tag, kids, info) ==
  StoreAt(h, Min(FreeCells(h)), [tag |-> tag, rc |-> 1, kids |-> kids, info |-> info])

(* retain: values without an object have no count.                         *)
Retain(h, v) == IF IsPtr(v) THEN [h EXCEPT ![v].rc = @ + 1] ELSE h

(* Ptr_isReusable: the caller is the only owner.                           *)
IsReusable(h, v) == h[v].rc = 1
=============================================================================
