---------------------------- MODULE FunctionOps ----------------------------
(***************************************************************************)
(* Functions, the calls of values that are not functions, and the slot in  *)
(* which a call site of compiled code caches the method it found last      *)
(* (backend/runtime/Function.c, Keyword.c), as functions on heaps.         *)
(*                                                                         *)
(* A function owns what its methods close over.  A method is known by the  *)
(* kind of value it belongs to and its position there; its implementation  *)
(* is compiled code, which consumes its arguments and the list of its      *)
(* further arguments.                                                      *)
(***************************************************************************)
EXTENDS TextOps, BindingOps

(* Function_create and Function_fillMethod, for a sequence of methods: the *)
(* caller has retained what they close over.                               *)
Function_create(h, methods) ==
  Alloc(h, "function", FlattenSeq([i \in DOMAIN methods |-> methods[i].closedOvers]),
        [i \in DOMAIN methods |-> [fixedArity |-> methods[i].fixedArity,
                                   isVariadic |-> methods[i].isVariadic]])

Method(kind, i) == [kind |-> kind, index |-> i]
NoMethod == Method("none", 0)

(* The first method with exactly so many parameters, otherwise the first   *)
(* that takes as many and more.                                            *)
Exact(methods, n) == {i \in DOMAIN methods : ~methods[i].isVariadic /\ methods[i].fixedArity = n}
Variadic(methods, n) == {i \in DOMAIN methods : methods[i].isVariadic /\ n >= methods[i].fixedArity}

Function_extractMethod(h, f, n) ==
  LET fits == IF Exact(h[f].info, n) # {} THEN Exact(h[f].info, n) ELSE Variadic(h[f].info, n)
  IN  IF fits = {} THEN NoMethod ELSE Method("function", Min(fits))

(* The further arguments as a list, which takes them.                      *)
RT_packVariadic(h, args, fixedArity) ==
  IF Len(args) <= fixedArity THEN Says(h, Nil)
  ELSE PersistentList_fromArray(h, SubSeq(args, fixedArity + 1, Len(args)))

-----------------------------------------------------------------------------
(* Calls of keywords, maps and vectors.  A value of nil counts as absent.  *)
Keyword_invoke(h, self, map, defaultVal) ==
  LET found(get) == IF get.r = Nil THEN Says(get.h, defaultVal)
                    ELSE Says(Release(get.h, defaultVal), get.r)
  IN  IF IsPtr(map) /\ h[map].tag = "map" THEN found(PersistentArrayMap_get(h, map, self))
      ELSE Says(Release(h, map), defaultVal)

(* Of the boxed values, those from -9 on are integers here: 0 is -1.       *)
IsInt32(v) == v \in -9 .. -1
Unbox(v) == -v - 1

PersistentVector_dynamic_nth(h, self, index) ==
  IF IsInt32(index) THEN nth(h, self, Unbox(index))
  ELSE Says(ReleaseAll(h, <<self, index>>), Throws)

Baseline_Invoke(h, method, self, args) ==
  LET kept == Retain(h, self)
  IN  CASE method.kind = "keyword" ->
             Keyword_invoke(kept, self, args[1], IF method.index = 1 THEN Nil ELSE args[2])
        [] method.kind = "map" -> PersistentArrayMap_get(kept, self, args[1])
        [] method.kind = "vector" -> PersistentVector_dynamic_nth(kept, self, args[1])

-----------------------------------------------------------------------------
(* The slot of a call site owns the value it was last called with.         *)
NewSlot(h) == Alloc(h, "slot", <<Null>>, NoMethod)
SlotKey(h, slot) == h[slot].kids[1]

IsKeyword(v) == v \in -79 .. -70

MethodFor(h, v, n) ==
  CASE IsKeyword(v) /\ n \in {1, 2} -> Method("keyword", n)
    [] IsPtr(v) /\ h[v].tag = "function" -> Function_extractMethod(h, v, n)
    [] IsPtr(v) /\ h[v].tag \in {"map", "vector"} /\ n = 1 -> Method(h[v].tag, 1)
    [] OTHER -> NoMethod

\* Mutant: the slot does not own the value it remembers.
RT_updateICSlotBorrowed(h, slot, currentVal, n) ==
  LET method == MethodFor(h, currentVal, n)
  IN  IF method = NoMethod THEN h
      ELSE Release([h EXCEPT ![slot].kids = <<currentVal>>, ![slot].info = method], SlotKey(h, slot))

(* Without a method for so many arguments the slot stays as it is, and the *)
(* call throws.                                                            *)
RT_updateICSlot(h, slot, currentVal, n) ==
  LET method == MethodFor(h, currentVal, n)
  IN  IF method = NoMethod THEN h
      ELSE Release([Retain(h, currentVal) EXCEPT ![slot].kids = <<currentVal>>, ![slot].info = method],
                   SlotKey(h, slot))

(* A call from compiled code, at a site that always passes so many         *)
(* arguments.  The callee takes the arguments; the landing pad of a call   *)
(* that finds no method releases them.  What the callee was given is seen. *)
SeenBy(h, v, method, args) ==
  LET parameters == h[v].info[method.index]
      fixed == SubSeq(args, 1, parameters.fixedArity)
      packed(rest) == [h |-> Release(ReleaseAll(rest.h, fixed), rest.r),
                       seen |-> <<method.index>> \o fixed
                                \o (IF rest.r = Nil THEN <<Nil>> ELSE ListElements(rest.h, rest.r))]
  IN  IF parameters.isVariadic THEN packed(RT_packVariadic(h, args, parameters.fixedArity))
      ELSE [h |-> ReleaseAll(h, args), seen |-> <<method.index>> \o args]

CallSite(h, slot, v, args) ==
  LET hit == SlotKey(h, slot) = v
      answered(call) == [h |-> Release(call.h, call.r), seen |-> <<call.r>>]
      call(g, method) == IF method.kind = "function" THEN SeenBy(g, v, method, args)
                         ELSE answered(Baseline_Invoke(g, method, v, args))
      found(g) == call(g, g[slot].info)
  IN  IF ~hit /\ MethodFor(h, v, Len(args)) = NoMethod
      THEN [h |-> ReleaseAll(h, args), seen |-> <<Throws>>]
      ELSE found(IF hit THEN h ELSE RT_updateICSlot(h, slot, v, Len(args)))

-----------------------------------------------------------------------------
(* Metadata, of the kinds of values that have any.                         *)
Metadata(h, v) ==
  IF h[v].tag \in {"list", "symbol", "map", "vector"} THEN Last(h[v].kids) ELSE Nil

RT_meta(h, v) ==
  IF ~IsPtr(v) THEN Says(h, Nil)
  ELSE [h |-> Release(Retain(h, Metadata(h, v)), v), r |-> Metadata(h, v)]

RT_withMeta(h, v, meta) ==
  CASE ~IsPtr(v) -> Says(Release(h, meta), v)
    [] h[v].tag = "symbol" -> Symbol_withMeta(h, v, meta)
    [] h[v].tag = "vector" -> withMeta(h, v, meta)
    [] h[v].tag = "list" -> PersistentList_withMeta(h, v, meta)
    [] h[v].tag = "map" -> PersistentArrayMap_withMeta(h, v, meta)
    [] OTHER -> Says(Release(h, meta), v)
=============================================================================
