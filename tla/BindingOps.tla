----------------------------- MODULE BindingOps -----------------------------
(***************************************************************************)
(* Vars with dynamic bindings, and the execution contexts that hold them   *)
(* (backend/runtime/ExecutionContext.c, Var.c), as functions on heaps.     *)
(* The roots of Vars change under other threads' eyes: that is RefCount's  *)
(* and Ebr's subject.  Here a thread works with its own bindings.          *)
(*                                                                         *)
(* A Var owns its root (Null if it has none); a context owns an array map  *)
(* from Vars to values, or nil.  A context is borrowed by the calls that   *)
(* look bindings up, and is Null outside of every binding.                 *)
(***************************************************************************)
EXTENDS CollectionOps

EMPTY_ARRAY_MAP == 3

NewVar(h, root, dynamic) == Alloc(h, "var", <<root>>, [dynamic |-> dynamic])

IsVar(h, v) == v \in Addr /\ h[v].tag = "var"
Var_isDynamic(h, v) == h[v].info.dynamic

ExecutionContext_create(h, bindingsMap) == Alloc(h, "context", <<bindingsMap>>, <<>>)

BindingsMap(h, ctx) == h[ctx].kids[1]
HasBindings(h, ctx) == ctx # Null /\ BindingsMap(h, ctx) # Nil

ExecutionContext_clone(h, self) ==
  LET map == BindingsMap(h, self)
  IN  ExecutionContext_create(Release(Retain(h, map), self), map)

(* The map that a new scope starts from.                                   *)
CurrentMap(h, ctx) ==
  LET map == IF HasBindings(h, ctx) THEN BindingsMap(h, ctx) ELSE EMPTY_ARRAY_MAP
  IN  [h |-> Retain(h, map), r |-> map]

Bindable(h, v) == IsVar(h, v) /\ Var_isDynamic(h, v)

(* assoc throws when the map is full, and has taken everything by then.    *)
InNewContext(map) == IF map.r = Throws THEN map ELSE ExecutionContext_create(map.h, map.r)

RT_bind(h, ctx, v, val) ==
  LET into(map) == InNewContext(PersistentArrayMap_assoc(map.h, map.r, v, val))
  IN  IF ~Bindable(h, v) THEN Says(ReleaseAll(h, <<v, val>>), Throws)
      ELSE into(CurrentMap(h, ctx))

(* RT_bind_map goes through the entries in order.  A key that cannot be    *)
(* bound ends it; the entries before it are given back with the map.  An   *)
(* assoc that throws leaves the caller's map retained.                     *)
Binding(acc, v, val) ==
  LET put(new) == [h |-> new.h, r |-> new.r, full |-> new.r = Throws]
  IN  IF ~Bindable(acc.h, v) THEN [h |-> Release(acc.h, acc.r), r |-> Throws, full |-> FALSE]
      ELSE put(PersistentArrayMap_assoc(RetainAll(acc.h, <<v, val>>), acc.r, v, val))

RECURSIVE BindFrom(_, _, _)
BindFrom(acc, map, i) ==
  IF i > Entries(acc.h, map) \/ acc.r = Throws THEN acc
  ELSE BindFrom(Binding(acc, Key(acc.h, map, i), Value(acc.h, map, i)), map, i + 1)

RT_bind_map(h, ctx, map) ==
  LET start(now) == [h |-> now.h, r |-> now.r, full |-> FALSE]
      scope(new) == [h |-> new.h, r |-> new.r, leaks |-> FALSE]
      end(last) == IF last.full THEN [h |-> last.h, r |-> Throws, leaks |-> TRUE]
                   ELSE scope(InNewContext([h |-> Release(last.h, map), r |-> last.r]))
  IN  end(BindFrom(start(CurrentMap(h, ctx)), map, 1))

-----------------------------------------------------------------------------
(* Var_deref compares pointers; Var_set changes the context it is given.   *)
Root(h, v) == h[v].kids[1]

Var_peek(h, ctx, self) ==
  IF /\ Var_isDynamic(h, self) /\ HasBindings(h, ctx)
     /\ PersistentArrayMap_indexOf(h, BindingsMap(h, ctx), self) # 0
  THEN Value(h, BindingsMap(h, ctx), PersistentArrayMap_indexOf(h, BindingsMap(h, ctx), self))
  ELSE Root(h, self)

Var_deref(h, ctx, self) ==
  [h |-> Release(Retain(h, Var_peek(h, ctx, self)), self), r |-> Var_peek(h, ctx, self)]

Settable(h, ctx, self) ==
  /\ Var_isDynamic(h, self) /\ HasBindings(h, ctx)
  /\ PersistentArrayMap_indexOf(h, BindingsMap(h, ctx), self) # 0

Var_set(h, ctx, self, value) ==
  LET m == BindingsMap(h, ctx)
      stored(new) == ReleaseAll([new.h EXCEPT ![ctx].kids = <<new.r>>], <<m, self>>)
  IN  IF ~Settable(h, ctx, self) THEN Says(ReleaseAll(h, <<value, self>>), Throws)
      ELSE [h |-> stored(PersistentArrayMap_assoc(RetainAll(h, <<value, self, m>>), m, self, value)),
            r |-> value]
=============================================================================
