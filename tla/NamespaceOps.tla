---------------------------- MODULE NamespaceOps ----------------------------
(***************************************************************************)
(* Namespaces as objects that own what they map, the registry of them, and *)
(* the look-up of Vars by the compiler (backend/runtime/Namespace.c,       *)
(* backend/state/ThreadsafeCompilerState.cpp), as functions on heaps.      *)
(* Namespace.tla has the races between threads; here a thread works alone, *)
(* so that its swaps succeed, and the reference counts are the subject.    *)
(*                                                                         *)
(* A namespace owns its name, its mappings and its aliases.  An interned   *)
(* Var owns its root and its symbol and knows its namespace without owning *)
(* it.  Equal symbols are one object here, whose count is that of all of   *)
(* them: nothing changes a symbol in place.                                *)
(***************************************************************************)
EXTENDS FunctionOps

(* The symbols user, clojure.core and *ns*, and another one; the registry. *)
user == 6
core == 7
starNs == 8
other == 9
namespaces == 10

NewSymbol(h) == Alloc(h, "symbol", <<Null, Null, Nil>>, <<>>)
NewRegistry(h) == Alloc(h, "registry", <<>>, <<>>)

Name == 1
Mappings == 2
Aliases == 3

NameOfNs(h, ns) == h[ns].kids[Name]

Namespace_create(h, name) ==
  Alloc(RetainAll(h, <<EMPTY_ARRAY_MAP, EMPTY_ARRAY_MAP>>), "namespace",
        <<name, EMPTY_ARRAY_MAP, EMPTY_ARRAY_MAP>>, <<>>)

Registered(h, name) ==
  LET entries == h[namespaces].kids
      at == {i \in DOMAIN entries : i % 2 = 1 /\ entries[i] = name}
  IN  IF at = {} THEN Nil ELSE entries[Min(at) + 1]

Namespace_find(h, name) ==
  LET found(ns) == Says(Release(Retain(h, ns), name), ns) IN found(Registered(h, name))

(* The new namespace and its name go into the registry.                    *)
Namespace_findOrCreate(h, name) ==
  LET put(new) == Says([Retain(new.h, new.r) EXCEPT ![namespaces].kids = @ \o <<name, new.r>>], new.r)
      end(found) == IF found.r # Nil THEN Says(Release(found.h, name), found.r)
                    ELSE put(Namespace_create(Retain(found.h, name), name))
  IN  end(Namespace_find(Retain(h, name), name))

(* What a map of the namespace has for a symbol, retained; and the         *)
(* replacement of the map.                                                 *)
Get(h, ns, map, sym) ==
  PersistentArrayMap_get(RetainAll(h, <<h[ns].kids[map], sym>>), h[ns].kids[map], sym)

Install(h, ns, map, new) == Release([h EXCEPT ![ns].kids[map] = new], h[ns].kids[map])

Namespace_getMapping(h, self, name) ==
  LET end(got) == Says(ReleaseAll(got.h, <<self, name>>), got.r)
  IN  end(Get(h, self, Mappings, name))

Namespace_lookupAlias(h, self, alias) ==
  LET map == h[self].kids[Aliases]
  IN  PersistentArrayMap_get(Release(Retain(h, map), self), map, alias)

(* What the namespace owns, with a reference for the caller.               *)
Part(h, self, i) == Says(Release(Retain(h, h[self].kids[i]), self), h[self].kids[i])

Namespace_getName(h, self) == Part(h, self, Name)
Namespace_getMappings(h, self) == Part(h, self, Mappings)
Namespace_getAliases(h, self) == Part(h, self, Aliases)

(* A Var of the namespace, under whatever symbol; and under this one.      *)
IsOwn(h, ns, v) == IsVar(h, v) /\ h[v].info.ns = ns
Namespace_isInternedMapping(h, ns, sym, v) == IsOwn(h, ns, v) /\ h[v].kids[2] = sym

Namespace_findInternedVar(h, self, symbol) ==
  LET end(o) == IF IsOwn(o.h, self, o.r) THEN Says(ReleaseAll(o.h, <<self, symbol>>), o.r)
                ELSE Says(ReleaseAll(o.h, <<o.r, self, symbol>>), Nil)
  IN  end(Namespace_getMapping(RetainAll(h, <<self, symbol>>), self, symbol))

-----------------------------------------------------------------------------
Var_create_interned(h, ns, sym) ==
  Alloc(Release(h, ns), "var", <<Null, sym>>, [dynamic |-> FALSE, ns |-> ns])

(* An entry is added to a copy of the map, for the namespace has the other *)
(* reference to it.  A map that is full throws, and what the caller had in *)
(* hand stays retained.                                                    *)
Assoc(h, self, map, sym, val, hand) ==
  LET old == h[self].kids[map]
      end(new) == IF new.r = Throws THEN [h |-> new.h, r |-> Throws, leaks |-> hand]
                  ELSE [h |-> Install(new.h, self, map, new.r), r |-> val, leaks |-> <<>>]
  IN  end(PersistentArrayMap_assoc(RetainAll(h, <<val, old, sym>>), old, sym, val))

(* A call that throws leaves the rest undone.                              *)
Ending(call, owned) ==
  IF call.r = Throws THEN call ELSE [call EXCEPT !.h = ReleaseAll(@, owned)]

(* What is done once the mapping, o, is looked up.                         *)
MapTo(v, self, sym, owned) == Ending(Assoc(v.h, self, Mappings, sym, v.r, <<self, sym, v.r>>), owned)

InternAt(o, self, sym) ==
  IF Namespace_isInternedMapping(o.h, self, sym, o.r)
  THEN [h |-> ReleaseAll(o.h, <<self, sym>>), r |-> o.r, leaks |-> <<>>]
  ELSE MapTo(Var_create_interned(RetainAll(o.h, <<self, sym>>), self, sym), self, sym, <<self, sym, o.r>>)

Namespace_intern(h, self, sym) == InternAt(Get(h, self, Mappings, sym), self, sym)

(* A Var that is interned under the symbol is not replaced: that call      *)
(* throws, and Refuses says when.                                          *)
Refuses(h, self, sym, val) ==
  LET o == Get(h, self, Mappings, sym).r IN o # val /\ Namespace_isInternedMapping(h, self, sym, o)

ReferAt(o, self, sym, val) ==
  IF o.r = val THEN [h |-> ReleaseAll(o.h, <<self, sym, val>>), r |-> o.r, leaks |-> <<>>]
  ELSE MapTo([h |-> Release(o.h, o.r), r |-> val], self, sym, <<self, sym>>)

Namespace_reference(h, self, sym, val) == ReferAt(Get(h, self, Mappings, sym), self, sym, val)

(* The entry is taken out of a copy as well.                               *)
Shorter(h, self, map, sym) ==
  LET old == h[self].kids[map] IN PersistentArrayMap_dissoc(RetainAll(h, <<old, sym>>), old, sym)

Removed(new, self, map) == Install(new.h, self, map, new.r)

DissocAt(existing, self, map, sym) ==
  ReleaseAll(IF existing.r = Nil THEN existing.h
             ELSE Removed(Shorter(Release(existing.h, existing.r), self, map, sym), self, map),
             <<self, sym>>)

Dissoc(h, self, map, sym) == DissocAt(Get(h, self, map, sym), self, map, sym)

Namespace_unmap(h, self, sym) == Dissoc(h, self, Mappings, sym)
Namespace_removeAlias(h, self, alias) == Dissoc(h, self, Aliases, alias)

AliasAt(oldNs, self, alias, ns) ==
  IF oldNs.r # Nil THEN [h |-> ReleaseAll(oldNs.h, <<alias, ns, self, oldNs.r>>),
                         r |-> IF oldNs.r = ns THEN Nil ELSE Throws, leaks |-> <<>>]
  ELSE Ending(Assoc(oldNs.h, self, Aliases, alias, ns, <<self, alias, ns>>), <<alias, ns, self>>)

Namespace_addAlias(h, self, alias, ns) == AliasAt(Get(h, self, Aliases, alias), self, alias, ns)

-----------------------------------------------------------------------------
(* Vars by name, for the compiler; a name without a namespace is of user.  *)
InternIn(found, sym) == Namespace_intern(Retain(found.h, sym), found.r, sym)

getOrCreateVar(h, ns, sym) == InternIn(Namespace_findOrCreate(Retain(h, ns), ns), sym)

(* The mapping in a namespace that was found, which is given back; that of *)
(* clojure.core is given back twice.                                       *)
VarIn(found, sym, owned, over) ==
  LET end(mapping) == [h |-> ReleaseAll(mapping.h, owned), r |-> mapping.r, leaks |-> over]
  IN  IF found.r = Nil THEN [h |-> found.h, r |-> Nil, leaks |-> <<>>]
      ELSE end(Namespace_getMapping(RetainAll(found.h, <<sym, found.r>>), found.r, sym))

OwnVar(found, sym) == VarIn(found, sym, <<found.r>>, <<>>)
CoreVar(found, sym) == VarIn(found, sym, <<found.r, found.r>>, <<-found.r>>)

getCurrentVar(h, qualified, ns, sym) ==
  LET onlyVar(call) == IF IsVar(call.h, call.r) THEN call
                       ELSE [call EXCEPT !.h = Release(@, call.r), !.r = Null]
      end(own) == IF own.r = Nil /\ ~qualified /\ ns # core
                  THEN CoreVar(Namespace_find(Retain(own.h, core), core), sym)
                  ELSE own
  IN  onlyVar(end(OwnVar(Namespace_find(Retain(h, ns), ns), sym)))

ReferIn(found, sym, var) == Namespace_reference(Retain(found.h, sym), found.r, sym, var)

registerVar(h, ns, sym, var) ==
  Ending(ReferIn(Namespace_findOrCreate(Retain(h, ns), ns), sym, var), <<var>>)

(* The namespaces that are there from the start; *ns* is user.             *)
Var_setDynamic(h, v) == [h EXCEPT ![v].info.dynamic = TRUE]
Var_bindRoot(h, self, object) ==
  Release(Release([h EXCEPT ![self].kids[1] = object], h[self].kids[1]), self)

BindNs(var, userNs) ==
  registerVar(Var_bindRoot(Retain(userNs.h, var.r), var.r, userNs.r), core, starNs, var.r).h
BindUser(var) == BindNs(var, Namespace_findOrCreate(Retain(Var_setDynamic(var.h, var.r), user), user))

initializeDefaultNamespaces(h) == BindUser(getOrCreateVar(h, core, starNs))

WithNamespaces(h) ==
  LET symbols == FoldLeft(LAMBDA g, i : NewSymbol(g).h, h, <<user, core, starNs, other>>)
  IN  initializeDefaultNamespaces(NewRegistry(symbols).h)
=============================================================================
