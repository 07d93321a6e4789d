---------------------------- MODULE Collections ----------------------------
(***************************************************************************)
(* A program with a few variables that works on lists, array maps, vectors *)
(* and the sequences over them, on strings, builders and symbols, on       *)
(* contexts of dynamic bindings, on functions, or on namespaces and their  *)
(* Vars: each step calls one operation of CollectionOps, TextOps,          *)
(* BindingOps, FunctionOps or NamespaceOps on a value that it gives away   *)
(* or keeps as well.                                                       *)
(***************************************************************************)
EXTENDS NamespaceOps

CONSTANTS Vars,      \* variables of the program
          Sizes,     \* lengths it creates collections with
          MaxSize,   \* longest list or vector it builds
          Texts,     \* texts it creates strings with
          MaxText,   \* longest text it builds, and most pieces
          MaxOps,    \* calls it makes
          MaxTextOps,\* calls it makes when it works on texts
          MaxCallOps \* calls it makes until it calls a collection as a function

ASSUME CollectionsAssumption ==
  /\ MaxSize \in Nat /\ Sizes \subseteq 0 .. MaxSize /\ MaxText \in Nat
  /\ MaxOps \in Nat /\ MaxTextOps \in 0 .. MaxOps /\ MaxCallOps \in 0 .. MaxOps

(* The runtime keeps one reference each to a boxed value, Item, and to the *)
(* empty list, map and vector, and something outside one to each of the    *)
(* Vars and call sites, or to the symbols and the registry.                *)
VARIABLES heap,
          ref,     \* what each variable refers to, or Null
          want,    \* history: the elements or entries that should have
          got,     \* history: the answer of the last call, and the right one
          lost,    \* history: references that no owner will release
          ops      \* calls made, to bound the behaviours

vars == <<heap, ref, want, got, lost, ops>>

Item == 1
DynamicVars == 6 .. 8
PlainVar == 9
CallSites == <<10, 11>>    \* slots of the sites that pass one and two arguments

(* Elements are told apart by their position; every second one is Item.    *)
Elem(i) == IF i % 2 = 0 THEN Item ELSE -i
Elems(n) == [i \in 1 .. n |-> Elem(i)]
Keys == {-71, -72, Item}

Right == [is |-> <<>>, should |-> <<>>]

(* The runtime, and what a program has made before: Vars and call sites,   *)
(* or the namespaces.                                                      *)
Started ==
  LET item == Alloc(EmptyHeap, "item", <<>>, <<>>)
      list == PersistentList_create(item.h, Null, Null)
      map == PersistentArrayMap_createMany(list.h, <<>>)
      vector == NewVector(map.h, 0, 0, PERSISTENT, 5, Null, Nil)
  IN  NewNode(vector.h, <<>>, TRUE, PERSISTENT).h

WithVars(h) ==
  LET var(g, a) == NewVar(Retain(g, Item), Item, a \in DynamicVars).h
      vars4 == FoldLeft(var, h, <<6, 7, 8, PlainVar>>)
  IN  NewSlot(NewSlot(vars4).h).h

HasNamespaces == heap[namespaces].tag = "registry"

Init ==
  /\ heap \in {WithVars(Started), WithNamespaces(Started)}
  /\ ref = [x \in Vars |-> Null]
  /\ want = [x \in Vars |-> <<>>]
  /\ got = Right /\ lost = <<>> /\ ops = 0

Kind(x) == heap[ref[x]].tag

(* What a value is for the program: its elements, or its entries.          *)
View(h, a) ==
  CASE h[a].tag = "list" -> ListElements(h, a)
    [] h[a].tag = "map" -> MapPairs(h, a)
    [] h[a].tag = "vector" -> Contents(h, a)
    [] h[a].tag = "cseq" -> ChunkedSeq_elements(h, a)
    [] h[a].tag = "rseq" -> ReverseSeq_elements(h, a)
    [] h[a].tag = "chunk" -> ArrayChunk_elements(h, a)
    [] h[a].tag = "string" -> Text(h, a)
    [] h[a].tag = "builder" -> Text(h, h[a].kids[1])
    [] h[a].tag = "symbol" -> SymbolText(h, a)
    [] h[a].tag = "context" -> MapPairs(h, BindingsMap(h, a))
    [] h[a].tag = "function" -> <<h[a].info, h[a].kids>>
    [] h[a].tag = "namespace" -> <<NameOfNs(h, a)>>
    [] h[a].tag = "var" -> <<NameOfNs(h, h[a].info.ns), h[a].kids[2]>>

(* Hashes are told apart if what goes into them is.                        *)
Object_hash(h, a) ==
  CASE h[a].tag = "list" -> ListElements(h, a)
    [] h[a].tag = "map" -> MapPairs(h, a)
    [] h[a].tag = "vector" -> PersistentVector_hash(h, a)
    [] h[a].tag = "string" -> StringHash(h, a)
    [] h[a].tag = "symbol" -> Symbol_hash(h, a)
    [] OTHER -> <<a>>

Object_equals(h, a, b) ==
  /\ Object_hash(h, a) = Object_hash(h, b)
  /\ CASE h[a].tag = "list" -> PersistentList_equals(h, a, b)
       [] h[a].tag = "map" -> PersistentArrayMap_equals(h, a, b)
       [] h[a].tag = "vector" -> PersistentVector_equals(h, a, b)
       [] h[a].tag = "string" -> String_equals(h, a, b)
       [] h[a].tag = "symbol" -> Symbol_equals(h, a, b)
       [] OTHER -> a = b

equals(h, v, w) ==
  \/ v = w
  \/ IsPtr(v) /\ IsPtr(w) /\ h[v].tag = h[w].tag /\ Object_equals(h, v, w)

RECURSIVE Alive(_, _)
Alive(h, a) ==
  /\ h[a].rc > 0
  /\ h[a].tag \notin {"var", "namespace"} =>
       \A i \in DOMAIN h[a].kids : IsPtr(h[a].kids[i]) => Alive(h, h[a].kids[i])

Room == ops < MaxOps /\ Cardinality(FreeCells(heap)) > MaxSize + 2

(* To keep the runs short, the program works on one family of values at a  *)
(* time.                                                                   *)
Family(tag) ==
  CASE tag \in {"string", "builder", "symbol"} -> "text"
    [] tag = "context" -> "scope"
    [] tag = "function" -> "call"
    [] tag \in {"namespace", "var"} -> "name"
    [] OTHER -> "collection"
Works(family) ==
  /\ HasNamespaces <=> family = "name"
  /\ \A z \in Vars : ref[z] # Null => Family(Kind(z)) = family
Usable(x) ==
  /\ Room /\ ref[x] # Null /\ Alive(heap, ref[x])
  /\ Family(Kind(x)) = "text" => ops < MaxTextOps

(* The value of x goes to a call that puts its result into y: if y is      *)
(* another variable, the program keeps x and passes a reference of its own.*)
Passed(x, y) == IF y = x THEN heap ELSE Retain(heap, ref[x])

(* nil, and an exception, leave the variable without a collection.         *)
Returns(y, call, elements) ==
  /\ heap' = call.h
  /\ ref' = [ref EXCEPT ![y] = IF call.r \in Addr THEN call.r ELSE Null]
  /\ want' = [want EXCEPT ![y] = IF call.r \in Addr THEN elements ELSE <<>>]
  /\ got' = Right
  /\ ops' = ops + 1

(* A call that answers with a value, which the program releases.           *)
Answers(x, call, should) ==
  /\ heap' = Release(call.h, call.r)
  /\ ref' = [ref EXCEPT ![x] = Null]
  /\ want' = [want EXCEPT ![x] = <<>>]
  /\ got' = [is |-> <<call.r>>, should |-> <<should>>]
  /\ ops' = ops + 1 /\ UNCHANGED lost

(* A call that answers with a number, or that gave some elements to a      *)
(* reducing function.                                                      *)
Reduces(x, call, should) ==
  /\ heap' = call.h
  /\ ref' = [ref EXCEPT ![x] = Null]
  /\ got' = [is |-> call.seen, should |-> should]
  /\ ops' = ops + 1 /\ UNCHANGED lost

Counts(x, call) ==
  /\ Reduces(x, [h |-> call.h, seen |-> <<call.r>>], <<Len(want[x])>>)
  /\ want' = [want EXCEPT ![x] = <<>>]

Front0(s) == IF s = <<>> THEN <<>> ELSE Front(s)
Tail0(s) == IF s = <<>> THEN <<>> ELSE Tail(s)
From(s, n) == SubSeq(s, n + 1, Len(s))

-----------------------------------------------------------------------------
Create(y) ==
  \E n \in Sizes :
    LET h == RetainAll(heap, Elems(n))
        pairs == [i \in 1 .. 2 * n |-> IF i % 2 = 1 THEN -70 - ((i + 1) \div 2) ELSE Elem(i \div 2)]
        empty == PersistentList_empty(heap)
    IN  /\ ref[y] = Null /\ Room /\ Works("collection") /\ UNCHANGED lost
        /\ \/ Returns(y, PersistentList_fromArray(h, Elems(n)), Elems(n))
           \/ /\ n <= HASHTABLE_THRESHOLD
              /\ Returns(y, PersistentArrayMap_createMany(h, pairs),
                         {<<-70 - i, Elem(i)>> : i \in 1 .. n})
           \/ Returns(y, IF n = 0 THEN [h |-> Retain(heap, EMPTY_VECTOR), r |-> EMPTY_VECTOR]
                         ELSE createMany(h, Elems(n)), Elems(n))

(* Calls that make a list from a list.                                     *)
ListCall(x, y) ==
  LET h == Passed(x, y)
      l == ref[x]
      value == Elem(Length(h, l) + 1)
  IN  /\ Kind(x) = "list" /\ UNCHANGED lost
      /\ \/ /\ Len(want[x]) < MaxSize
            /\ Returns(y, PersistentList_conj(Retain(h, value), l, value), <<value>> \o want[x])
         \/ Returns(y, PersistentList_pop(h, l), Tail0(want[x]))
         \/ Returns(y, PersistentList_next(h, l), Tail0(want[x]))

ListRead(x) ==
  /\ Kind(x) = "list"
  /\ \/ Answers(x, PersistentList_first(heap, ref[x]), IF want[x] = <<>> THEN Null ELSE Head(want[x]))
     \/ Counts(x, PersistentList_count(heap, ref[x]))
     \/ /\ want' = [want EXCEPT ![x] = <<>>]
        /\ \/ Reduces(x, PersistentList_reduce(heap, ref[x]), want[x])
           \/ Reduces(x, PersistentList_reduce2(heap, ref[x]), want[x])

Without(pairs, key) == {p \in pairs : p[1] # key}

Lookup(pairs, key) ==
  IF \E p \in pairs : p[1] = key THEN (CHOOSE p \in pairs : p[1] = key)[2] ELSE Nil

MapCall(x, y) ==
  LET h == Passed(x, y)
      map == ref[x]
      pairs == want[x]
  IN  /\ Kind(x) = "map" /\ UNCHANGED lost
      /\ \E key \in Keys :
           \/ Returns(y, PersistentArrayMap_assoc(RetainAll(h, <<key, Item>>), map, key, Item),
                      Without(pairs, key) \cup {<<key, Item>>})
           \/ Returns(y, PersistentArrayMap_dissoc(Retain(h, key), map, key),
                      Without(pairs, key))

MapRead(x) ==
  /\ Kind(x) = "map"
  /\ \E key \in Keys :
       Answers(x, PersistentArrayMap_get(Retain(heap, key), ref[x], key), Lookup(want[x], key))

VectorCall(x, y) ==
  LET h == Passed(x, y)
      value == Elem(Len(want[x]) + 1)
  IN  /\ Kind(x) = "vector" /\ UNCHANGED lost
      /\ \/ /\ Len(want[x]) < MaxSize
            /\ Returns(y, conj(Retain(h, value), ref[x], value), Append(want[x], value))
         \/ Returns(y, pop(h, ref[x]), Front0(want[x]))
         \/ Returns(y, PersistentVector_seq(h, ref[x]), want[x])
         \/ Returns(y, PersistentVector_rseq(h, ref[x]), Reverse(want[x]))
         \/ Returns(y, PersistentVector_entryAt(h, ref[x], -2, 1), IF Len(want[x]) > 1 THEN <<-2, want[x][2]>> ELSE <<>>)

VectorRead(x) ==
  /\ Kind(x) = "vector"
  /\ \/ Counts(x, PersistentVector_count(heap, ref[x]))
     \/ /\ Reduces(x, PersistentVector_reduce2(heap, ref[x]), want[x])
        /\ want' = [want EXCEPT ![x] = <<>>]

ChunkedSeqCall(x, y) ==
  LET h == Passed(x, y)
      s == ref[x]
      inBlock == Len(Array(h, It(h, s).block)) - It(h, s).blockIndex
  IN  /\ Kind(x) = "cseq" /\ UNCHANGED lost
      /\ \/ Returns(y, ChunkedSeq_next(h, s), Tail0(want[x]))
         \/ Returns(y, OrEmpty(ChunkedSeq_next(h, s)), Tail0(want[x]))
         \/ Returns(y, ChunkedSeq_chunkedNext(h, s), From(want[x], inBlock))
         \/ Returns(y, OrEmpty(ChunkedSeq_chunkedNext(h, s)), From(want[x], inBlock))
         \/ Returns(y, ChunkedSeq_chunkedFirst(h, s), SubSeq(want[x], 1, inBlock))
         \/ \E n \in 0 .. 3 : Returns(y, ChunkedSeq_drop(h, s, n), From(want[x], n))

(* A reduce without a start value moves the sequence itself on by one      *)
(* element, although others may have it (PersistentVectorChunkedSeq.c:222).*)
(* The program makes that call only on a sequence of its own or an empty   *)
(* one.                                                                    *)
ChunkedSeqRead(x) ==
  /\ Kind(x) = "cseq"
  /\ \/ Answers(x, ChunkedSeq_first(heap, ref[x]), IF want[x] = <<>> THEN Nil ELSE Head(want[x]))
     \/ Counts(x, ChunkedSeq_count(heap, ref[x]))
     \/ /\ Reduces(x, ChunkedSeq_reduce(heap, ref[x]), want[x])
        /\ want' = [want EXCEPT ![x] = <<>>]
     \/ /\ IsReusable(heap, ref[x]) \/ want[x] = <<>>
        /\ Reduces(x, ChunkedSeq_reduce2(heap, ref[x]), want[x])
        /\ want' = [want EXCEPT ![x] = <<>>]

ReverseSeqCall(x, y) ==
  /\ Kind(x) = "rseq" /\ UNCHANGED lost
  /\ \/ Returns(y, ReverseSeq_next(Passed(x, y), ref[x]), Tail(want[x]))
     \/ Returns(y, OrEmpty(ReverseSeq_next(Passed(x, y), ref[x])), Tail(want[x]))

ReverseSeqRead(x) ==
  /\ Kind(x) = "rseq"
  /\ \/ Answers(x, ReverseSeq_first(heap, ref[x]), Head(want[x]))
     \/ Counts(x, ReverseSeq_count(heap, ref[x]))

(* A chunk answers for what is in its block now.                           *)
ChunkRead(x) ==
  /\ Kind(x) = "chunk"
  /\ \/ /\ Len(want[x]) = Len(View(heap, ref[x]))
        /\ Counts(x, ArrayChunk_count(heap, ref[x]))
     \/ \E i \in 0 .. RRB_BRANCHING, notFound \in {Throws, Item} :
          Answers(x, ArrayChunk_nth(Retain(heap, notFound), ref[x], i, notFound),
                  IF i < Len(View(heap, ref[x])) THEN View(heap, ref[x])[i + 1] ELSE notFound)

-----------------------------------------------------------------------------
(* Texts.  The other operand of a call is a new string or one that a       *)
(* variable has.                                                           *)
Strings(h) ==
  {String_createStatic(h, text) : text \in Texts}
  \cup {[h |-> Retain(h, ref[z]), r |-> ref[z]] : z \in {z \in Vars : ref[z] # Null /\ Kind(z) = "string"}}

Fits(s, t) ==
  /\ StringCount(heap, s) + StringCount(t.h, t.r) <= MaxText
  /\ Len(Pieces(heap, s)) + Len(Pieces(t.h, t.r)) <= MaxText

(* The iterator runs out of a piece that is empty, and replace out of an   *)
(* empty string: what it reads there is not defined.                       *)
Iterable(h, s) == IsCompound(h, s) => \A p \in Range(Pieces(h, s)) : StringCount(h, p) > 0

Comparable(h, a) ==
  CASE h[a].tag = "string" -> Iterable(h, a) /\ StringHash(h, a) # Unset
    [] h[a].tag = "symbol" -> StringHash(h, NameOf(h, a)) # Unset
    [] OTHER -> TRUE

(* Symbol_init asserts that a name of several characters has no slash.     *)
NamesSymbol(text) ==
  \A i, j \in DOMAIN text : i < j /\ text[i] = Slash /\ text[j] = Slash => j = i + 1 /\ j = Len(text)

CreateText(y) ==
  /\ ref[y] = Null /\ Room /\ ops < MaxTextOps /\ Works("text") /\ UNCHANGED lost
  /\ \E text \in Texts :
       \/ Returns(y, String_createStatic(heap, text), text)
       \/ Returns(y, String_createDynamicStr(heap, text), text)

StringCall(x, y) ==
  LET h == Passed(x, y)
      s == ref[x]
      one(c) == String_createStatic(h, <<c>>)
      two(t, c) == String_createStatic(t.h, c)
  IN  /\ Kind(x) = "string" /\ UNCHANGED lost
      /\ \/ \E t \in Strings(h) :
              /\ Fits(s, t)
              /\ Returns(y, String_concat(t.h, s, t.r), want[x] \o Text(t.h, t.r))
         \/ Returns(y, String_compactify(h, s), want[x])
         \/ Returns(y, StringBuilder_create(h, s), want[x])
         \/ /\ Iterable(heap, s)
            /\ \/ \E i \in 0 .. Len(want[x]), j \in 0 .. Len(want[x]) + 1 :
                    Returns(y, String_subs(h, s, i, j), SubSeq(want[x], i + 1, j))
               \/ /\ NamesSymbol(want[x])
                  /\ Returns(y, Symbol_create(h, s), want[x])
               \/ \E t \in {one(97)}, c \in {<<97>>, <<Slash>>, <<>>} : \E u \in {two(t, c)} :
                    /\ want[x] # <<>>
                    /\ Returns(y, String_replace(u.h, s, t.r, u.r),
                               [i \in DOMAIN want[x] |-> IF want[x][i] = 97 THEN c[1] ELSE want[x][i]])

StringRead(x) ==
  /\ Kind(x) = "string"
  /\ \/ /\ Iterable(heap, ref[x]) /\ want' = [want EXCEPT ![x] = <<>>]
        /\ \E i \in 0 .. Len(want[x]), call \in {String_charAt(heap, ref[x], 0)} :
             Reduces(x, [h |-> call.h, seen |-> <<String_charAt(heap, ref[x], i).r>>],
                     <<IF i = Len(want[x]) THEN Throws ELSE want[x][i + 1]>>)
     \/ /\ want' = [want EXCEPT ![x] = <<>>]
        /\ \E t \in Strings(heap), from \in -1 .. 2 :
             \E call \in {String_indexOfFrom(t.h, ref[x], t.r, from)},
                found \in {Occurrences(want[x], Text(t.h, t.r), IF from < 0 THEN 0 ELSE from)} :
               Reduces(x, [h |-> call.h, seen |-> <<call.r>>],
                       <<IF found # {} THEN Min(found)
                         ELSE IF Text(t.h, t.r) = <<>> THEN Len(want[x]) ELSE -1>>)

(* Whoever has the builder sees what is appended.                          *)
BuilderCall(x, y) ==
  /\ Kind(x) = "builder" /\ UNCHANGED lost
  /\ \/ \E t \in Strings(Passed(x, y)) :
          /\ Fits(heap[ref[x]].kids[1], t)
          /\ heap' = StringBuilder_append(t.h, ref[x], t.r).h
          /\ ref' = [ref EXCEPT ![y] = ref[x]]
          /\ want' = [z \in Vars |-> IF z = y \/ ref[z] = ref[x] THEN want[x] \o Text(t.h, t.r) ELSE want[z]]
          /\ got' = Right /\ ops' = ops + 1
     \/ Returns(y, StringBuilder_toString(Passed(x, y), ref[x]), want[x])

SymbolCall(x, y) ==
  LET h == Passed(x, y)
      slashes == {i \in DOMAIN want[x] : want[x][i] = Slash}
  IN  /\ Kind(x) = "symbol" /\ UNCHANGED lost
      /\ \/ /\ Len(want[x]) < MaxText
            /\ Returns(y, Symbol_toString(h, ref[x]), want[x])
         \/ Returns(y, Symbol_getName(h, ref[x]),
                    IF slashes = {} \/ Len(want[x]) = 1 THEN want[x] ELSE From(want[x], Min(slashes)))

SymbolRead(x) ==
  Kind(x) = "symbol" /\ Answers(x, Symbol_getMeta(heap, ref[x]), SymbolMeta(heap, ref[x]))

-----------------------------------------------------------------------------
(* Dynamic scopes.  A call borrows the context; what it binds goes into a  *)
(* new one.                                                                *)
BoundIn(ctx) == IF ctx = Null THEN {} ELSE want[CHOOSE x \in Vars : ref[x] = ctx]

Bind(y, ctx) ==
  /\ ref[y] = Null /\ Room /\ Works("scope")
  /\ \/ \E v \in DynamicVars \cup {PlainVar, Item} :
          /\ Returns(y, RT_bind(RetainAll(heap, <<v, -1>>), ctx, v, -1),
                     Without(BoundIn(ctx), v) \cup {<<v, -1>>})
          /\ UNCHANGED lost
     \/ \E v \in DynamicVars, w \in {6, PlainVar} :
          \E map \in {PersistentArrayMap_createMany(RetainAll(heap, <<v, -2, w, Item>>), <<v, -2, w, Item>>)} :
            \E call \in {RT_bind_map(map.h, ctx, map.r)} :
              /\ v # w
              /\ Returns(y, call, Without(Without(BoundIn(ctx), v), w) \cup {<<v, -2>>, <<w, Item>>})
              /\ lost' = IF call.leaks THEN Append(lost, map.r) ELSE lost

Clone(x, y) ==
  Kind(x) = "context" /\ UNCHANGED lost
  /\ Returns(y, ExecutionContext_clone(Passed(x, y), ref[x]), want[x])

Deref(ctx) ==
  \E v \in DynamicVars \cup {PlainVar} :
    \E call \in {Var_deref(Retain(heap, v), ctx, v)} :
      /\ heap' = Release(call.h, call.r)
      /\ got' = [is |-> <<call.r>>,
                 should |-> <<IF \E p \in BoundIn(ctx) : p[1] = v
                              THEN (CHOOSE p \in BoundIn(ctx) : p[1] = v)[2] ELSE Item>>]
      /\ ops' = ops + 1 /\ UNCHANGED <<ref, want, lost>>

(* set! is seen through the context it was called with, and through no     *)
(* clone of it and no scope around it or inside it.                        *)
Set(ctx) ==
  \E v \in DynamicVars \cup {PlainVar} :
    \E call \in {Var_set(RetainAll(heap, <<v, Item>>), ctx, v, Item)},
       bound \in {\E p \in BoundIn(ctx) : p[1] = v} :
      /\ heap' = Release(call.h, call.r)
      /\ got' = [is |-> <<call.r>>, should |-> <<IF bound THEN Item ELSE Throws>>]
      /\ want' = [x \in Vars |-> IF bound /\ ref[x] = ctx
                                 THEN Without(want[x], v) \cup {<<v, Item>>} ELSE want[x]]
      /\ ops' = ops + 1 /\ UNCHANGED <<ref, lost>>

(* Outside of every scope only the first binding is of interest.           *)
Scoped(ctx) ==
  IF ctx = Null THEN \A z \in Vars : ref[z] = Null ELSE heap[ctx].tag = "context"

ScopeStep(ctx) ==
  \/ \E y \in Vars : Bind(y, ctx)
  \/ Room /\ Works("scope") /\ (Deref(ctx) \/ Set(ctx))

-----------------------------------------------------------------------------
(* Metadata.  A vector is left without: a copy of it does not retain its   *)
(* metadata.  A map that others have keeps the reference it was given.     *)
Meta(x, y) ==
  /\ Family(Kind(x)) # "name"
  /\ \/ /\ Kind(x) # "vector"
        /\ Returns(y, RT_withMeta(Retain(Passed(x, y), Item), ref[x], Item), want[x])
        /\ lost' = IF Kind(x) = "map" /\ ~IsReusable(Passed(x, y), ref[x]) THEN Append(lost, ref[x]) ELSE lost
     \/ y = x /\ Answers(x, RT_meta(heap, ref[x]), Metadata(heap, ref[x]))

-----------------------------------------------------------------------------
(* Calls of functions and of the other values that can be called, each at  *)
(* the site for its number of arguments.  The program keeps what it calls. *)
Shape(fixedArity, isVariadic, closedOvers) ==
  [fixedArity |-> fixedArity, isVariadic |-> isVariadic, closedOvers |-> closedOvers]
Shapes ==
  {<<Shape(1, FALSE, <<Item>>), Shape(2, TRUE, <<>>)>>, <<Shape(0, TRUE, <<Item, -1>>)>>,
   <<Shape(1, TRUE, <<>>), Shape(2, FALSE, <<Item>>)>>}

CreateFunction(y) ==
  \E methods \in Shapes :
    \E call \in {Function_create(RetainAll(heap, FlattenSeq([i \in DOMAIN methods |-> methods[i].closedOvers])),
                                methods)} :
      /\ ref[y] = Null /\ Room /\ Works("call") /\ UNCHANGED lost
      /\ Returns(y, call, View(call.h, call.r))

(* What a call should do: the callee gets as many arguments as it has      *)
(* parameters, and the others in a list.                                   *)
Given(methods, args) ==
  LET n == Len(args)
      fixed == {i \in DOMAIN methods : ~methods[i].isVariadic /\ methods[i].fixedArity = n}
      open == {i \in DOMAIN methods : methods[i].isVariadic /\ methods[i].fixedArity <= n}
      filled(i) == IF methods[i].fixedArity = n THEN Append(args, Nil) ELSE args
  IN  CASE fixed # {} -> <<Min(fixed)>> \o args
        [] fixed = {} /\ open # {} -> <<Min(open)>> \o filled(Min(open))
        [] OTHER -> <<Throws>>

Result(x, args) ==
  CASE Kind(x) = "function" -> Given(want[x][1], args)
    [] Kind(x) = "map" /\ Len(args) = 1 -> <<Lookup(want[x], args[1])>>
    [] Kind(x) = "vector" /\ Len(args) = 1 ->
         <<IF IsInt32(args[1]) /\ Unbox(args[1]) < Len(want[x])
           THEN want[x][Unbox(args[1]) + 1] ELSE Throws>>
    [] OTHER -> <<Throws>>

KeywordResult(x, more) ==
  IF Kind(x) = "map" /\ Lookup(want[x], -71) # Nil THEN Lookup(want[x], -71)
  ELSE IF more = <<>> THEN Nil ELSE Item

Calls(v, args, should) ==
  \E call \in {CallSite(RetainAll(heap, args), CallSites[Len(args)], v, args)} :
    /\ heap' = call.h
    /\ got' = [is |-> call.seen, should |-> should]
    /\ ops' = ops + 1 /\ UNCHANGED <<ref, want, lost>>

Call(x) ==
  /\ Kind(x) \in {"function", "map", "vector", "list"}
  /\ Family(Kind(x)) = "collection" => ops < MaxCallOps
  /\ \E v \in {ref[x], -71}, first \in {Item, -1, -71, ref[x]}, more \in {<<>>, <<Item>>} :
       /\ v = ref[x] <=> first # ref[x]
       /\ Calls(v, <<first>> \o more,
                IF v = ref[x] THEN Result(x, <<first>> \o more) ELSE <<KeywordResult(x, more)>>)

-----------------------------------------------------------------------------
(* Names.  A look-up that releases clojure.core once too often is made     *)
(* only while a variable has that namespace too.                           *)
Mapped(ns, sym) ==
  IF Registered(heap, ns) = Nil THEN Nil
  ELSE Lookup(MapPairs(heap, heap[Registered(heap, ns)].kids[Mappings]), sym)

Named(qualified, ns, sym) ==
  IF Mapped(ns, sym) = Nil /\ ~qualified THEN Mapped(core, sym) ELSE Mapped(ns, sym)

Overdraws(qualified, sym) == ~qualified /\ Mapped(user, sym) = Nil
SomeoneHas(a) == \E z \in Vars : ref[z] = a

Resolves(y, call, elements) ==
  Returns(y, call, elements) /\ lost' = lost \o call.leaks

Resolve(y) ==
  /\ ref[y] = Null /\ Room /\ Works("name")
  /\ \/ \E ns \in {user, core} : Resolves(y, getOrCreateVar(heap, ns, other), <<ns, other>>)
     \/ \E ns \in {user, core} : Returns(y, Namespace_findOrCreate(Retain(heap, ns), ns), <<ns>>) /\ UNCHANGED lost
     \/ \E qualified \in BOOLEAN, ns \in {user, core}, sym \in {starNs, other} :
          \E call \in {getCurrentVar(heap, qualified, ns, sym)} :
            /\ qualified \/ ns = user
            /\ Overdraws(qualified, sym) => SomeoneHas(Registered(heap, core)) /\ lost = <<>>
            /\ heap' = call.h /\ ref' = [ref EXCEPT ![y] = call.r]
            /\ want' = [want EXCEPT ![y] = IF call.r = Null THEN <<>> ELSE View(call.h, call.r)]
            /\ got' = [is |-> <<IF call.r = Null THEN Nil ELSE call.r>>, should |-> <<Named(qualified, ns, sym)>>]
            /\ ops' = ops + 1 /\ lost' = lost \o call.leaks

(* A reference that would be refused releases everything twice.            *)
VarCall(x) ==
  /\ Kind(x) = "var"
  /\ \E ns \in {user, core}, sym \in {starNs, other} :
       \E call \in {registerVar(Retain(heap, ref[x]), ns, sym, ref[x])} :
         /\ ~Refuses(heap, Registered(heap, ns), sym, ref[x])
         /\ heap' = call.h /\ lost' = lost \o call.leaks
         /\ got' = Right /\ ops' = ops + 1 /\ UNCHANGED <<ref, want>>

NamespaceCall(x) ==
  LET ns == ref[x]
      h == RetainAll(heap, <<ns, other>>)
      target == Registered(heap, core)
      answer(call, should) ==
        /\ heap' = Release(call.h, call.r) /\ got' = [is |-> <<call.r>>, should |-> <<should>>]
  IN  /\ Kind(x) = "namespace" /\ ops' = ops + 1 /\ UNCHANGED <<ref, want>>
      /\ \/ /\ \/ heap' = Namespace_unmap(h, ns, other)
               \/ heap' = Namespace_removeAlias(h, ns, other)
            /\ got' = Right /\ UNCHANGED lost
         \/ \E call \in {Namespace_addAlias(Retain(h, target), ns, other, target)} :
              heap' = call.h /\ lost' = lost \o call.leaks /\ got' = Right
         \/ /\ answer(Namespace_lookupAlias(h, ns, other), Lookup(MapPairs(heap, heap[ns].kids[Aliases]), other))
            /\ UNCHANGED lost
         \/ /\ answer(Namespace_findInternedVar(h, ns, other),
                       IF IsOwn(heap, ns, Mapped(NameOfNs(heap, ns), other))
                       THEN Mapped(NameOfNs(heap, ns), other) ELSE Nil)
            /\ UNCHANGED lost
         \/ /\ \/ answer(Namespace_getName(Retain(heap, ns), ns), NameOfNs(heap, ns))
               \/ answer(Namespace_getMappings(Retain(heap, ns), ns), heap[ns].kids[Mappings])
               \/ answer(Namespace_getAliases(Retain(heap, ns), ns), heap[ns].kids[Aliases])
            /\ UNCHANGED lost

-----------------------------------------------------------------------------
(* The last reference to what was released once too often stays.           *)
Drop(x) ==
  /\ ref[x] # Null /\ -ref[x] \notin Range(lost)
  /\ heap' = Release(heap, ref[x]) /\ ref' = [ref EXCEPT ![x] = Null]
  /\ want' = [want EXCEPT ![x] = <<>>] /\ got' = Right /\ UNCHANGED <<lost, ops>>

Next ==
  \E x \in Vars :
    \/ Create(x) \/ CreateText(x) \/ CreateFunction(x) \/ Resolve(x)
    \/ Drop(x)
    \/ \E ctx \in {ref[x]} \cup {Null} : Scoped(ctx) /\ ScopeStep(ctx)
    \/ /\ Usable(x)
       /\ \/ ListRead(x) \/ MapRead(x) \/ VectorRead(x) \/ ChunkedSeqRead(x) \/ ReverseSeqRead(x) \/ ChunkRead(x)
          \/ StringRead(x) \/ SymbolRead(x) \/ Call(x)
          \/ VarCall(x) \/ NamespaceCall(x)
          \/ \E y \in {z \in Vars : z = x \/ ref[z] = Null} :
               \/ ListCall(x, y) \/ MapCall(x, y) \/ VectorCall(x, y)
               \/ ChunkedSeqCall(x, y) \/ ReverseSeqCall(x, y)
               \/ StringCall(x, y) \/ BuilderCall(x, y) \/ SymbolCall(x, y) \/ Clone(x, y)
               \/ Meta(x, y)

Spec == Init /\ [][Next]_vars

-----------------------------------------------------------------------------
TypeOK ==
  /\ \A a \in Addr : heap[a].rc \in Nat /\ heap[a].kids \in Seq(Int)
  /\ ref \in [Vars -> Addr \cup {Null}] /\ DOMAIN want = Vars
  /\ lost \in Seq(Addr \cup {-a : a \in Addr}) /\ ops \in 0 .. MaxOps
  /\ got \in [is : Seq(Int), should : Seq(Int)]

(* Whatever is done with the values made from it, and with those it was    *)
(* made from, a list, map, vector, sequence or chunk that a variable has   *)
(* keeps its elements; and the call that made it gave it the right ones.   *)
(* A chunk of the tail can grow when the vector does, and a reduce without *)
(* a start value is called on no chunked sequence that others have.        *)
CollectionsPersist ==
  \A x \in Vars :
    ref[x] # Null => IF Kind(x) = "chunk" THEN IsPrefix(want[x], View(heap, ref[x]))
                     ELSE View(heap, ref[x]) = want[x]

(* Two values of one kind are equal exactly if their elements, entries or  *)
(* texts are, in whatever order the entries were put in, however a text is *)
(* cut into pieces and by whatever calls a vector has grown and shrunk: so *)
(* equal ones have equal hashes.  The hash that replace leaves unset can   *)
(* be anything.                                                            *)
EqualityIsByContents ==
  \A x, y \in Vars :
    /\ ref[x] # Null /\ ref[y] # Null /\ Kind(x) = Kind(y)
    /\ Kind(x) \in {"list", "map", "vector", "string", "symbol"}
    /\ Comparable(heap, ref[x]) /\ Comparable(heap, ref[y])
    => (equals(heap, ref[x], ref[y]) <=> want[x] = want[y])

(* Every answer, and every series of calls to a reducing function, is that *)
(* for the elements the value has; and values are equal by their contents. *)
AnswersAreRight == got.is = got.should /\ EqualityIsByContents

IsRoot(a) ==
  a \in {Item, EMPTY_LIST, EMPTY_ARRAY_MAP, EMPTY_VECTOR} \cup (IF HasNamespaces THEN user .. namespaces ELSE 6 .. 11)
External(a) == Cardinality({x \in Vars : ref[x] = a}) + (IF IsRoot(a) THEN 1 ELSE 0)

(* Reference counts are exact: nothing is freed early, and nothing stays   *)
(* but what the code forgets: the maps that withMeta is given, and what a  *)
(* call has in hand when a map is full.  A look-up that falls back on      *)
(* clojure.core releases that namespace once too often.                    *)
CountsAreExact ==
  LET refs == Refs(heap)
  IN  \A a \in Addr : heap[a].rc = Times(a, refs) + External(a) + Times(a, lost) - Times(-a, lost)

(* The block that a sequence remembers without owning it is alive, is the  *)
(* one that its position lies in, and the position in it is right.         *)
BlockIsCurrent ==
  \A a \in Addr :
    heap[a].tag = "cseq" =>
      LET it == It(heap, a) IN
      /\ heap[it.block].tag = "node"
      /\ it.index < Count(heap, Parent(heap, a))
         => /\ it.block = nthBlock(heap, Parent(heap, a), it.index)
            /\ PersistentVector_iteratorGet(heap, it) = Element(heap, Parent(heap, a), it.index)
=============================================================================
