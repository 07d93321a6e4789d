--------------------------- MODULE MCCompiledCode ---------------------------
(* Every function of two parameters whose body is an expression of depth   *)
(* two over the operations of the generator.                               *)
EXTENDS CompiledCode

(* Parameters, a captured variable, the function itself, and the names     *)
(* that an expression and one inside it bind.                              *)
Outer == [a |-> "a", b |-> "b", n |-> "n", self |-> "self"]
Inner == [a |-> "a2", b |-> "b2", n |-> "n2", self |-> "self2"]

MCNames == {"p", "q", "c", "f"} \cup Range(Outer) \cup Range(Inner)

Op(op, kids) == Node(op, "any", <<>>, kids)
Kind(op, of, kids) == Node(op, of, <<>>, kids)
Let(names, kids) == Node("let", "any", names, kids)
Fn(u, bodies) == Node("fn", u.self, <<u.n>>, bodies)
Var == Op("var", <<>>)

Leaves == {Local("p"), Local("c"), Const("string")}

Atoms == Leaves \cup {Local("q")}
           \cup {Const(t) : t \in {"number", "nil", "true", "false", "keyword", "vector", "map",
                               "symbol", "long"}}
           \cup {Var, Op("the-var", <<>>), Op("def", <<>>),
                 Kind("static-field", "object", <<>>), Kind("static-field", "number", <<>>),
                 Op("quote", <<Const("vector")>>),
                 Kind("const", "symbol", <<Const("map")>>), Kind("const", "class", <<Const("map")>>)}

(* One operation on two expressions.                                       *)
Binary(u, x, y) ==
  {Kind("static-call", k, <<x, y>>) : k \in {"generic", "strict", "test"}}
    \cup {Op(k, <<x, y>>) : k \in {"new", "invoke", "vector", "map", "do", "with-meta",
                                   "def", "recur", "instance-call"}}
    \cup {Op("invoke", <<Var, x, y>>), Op("invoke", <<Local("f"), x, y>>),
          Op("keyword-invoke", <<Const("keyword"), x>>),
          Let(<<u.a>>, <<x, y>>), Let(<<u.a>>, <<x, Op("vector", <<Local(u.a), y>>)>>)}

(* ... and on one.                                                         *)
Unary(u, x) ==
  {Op(k, <<x>>) : k \in {"throw", "def"}}
    \cup {Kind("instance?", k, <<x>>) : k \in {"certain", "possible"}}
    \cup {Op("host-interop", <<x>>), Op("vector", <<x>>),
          Fn(u, <<x, Local(u.n)>>), Fn(u, <<Op("vector", <<Local(u.n), Local(u.self), x>>)>>)}

Ternary(u, x, y, z) ==
  {Op("invoke", <<f, x, y>>) : f \in {z, Const("keyword"), Op("map", <<z, z>>)}}
    \cup
  {Op("if", <<x, y, z>>), Op("map", <<x, y, z, z>>),
   Let(<<u.a, u.b>>, <<x, y, Op("vector", <<Local(u.b), z, Local(u.a)>>)>>),
   Let(<<u.a, u.b>>, <<x, y, Op("static-call", <<z, Local(u.b)>>)>>)}

Pairs == {<<Local("p"), Local("p")>>, <<Local("p"), Local("q")>>, <<Local("p"), Local("c")>>,
          <<Const("string"), Local("p")>>, <<Local("q"), Const("string")>>,
          <<Local("c"), Local("c")>>, <<Const("number"), Const("number")>>}

Simple == UNION {Binary(Inner, x[1], x[2]) : x \in Pairs}
            \cup UNION {Unary(Inner, x) : x \in Leaves}
            \cup UNION {Ternary(Inner, x, y, Local("p")) : x, y \in {Local("p"), Local("q")}}
            \cup {Op("if", <<Local("p"), Const(x[1]), Const(x[2])>>) :
                    x \in {<<"string", "nil">>, <<"true", "false">>, <<"vector", "map">>}}

Bodies ==
  LET p == Local("p")
      q == Local("q")
  IN  UNION {Unary(Outer, x) : x \in Simple \cup Atoms}
        \cup UNION {Binary(Outer, x, p) \cup Binary(Outer, p, x) \cup Binary(Outer, q, x) : x \in Simple}
        \cup UNION {Ternary(Outer, x, p, q) \cup Ternary(Outer, p, q, x) : x \in Simple}
        \cup UNION {Binary(Outer, x, y) \cup Binary(Outer, y, x) :
                    x \in Atoms, y \in Leaves \cup {Const("number"), Var}}
        \cup UNION {Ternary(Outer, x, p, q) : x \in Atoms}

Params == <<"p", "q">>

Function(body) ==
  [form |-> "method", params |-> Params, captures |-> SetToSeq(Fresh(body) \ Range(Params)),
   self |-> "f", types |-> <<>>, body |-> body]

TopLevel(body) ==
  [form |-> "top level", params |-> <<>>, captures |-> <<>>, self |-> "none", types |-> <<>>,
   body |-> body]

Bridge(of, types) ==
  [form |-> "bridge", params |-> Params, captures |-> <<>>, self |-> "none", types |-> types,
   body |-> Kind("instance-call", of, <<>>)]

(***************************************************************************)
(* What the pass and the generator are known to get wrong is left out; the *)
(* README lists it.                                                        *)
(***************************************************************************)
Pure(e) == Fresh(e) = {} /\ ~canThrow(e)

RECURSIVE RecursInTail(_, _)

(* The analyzer accepts recur in tail position only.                       *)
RecursInTail(e, tail) ==
  /\ e.op = "recur" => tail
  /\ \A i \in DOMAIN e.kids :
       LET last == i = Len(e.kids)
       IN  RecursInTail(e.kids[i], \/ e.op = "fn"
                                  \/ (tail /\ e.op = "if" /\ i > 1)
                                  \/ (tail /\ e.op \in {"let", "do"} /\ last))

NoTypes == [x \in Names |-> "any"]

NilLookup(e) ==
  /\ e.op \in {"invoke", "keyword-invoke"} /\ e.kids[1] = Const("keyword")
  /\ isDetermined(getType(NoTypes, e.kids[2])) /\ getType(NoTypes, e.kids[2]) # "map"

RECURSIVE Regular(_)

Regular(e) ==
  /\ \A kid \in Range(e.kids) : Regular(kid)
  \* The default method keeps what the child consumes on the unwind list.
  /\ e.op \in {"throw", "instance?", "host-interop"} =>
       UNION {Fresh(kid) : kid \in Range(e.kids)} \subseteq {"c", "f"}
  \* The pass and the generator disagree on the order of the metadata.
  /\ e.op \in {"with-meta", "def"} /\ Len(e.kids) = 2 =>
       Pure(e.kids[1]) \/ Pure(e.kids[2])
  \* The reference to the var of a def is not protected.
  /\ e.op = "def" => ~canThrow(e)
  \* A constant and an unknown type keep the constant.
  /\ e.op = "if" => getType(NoTypes, e.kids[1]) \notin {"any or true", "any or false"}
  \* The lookup of a keyword in what is no map is nil, and tested as true.
  /\ e.op = "if" => ~NilLookup(e.kids[1])
  \* A name that is not used, before another binding, is never dropped.
  /\ e.op = "let" => \A i \in 1 .. Len(e.names) - 1 : e.names[i] \in Remainder(e, i)

Closed == {e \in Bodies \cup Simple \cup Atoms : Fresh(e) = {}}

(* A bridge without an overload for all types leaks its arguments.         *)
Bridges == {Bridge("strict", <<"object", "string">>), Bridge("generic", <<"object", "any">>)}

MCFunctions == {Function(e) : e \in {x \in Bodies : Regular(x) /\ RecursInTail(x, TRUE)}}
                 \cup {TopLevel(e) : e \in {x \in Closed : Regular(x) /\ RecursInTail(x, FALSE)}}
                 \cup Bridges
=============================================================================
