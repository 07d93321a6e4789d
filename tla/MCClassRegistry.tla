-------------------------- MODULE MCClassRegistry --------------------------
(* Files with a protocol that extends another one, a class with a declared
   type that implements it, well or badly, and a second class that may
   inherit from either; extensions that add overloads, protocols, static
   fields and Vars. *)
EXTENDS ClassRegistry

NoClass == [name |-> None, alias |-> None, type |-> 0, extends |-> <<>>, single |-> FALSE,
            implements |-> NoEntries, fields |-> <<>>, statics |-> NoEntries,
            methods |-> NoEntries, constructors |-> <<>>]

(* Signatures. *)
Vec(args) == [form |-> "vector", kind |-> "call", ctx |-> FALSE, symbol |-> None,
              fn |-> Null, arities |-> <<>>, args |-> args, returns |-> None]
Call(symbol, args, returns) ==
  [Vec(args) EXCEPT !.form = "map", !.symbol = symbol, !.returns = returns]
Function(arities) ==
  [Call(None, <<"this">>, None) EXCEPT !.kind = "clojure-function", !.fn = Fn, !.arities = arities]

One(key, value) == [k \in {key} |-> value]
Two(k1, v1, k2, v2) == [k \in {k1, k2} |-> IF k = k1 THEN v1 ELSE v2]

Counted == [NoClass EXCEPT !.name = "Counted", !.methods = One("count", <<Vec(<<"this">>)>>)]
Indexed ==
  [NoClass EXCEPT !.name = "Indexed", !.extends = <<"Counted">>, !.single = TRUE,
                  !.methods = One("nth", <<Vec(<<"this", "any">>), Vec(<<"this", "any", "any">>)>>)]

MCProtocolFiles ==
  {<<Indexed, Counted>>, <<Counted>>, <<Indexed>>,
   <<Counted, [Indexed EXCEPT !.extends = <<"Counted", "Missing">>, !.single = FALSE]>>,
   <<[Counted EXCEPT !.methods = One("count", <<Vec(<<"any", "this">>)>>)]>>}

(* Implementations of the methods. *)
Call1 == <<Call("c1", <<"this">>, "Long")>>
Nth2and3 == <<Call("n2", <<"this", "Long">>, None), Call("n3", <<"this", "any", "any">>, None)>>
Nth2any3 == <<Call("n2", <<"this", "any">>, None), Call("n3", <<"this", "any", "any">>, None)>>

Counts == {Call1, <<Function(<<1>>)>>, <<>>}
Nths == {Nth2and3, Nth2any3, <<Function(<<2, 3>>)>>, <<Call("n2", <<"this", "any">>, None)>>,
         <<Call("n2", <<"this", "Unknown">>, None)>>}

Long == [NoClass EXCEPT !.name = "Long", !.type = integerType, !.constructors = <<Call("l", <<>>, "Long")>>]
Context == [NoClass EXCEPT !.name = "Context", !.type = executionContextType]
Object == [NoClass EXCEPT !.name = "Object", !.type = objectRootType, !.alias = "object",
                          !.methods = One("hash", <<Call("h", <<"this">>, "Long")>>)]

Fields == <<[name |-> "EMPTY", value |-> Item]>>
Own == Two("peek", <<Call("p", <<"this">>, None)>>,
           "get", <<Call("gl", <<"this", "Long">>, "Long"), Call("ga", <<"this", "any">>, None)>>)

Blocks == {b \in Counts \X Nths : b[1] = Call1 \/ b[2] = Nth2and3}

Vector ==
  {[NoClass EXCEPT !.name = "Vector", !.type = 4, !.extends = <<"Object">>, !.single = TRUE,
                   !.fields = Fields, !.methods = own,
                   !.implements = One("Indexed", Two("count", block[1], "nth", block[2]))] :
   own \in {Own, One("count", <<Call("oc", <<"this">>, None)>>),
            One("run", <<[Call("r", <<"Context", "this">>, None) EXCEPT !.ctx = TRUE]>>)},
   block \in Blocks}

Second(parents, ctor) ==
  [NoClass EXCEPT !.name = "Second", !.extends = parents, !.single = Len(parents) = 1,
                  !.constructors = ctor, !.fields = Fields]

Seconds ==
  {Second(<<"Vector">>, <<Call("new", <<"any">>, "Second")>>), Second(<<"Vector", "Counted">>, <<>>),
   Second(<<"Long", "Missing">>, <<>>), Second(<<"Vector">>, <<Call("new", <<>>, "Vector")>>)}

MCClassFiles ==
  {<<Long, Context, Object, v, s>> : v \in Vector, s \in Seconds}
  \cup {<<Long, [Long EXCEPT !.name = "Int"]>>}

Extension(name, fields, methods, implements) ==
  <<Long, [NoClass EXCEPT !.name = name, !.type = 4, !.fields = fields, !.methods = methods,
                          !.implements = implements]>>

MoreFields == <<[name |-> "MAX", value |-> -2], [name |-> "EMPTY", value |-> -1]>>

MCExtensionFiles ==
  {Extension("Vector", f, ms, im) :
   f \in {<<>>, MoreFields},
   ms \in {NoEntries, One("get", <<Call("new", <<"this", "Long">>, None)>>), One("get", <<Function(<<2>>)>>),
           One("get", <<Call(None, <<"this">>, None)>>)},
   im \in {NoEntries, One("Counted", One("count", <<Function(<<1>>)>>))}}
  \cup {Extension("Nobody", MoreFields, NoEntries, NoEntries)}

MCProbes ==
  {<<Determined(4)>>, <<Determined(4), Determined(integerType)>>,
   <<Determined(4), Determined(stringType)>>, <<Determined(4), dynamicType>>}
=============================================================================
