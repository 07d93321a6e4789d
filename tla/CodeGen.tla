------------------------------ MODULE CodeGen -------------------------------
(***************************************************************************)
(* The code generator (backend/codegen): from an annotated program to      *)
(* code, with the landing pads that release what is alive when a call      *)
(* throws.  A value of the compiler is a register with the type it knows;  *)
(* register 0 is any value that needs no reference count.                  *)
(***************************************************************************)
EXTENDS OwnershipPass

Scalars == {"number", "true", "false", "bool", "nil", "keyword"}

(* CleanupChainGuard::needsProtection                                      *)
needsProtection(v) == v.t \notin Scalars

Value(r, t) == [r |-> r, t |-> t]
Plain(t) == Value(0, t)

(* Objects that exist before the code runs: a string constant of the       *)
(* module, a var and the value of its root.                                *)
TheString == 1
TheVar == 2
TheRoot == 3

(***************************************************************************)
(* The state of the generator: the next register, the bindings, the code   *)
(* so far, and MemoryManagement: the protected values, the releasing       *)
(* blocks that exist for the first of them, the landing pads that can be   *)
(* shared, and the guidance for unwinding of the current node.  A program  *)
(* that the generator refuses is rejected; one with a branch that was left *)
(* out although its test may select it is misjudged.                       *)
(***************************************************************************)
NoValue == Plain("none")

initFunction(env, next) ==
  [next |-> next, env |-> env, code |-> <<>>, active |-> <<>>, links |-> <<>>,
   resourcesWithCleanup |-> 0, lpadCache |-> <<>>, guidance |-> NoChange, rejected |-> FALSE,
   misjudged |-> FALSE]

Emit(s, instruction) == [s EXCEPT !.code = Append(@, instruction)]

Count(r, by) == [do |-> "count", r |-> r, by |-> by]

dynamicRetain(s, v) == IF needsProtection(v) THEN Emit(s, Count(v.r, 1)) ELSE s
dynamicRelease(s, v) == IF needsProtection(v) THEN Emit(s, Count(v.r, -1)) ELSE s

(* The changes of guidance to the variables that are bound here.           *)
Guided(s, guidance) ==
  LET bound == {x \in Names : guidance[x] # 0 /\ needsProtection(s.env[x])
                                /\ s.env[x] # NoValue}
      changes == SetToSeq(bound)
  IN  [i \in DOMAIN changes |-> Count(s.env[changes[i]].r, guidance[changes[i]])]

dynamicMemoryGuidance(s, guidance) == [s EXCEPT !.code = @ \o Guided(s, guidance)]

\* Mutant: the landing pads of the previous node are kept.
setActiveUnwindGuidance_cached(s, guidance) == [s EXCEPT !.guidance = guidance]

setActiveUnwindGuidance(s, guidance) ==
  [s EXCEPT !.guidance = guidance, !.lpadCache = <<>>]

pushResource(s, r) == [s EXCEPT !.active = Append(@, r)]

popResource(s) ==
  LET processed == Len(s.active) = s.resourcesWithCleanup
  IN  [s EXCEPT !.active = Front(@),
                !.links = IF processed THEN Front(@) ELSE @,
                !.resourcesWithCleanup = IF processed THEN @ - 1 ELSE @]

RECURSIVE popAll(_, _)
popAll(s, n) == IF n = 0 THEN s ELSE popAll(popResource(s), n - 1)

(* CleanupChainGuard::push                                                 *)
Guard(s, v) == IF needsProtection(v) THEN pushResource(s, v.r) ELSE s
GuardSize(vs) == Len(SelectSeq(vs, needsProtection))

RECURSIVE FillLinks(_, _)

(* Each block releases one value and continues with the one before it.     *)
FillLinks(s, survivors) ==
  IF s.resourcesWithCleanup >= survivors THEN s
  ELSE LET r == s.active[s.resourcesWithCleanup + 1]
           before == IF s.links = <<>> THEN <<>> ELSE Last(s.links)
       IN  FillLinks([s EXCEPT !.links = Append(@, <<Count(r, -1)>> \o before),
                               !.resourcesWithCleanup = @ + 1], survivors)

Released(vs) == [i \in DOMAIN vs |-> Count(vs[i].r, -1)]

(* A new pad, in the cache unless it is for this call alone.               *)
PadMade(s, skip, extraCleanup, pad) ==
  [s |-> IF extraCleanup # <<>> THEN s
         ELSE [s EXCEPT !.lpadCache = [k \in DOMAIN s.lpadCache \cup {skip} |->
                                         IF k = skip THEN pad ELSE s.lpadCache[k]]],
   pad |-> pad]

(* The landing pad of a call that has taken the last skip protected        *)
(* values, as the changes it makes.                                        *)
getLandingPad(s, skip, extraCleanup) ==
  LET survivors == Max({0, Len(s.active) - skip})
      made(filled) ==
        PadMade(filled, skip, extraCleanup,
                Released(extraCleanup) \o Guided(s, s.guidance) \o
                  (IF survivors > 0 THEN filled.links[survivors] ELSE <<>>))
  IN  IF extraCleanup = <<>> /\ skip \in DOMAIN s.lpadCache
      THEN [s |-> s, pad |-> s.lpadCache[skip]]
      ELSE made(FillLinks(s, survivors))

(* InvokeManager::canThrow by name: what the compiler takes for safe.      *)
SafeFunctions == {"deref"}

hasLandingPad(s) == s.active # <<>> \/ s.guidance # NoChange

(* invokeRaw: skip counts the protected values that the callee takes, and  *)
(* extraCleanup is released on both paths.  The kind of a call says what   *)
(* it does to its arguments.                                               *)
invokeRaw(s, kind, args, type, skip, extraCleanup) ==
  LET padded == kind \notin SafeFunctions /\ (hasLandingPad(s) \/ extraCleanup # <<>>)
      to == IF type \in Scalars THEN 0 ELSE s.next
      call(p) == [do |-> "call", kind |-> kind, args |-> [i \in DOMAIN args |-> args[i].r],
                  to |-> to, pad |-> p.pad]
      called(p) == Emit([p.s EXCEPT !.next = @ + 1], call(p))
      done(g) == [s |-> [g EXCEPT !.code = @ \o Released(SelectSeq(extraCleanup, needsProtection))],
                  v |-> Value(to, type)]
  IN  done(called(IF padded THEN getLandingPad(s, skip, extraCleanup) ELSE [s |-> s, pad |-> <<>>]))

(***************************************************************************)
(* Types.  "any" is every type, "some" several types without nil and       *)
(* booleans; a boolean and a function may be known.                        *)
(***************************************************************************)
isDetermined(t) == t \notin {"any", "some", "any or true", "any or false"}

(* ObjectTypeSet::removeConst                                              *)
removeConst(t) ==
  CASE t = "function" -> "closure"
    [] t \in {"true", "false"} -> "bool"
    [] OTHER -> t

Union(a, b) ==
  LET types == {removeConst(a), removeConst(b)}
  IN  CASE Cardinality(types) = 1 -> removeConst(a)
        [] types \cap {"any", "bool", "nil"} = {} -> "some"
        [] OTHER -> "any"

(* ObjectTypeSet::expansion: all types on the right leave the constant on  *)
(* the left where it is.                                                   *)
expansion(a, b) ==
  CASE b = "any" /\ a = "true" -> "any or true"
    [] b = "any" /\ a = "false" -> "any or false"
    [] OTHER -> Union(a, b)

(* What the constant of a type decides.                                    *)
IsTrue(t) == t \in {"true", "any or true"}
IsFalse(t) == t \in {"false", "any or false", "nil"}
MayBeFalse(t) == t \notin {"some"} /\ (isDetermined(t) => t \in {"nil", "bool", "true", "false"})

RECURSIVE getType(_, _)

(* A number that needs more than 32 bits is a big integer, and a ratio is  *)
(* told by its text.                                                       *)
ConstType(n) ==
  CASE n.of = "long" -> "bigint"
    [] n.of = "seq" -> "list"
    [] OTHER -> n.of

\* Mutant: the else branch is forgotten.
IfType_then(env, n) == getType(env, n.kids[2])

IfType(env, n) ==
  LET test == getType(env, n.kids[1])
      then == getType(env, n.kids[2])
      else == getType(env, n.kids[3])
  IN  CASE ~MayBeFalse(test) \/ test = "true" -> then
        [] test \in {"nil", "false"} -> else
        [] OTHER -> expansion(then, else)

LetType(env, n) ==
  LET step(types, i) == [types EXCEPT ![n.names[i]] = getType(types, n.kids[i])]
  IN  getType(FoldLeft(step, env, [i \in DOMAIN n.names |-> i]), Last(n.kids))

(* A type that is known to be an instance (n of kind certain) stays one.   *)
IsInstanceType(env, n) ==
  IF n.of = "certain" /\ isDetermined(getType(env, n.kids[1])) THEN "true" ELSE "bool"

(* What an overload for types that are known returns; n of kind test is a  *)
(* predicate.                                                              *)
OverloadType(n) == IF n.of = "test" THEN "bool" ELSE "any"

StaticCallType(env, n) ==
  IF \A kid \in Range(n.kids) : isDetermined(getType(env, kid)) THEN OverloadType(n)
  ELSE "any"

StaticFieldType(n) == IF n.of = "object" THEN "any" ELSE n.of

(* The type of what a class constructs is the class.                       *)
NewType == "object"

(* CodeGen::getType: the type of an expression before there is code for    *)
(* it.  env has the types of the variables.                                *)
getType(env, n) ==
  CASE n.op = "const" -> ConstType(n)
    [] n.op = "local" -> env[n.names[1]]
    [] n.op \in {"quote", "do"} -> getType(env, Last(n.kids))
    [] n.op = "with-meta" -> getType(env, n.kids[2])
    [] n.op \in {"vector", "map"} -> n.op
    [] n.op = "fn" -> "closure"
    [] n.op = "static-call" -> StaticCallType(env, n)
    [] n.op = "static-field" -> StaticFieldType(n)
    [] n.op = "new" -> NewType
    [] n.op = "instance?" -> IsInstanceType(env, n)
    [] n.op \in {"the-var", "def"} -> "var"
    [] n.op = "throw" -> "nil"
    [] n.op = "let" -> LetType(env, n)
    [] n.op = "if" -> IfType(env, n)
    [] OTHER -> "any"

Types(s) == [x \in Names |-> s.env[x].t]

(* Two ways to go on, the first of them if register test is nil (of test 0 *)
(* nothing is known, and test -1 is always so); the result of each is      *)
(* moved to one register.                                                  *)
Joined(s, test, a, b, t) ==
  LET r == b.s.next
      move(v) == [do |-> "move", from |-> v.r, to |-> r]
      ways == <<Append(a.s.code, move(a.v)), Append(b.s.code, move(b.v))>>
  IN  [s |-> Emit([b.s EXCEPT !.next = @ + 1, !.code = s.code],
                  [do |-> "branch", test |-> test, ways |-> ways]),
       v |-> Value(IF t \in Scalars THEN 0 ELSE r, t)]

BranchOn(s, test, Then(_), Else(_)) ==
  LET join(a, b) == Joined(s, test, a, b, Union(a.v.t, b.v.t))
      second(a) == join(a, Else([a.s EXCEPT !.code = <<>>]))
  IN  second(Then([s EXCEPT !.code = <<>>]))

Branch(s, Then(_), Else(_)) == BranchOn(s, 0, Then, Else)

Done(s, v) == [s |-> s, v |-> v]

(* throwCodeGenerationException                                            *)
Reject(s) == Done([s EXCEPT !.rejected = TRUE], Plain("nil"))

RECURSIVE codegen(_, _)

(* The children in order; each value is protected while the next one is    *)
(* evaluated.                                                              *)
Guarded(s, nodes) ==
  LET add(acc, c) == [s |-> Guard(c.s, c.v), vs |-> Append(acc.vs, c.v)]
      step(acc, n) == add(acc, codegen(acc.s, n))
  IN  FoldLeft(step, [s |-> s, vs |-> <<>>], nodes)

Unguarded(s, nodes) ==
  LET add(acc, c) == [s |-> c.s, vs |-> Append(acc.vs, c.v)]
      step(acc, n) == add(acc, codegen(acc.s, n))
  IN  FoldLeft(step, [s |-> s, vs |-> <<>>], nodes)

(* The end of a node whose guard holds vs.                                 *)
Unguard(c, vs) == [c EXCEPT !.s = popAll(@, GuardSize(vs))]

RECURSIVE canThrow(_)

canThrow(n) ==
  CASE n.op \in {"const", "quote", "static-field", "the-var", "local", "fn"} -> FALSE
    [] n.op \in {"let", "vector", "map", "if", "do", "with-meta"} ->
         \E kid \in Range(n.kids) : canThrow(kid)
    [] n.op = "def" -> n.kids # <<>> /\ canThrow(Last(n.kids))
    [] OTHER -> TRUE

(***************************************************************************)
(* codegen/ops.  Each operator generates the code of one kind of node.     *)
(***************************************************************************)
(* With metadata: Symbol_withMeta and its like consume both.  A type       *)
(* without metadata is left alone.                                         *)
HasMeta == {"symbol", "vector", "map", "list", "var", "any", "some"}

WithMeta(s, expr, meta, vs) ==
  Unguard(IF expr.t \in HasMeta
          THEN invokeRaw(s, "hold", <<expr, meta>>, expr.t, GuardSize(vs), <<>>)
          ELSE Done(dynamicRelease(s, meta), expr), vs)

(* DynamicConstructor: PersistentVector_createMany and its like.           *)
createMany(s, vs, type, skip) == invokeRaw(s, "hold", vs, type, skip, <<>>)

(* Of a constant on the heap, which the module holds, the code makes one   *)
(* more reference each time it is run.                                     *)
OnHeap == {"string", "symbol", "class", "bigint", "ratio"}

Constant(s, t) ==
  LET v == Value(TheString, t)
  IN  CASE t \in OnHeap -> Done(dynamicRetain(s, v), v)
        [] t \in {"vector", "map"} -> createMany(s, <<>>, t, 0)
        [] t = "list" -> Reject(s)
        [] OTHER -> Done(s, Plain(t))

ConstNode(s, n) ==
  LET meta(c) == codegen(Guard(c.s, c.v), n.kids[1])
      both(c, m) == WithMeta(Guard(m.s, m.v), c.v, m.v, <<c.v, m.v>>)
      made(c) == IF n.kids = <<>> THEN c ELSE both(c, meta(c))
  IN  made(Constant(s, ConstType(n)))

LocalNode(s, n) == Done(s, s.env[n.names[1]])

(* A collection of constants and variables needs no guard.                 *)
CollectionNode(s, n, type) ==
  LET make(k) == Unguard(createMany(k.s, k.vs, type, GuardSize(k.vs)), k.vs)
      makeUnguarded(k) == createMany(k.s, k.vs, type, 0)
  IN  IF canThrow(n) THEN make(Guarded(s, n.kids)) ELSE makeUnguarded(Unguarded(s, n.kids))

(* generateIntrinsic of an overload that is a function of the runtime.     *)
generateIntrinsic(s, vs, type) == invokeRaw(s, "new", vs, type, GuardSize(vs), <<>>)

(* throwNoMatchingOverloadException_C, throwNoMatchingConstructorException_C *)
noMatch(s) == invokeRaw(s, "throw", <<>>, "nil", 0, <<>>)

(* The overload for the known types, or tests of the types at run time; a  *)
(* method of kind generic has an overload for all types.                   *)
Dispatched(s, of, vs, type) ==
  LET call(g) == generateIntrinsic(g, vs, type)
      boxed(g) == generateIntrinsic(g, vs, "any")
      known == \A v \in Range(vs) : isDetermined(v.t)
  IN  CASE known -> call(s)
        [] ~known /\ of = "generic" -> Branch(s, boxed, boxed)
        [] OTHER -> Branch(s, boxed, noMatch)

StaticCallNode(s, n) ==
  LET make(k) == Unguard(Dispatched(k.s, n.of, k.vs, OverloadType(n)), k.vs)
  IN  make(Guarded(s, n.kids))

(* The constructors in turn.  The result goes by the type of the class,    *)
(* boxed as it is after tests at run time.                                 *)
NewDispatch(s, vs) == [Dispatched(s, "strict", vs, "any") EXCEPT !.v.t = NewType]

NewNode(s, n) ==
  LET make(k) == Unguard(NewDispatch(k.s, k.vs), k.vs)
  IN  make(Guarded(s, n.kids))

(* generateICLookup: a miss asks RT_updateICSlot, which borrows the        *)
(* callee.                                                                 *)
generateICLookup(s, fn) ==
  LET hit(g) == Done(g, Plain("nil"))
      miss(g) == invokeRaw(g, "lookup", <<fn>>, "nil", 0, <<>>)
  IN  Branch(s, hit, miss)

(* The call of a method: vs are the protected values, all of which are the *)
(* callee's or in extraCleanup.                                            *)
MethodCall(s, args, vs, extraCleanup) ==
  invokeRaw(s, "new", args, "any", GuardSize(vs), extraCleanup)

(* A variadic method gets a list of its arguments, which takes them over   *)
(* while they are still protected (RT_packVariadic).                       *)
Packed(s, args, vs, extraCleanup) ==
  LET call(list) == MethodCall(list.s, <<list.v>>, vs, extraCleanup)
  IN  call(invokeRaw(s, "hold", args, "list", 0, <<>>))

generateRawMethodCall(s, args, vs, extraCleanup) ==
  LET plain(g) == MethodCall(g, args, vs, extraCleanup)
      packed(g) == Packed(g, args, vs, extraCleanup)
  IN  IF args = <<>> THEN plain(s) ELSE Branch(s, plain, packed)

(* A function that is known needs no lookup.  Its method is chosen at      *)
(* compile time; arities are left out here.                                *)
generateStaticInvoke(s, fn, args, vs) == generateRawMethodCall(s, args, vs, <<fn>>)

generateVarInvoke(s, args) ==
  LET call(found) == generateRawMethodCall(found.s, args, args, <<>>)
      find(peek) == call(generateICLookup(peek.s, peek.v))
  IN  find(invokeRaw(s, "peek", <<Value(TheVar, "var")>>, "any", 0, <<>>))

generateDynamicInvoke(s, fn, args, vs) ==
  generateRawMethodCall(generateICLookup(s, fn).s, args, vs, <<fn>>)

(* With a default, a result of nil is replaced by it.                      *)
generateStaticMapInvoke(s, map, args, vs) ==
  LET default(g) == Done(g, args[2])
      orDefault(get) ==
        LET found(g) == Done(dynamicRelease(g, args[2]), get.v)
        IN  IF Len(args) = 1 THEN get ELSE BranchOn(get.s, get.v.r, default, found)
  IN  IF Len(args) \notin {1, 2} THEN Reject(s)
      ELSE orDefault(invokeRaw(s, "get", <<map, args[1]>>, "any", GuardSize(vs), <<>>))

generateStaticVectorInvoke(s, vector, args, vs) ==
  IF Len(args) = 1 THEN invokeRaw(s, "new", <<vector, args[1]>>, "any", GuardSize(vs), <<>>)
  ELSE Reject(s)

(* What is known not to be a map has no keys.                              *)
generateStaticKeywordInvoke(s, keyword, args, vs) ==
  CASE Len(args) \notin {1, 2} -> Reject(s)
    [] args[1].t = "map" ->
         generateStaticMapInvoke(s, args[1], <<keyword>> \o Tail(args), vs)
    [] isDetermined(args[1].t) /\ args[1].t # "map" /\ Len(args) = 1 ->
         Done(dynamicRelease(s, args[1]), Plain("nil"))
    [] isDetermined(args[1].t) /\ args[1].t # "map" /\ Len(args) = 2 ->
         Done(dynamicRelease(s, args[1]), args[2])
    [] OTHER -> invokeRaw(s, "new", <<keyword>> \o args, "any", GuardSize(vs), <<>>)

CallOfVar(k) == Unguard(generateVarInvoke(k.s, k.vs), k.vs)

CallOfValue(k, fn, args) ==
  Unguard(CASE fn.t = "keyword" -> generateStaticKeywordInvoke(k.s, fn, args, k.vs)
            [] fn.t = "map" -> generateStaticMapInvoke(k.s, fn, args, k.vs)
            [] fn.t = "vector" -> generateStaticVectorInvoke(k.s, fn, args, k.vs)
            [] fn.t = "function" -> generateStaticInvoke(k.s, fn, args, k.vs)
            [] ~isDetermined(fn.t) \/ fn.t = "closure" -> generateDynamicInvoke(k.s, fn, args, k.vs)
            [] OTHER -> Reject(k.s), k.vs)

InvokeNode(s, n) ==
  LET call(k) == CallOfValue(k, k.vs[1], Tail(k.vs))
  IN  IF n.kids[1].op = "var" THEN CallOfVar(Guarded(s, Tail(n.kids)))
      ELSE call(Guarded(s, n.kids))

KeywordInvokeNode(s, n) ==
  LET make(k) == Unguard([generateStaticKeywordInvoke(k.s, k.vs[1], Tail(k.vs), k.vs)
                            EXCEPT !.s = dynamicRelease(@, k.vs[1])], k.vs)
  IN  make(Guarded(s, n.kids))

IsInstanceNode(s, n) ==
  LET make(k) ==
        Unguard(IF IsInstanceType(Types(k.s), n) = "true"
                THEN Done(dynamicRelease(k.s, k.vs[1]), Plain("true"))
                ELSE invokeRaw(k.s, "consume", k.vs, "bool", GuardSize(k.vs), <<>>), k.vs)
  IN  make(Guarded(s, n.kids))

(* The slow path takes nothing, the bridge takes the instance and the      *)
(* arguments.                                                              *)
generateDynamicInstanceCall(s, vs) ==
  LET hit(g) == Done(g, Plain("nil"))
      miss(g) == invokeRaw(g, "slow path", <<>>, "nil", 0, <<>>)
  IN  Unguard(invokeRaw(Branch(s, hit, miss).s, "new", vs, "any", GuardSize(vs), <<>>), vs)

InstanceCallNode(s, n) ==
  LET make(k) == generateDynamicInstanceCall(k.s, k.vs) IN make(Guarded(s, n.kids))

(* Only a field that holds an object is read at run time.                  *)
StaticFieldNode(s, n) ==
  IF StaticFieldType(n) = "any" THEN invokeRaw(s, "field", <<>>, "any", 0, <<>>)
  ELSE Done(s, Plain(n.of))

TheVarValue == Value(TheVar, "var")

(* Var_deref consumes the reference that is made first.                    *)
VarNode(s, n) ==
  invokeRaw(dynamicRetain(s, TheVarValue), "deref", <<TheVarValue>>, "any", 0, <<>>)

TheVarNode(s, n) == Done(dynamicRetain(s, TheVarValue), TheVarValue)

(* The value is evaluated and bound first, and the metadata after it.      *)
DefNode(s, n) ==
  LET bind(init) == invokeRaw(dynamicRetain(init.s, TheVarValue), "bindRoot",
                              <<TheVarValue, init.v>>, "nil", 0, <<>>).s
      reset(g, vs) == Unguard(invokeRaw(g, "resetMeta", vs, "var", GuardSize(vs), <<>>), vs)
      resetMeta(meta) == reset(Guard(meta.s, meta.v), <<TheVarValue, meta.v>>)
      rest(g) == IF Len(n.kids) = 1 THEN Done(g, TheVarValue)
                 ELSE resetMeta(codegen(Guard(g, TheVarValue), n.kids[1]))
      given == dynamicRetain(s, TheVarValue)
  IN  IF n.kids = <<>> THEN Done(given, TheVarValue)
      ELSE rest(bind(codegen(given, Last(n.kids))))

(* The expression is evaluated before its metadata.                        *)
WithMetaNode(s, n) ==
  LET both(k) == WithMeta(k.s, k.vs[1], k.vs[2], k.vs)
  IN  both(Guarded(s, <<n.kids[2], n.kids[1]>>))

ThrowNode(s, n) ==
  LET throw(e) == Done(invokeRaw(e.s, "throw", <<e.v>>, "nil", 0, <<>>).s, Plain("nil"))
  IN  throw(codegen(s, n.kids[1]))

DoNode(s, n) ==
  LET dropped(c) == dynamicRelease(c.s, c.v)
      step(acc, stmt) == dropped(codegen(acc, stmt))
  IN  codegen(FoldLeft(step, s, Front(n.kids)), Last(n.kids))

(* The guidance of a binding node is not looked at.                        *)
LetNode(s, n) ==
  LET bind(c, x) == [c.s EXCEPT !.env[x] = c.v]
      step(acc, i) == bind(codegen(acc, n.kids[i]), n.names[i])
      bound == FoldLeft(step, s, [i \in DOMAIN n.names |-> i])
  IN  [codegen(bound, Last(n.kids)) EXCEPT !.s.env = s.env]

(* The type that was expected of the test may leave no doubt: then there   *)
(* is one branch.  Otherwise the value is tested, unless its type is known *)
(* by now.  The generator notes whether the value can disagree.            *)
Untested(s, test, truth) ==
  LET certain == IF truth THEN ~MayBeFalse(test.v.t) \/ IsTrue(test.v.t) ELSE IsFalse(test.v.t)
  IN  [s EXCEPT !.misjudged = @ \/ ~certain]

IfNode(s, n) ==
  LET type == getType(Types(s), n.kids[1])
      then(g) == codegen(g, n.kids[2])
      else(g) == codegen(g, n.kids[3])
      choose(tested, test) ==
        CASE ~MayBeFalse(type) \/ IsTrue(type) -> then(Untested(tested, test, TRUE))
          [] IsFalse(type) -> else(Untested(tested, test, FALSE))
          [] OTHER ->
               IF ~isDetermined(test.v.t) \/ removeConst(test.v.t) = "bool"
               THEN Branch(tested, then, else)
               ELSE BranchOn(Untested(tested, test, TRUE), -1, then, else)
      dropped(test) == choose(dynamicRelease(test.s, test.v), test)
  IN  dropped(codegen(s, n.kids[1]))

(* Function_create and Function_fillMethod: the methods hold the captured  *)
(* variables, which the guidance of the node has already retained.         *)
FnNode(s, n) ==
  LET captured(i) == SetToSeq(MethodFresh(n, n.kids[i]) \ {n.of})
      names == FlattenSeq([i \in DOMAIN n.kids |-> captured(i)])
  IN  invokeRaw(s, "hold", [i \in DOMAIN names |-> s.env[names[i]]], "function", 0, <<>>)

(* The next iteration takes the new arguments over.                        *)
RecurNode(s, n) ==
  LET left(k) == popAll(dynamicMemoryGuidance(k.s, n.unwind), GuardSize(k.vs))
      make(k) == Done(Emit(left(k), [do |-> "recur", args |-> [i \in DOMAIN k.vs |-> k.vs[i].r]]),
                      Value(0, "any"))
  IN  make(Guarded(s, n.kids))

Generate(s, n) ==
  CASE n.op = "const" -> ConstNode(s, n)
    [] n.op = "local" -> LocalNode(s, n)
    [] n.op = "quote" -> codegen(s, n.kids[1])
    [] n.op = "vector" -> CollectionNode(s, n, "vector")
    [] n.op = "map" -> CollectionNode(s, n, "map")
    [] n.op = "static-call" -> StaticCallNode(s, n)
    [] n.op = "new" -> NewNode(s, n)
    [] n.op = "invoke" -> InvokeNode(s, n)
    [] n.op = "keyword-invoke" -> KeywordInvokeNode(s, n)
    [] n.op = "instance?" -> IsInstanceNode(s, n)
    [] n.op \in {"instance-call", "host-interop"} -> InstanceCallNode(s, n)
    [] n.op = "static-field" -> StaticFieldNode(s, n)
    [] n.op = "var" -> VarNode(s, n)
    [] n.op = "the-var" -> TheVarNode(s, n)
    [] n.op = "def" -> DefNode(s, n)
    [] n.op = "with-meta" -> WithMetaNode(s, n)
    [] n.op = "throw" -> ThrowNode(s, n)
    [] n.op = "do" -> DoNode(s, n)
    [] n.op = "let" -> LetNode(s, n)
    [] n.op = "if" -> IfNode(s, n)
    [] n.op = "fn" -> FnNode(s, n)
    [] n.op = "recur" -> RecurNode(s, n)

(* CodeGen::codegen: the guidance for unwinding, then the changes of the   *)
(* counts, then the node.                                                  *)
codegen(s, n) ==
  LET guided == dynamicMemoryGuidance(setActiveUnwindGuidance(s, n.unwind), n.drop)
  IN  [Generate(guided, n) EXCEPT !.s = setActiveUnwindGuidance(@, s.guidance)]

(***************************************************************************)
(* generateBaselineMethod: a function with its parameters, captured        *)
(* variables and itself in the first registers.                            *)
(***************************************************************************)
FirstRegister == 4

Registers(f) ==
  [x \in Names |->
     LET at == SelectInSeq(f.params \o f.captures, LAMBDA y : y = x)
     IN  IF at = 0 THEN NoValue
         ELSE Value(FirstRegister + at - 1, IF x = f.self THEN "closure" ELSE "any")]

Returned(c, ok) == [s |-> Emit(c.s, [do |-> "return", r |-> c.v.r]), ok |-> ok]

generateBaselineMethod(f) ==
  LET s == initFunction(Registers(f), FirstRegister + Len(f.params) + Len(f.captures))
      generated(body) == Returned(codegen(s, body), body.ok)
  IN  generated(fnMethodPass(Range(f.params), f.body))

(* An expression that is evaluated once, at the top level.                 *)
codegenTopLevel(f) ==
  LET generated(body) == Returned(codegen(initFunction(Registers(f), FirstRegister), body), body.ok)
  IN  generated(Pass(f.body, {}, {}, {}))

(* The target of an inline cache: a call with the types of one call site,  *)
(* in which nothing is protected.                                          *)
generateDeterminedInstanceCall(s, of, vs) == Dispatched(s, of, vs, "any")

generateInstanceCallBridge(f) ==
  LET vs == [i \in DOMAIN f.types |-> Value(FirstRegister + i - 1, f.types[i])]
      s == initFunction(Registers(f), FirstRegister + Len(vs))
  IN  Returned(generateDeterminedInstanceCall(s, f.body.of, vs), TRUE)

Compile(f) ==
  CASE f.form = "method" -> generateBaselineMethod(f)
    [] f.form = "top level" -> codegenTopLevel(f)
    [] f.form = "bridge" -> generateInstanceCallBridge(f)
=============================================================================
