----------------------------- MODULE Arithmetic -----------------------------
(***************************************************************************)
(* Arithmetic and comparison in compiled code.  A call of clojure.lang.    *)
(* Numbers is compiled (codegen/ops/StaticCallNode.cpp) to one of the      *)
(* overloads of the class table, to tests of the types at run time, or to  *)
(* the general function; when the operands are constants the compiler also *)
(* computes the result itself (InvokeManager_Math.cpp and _Cmp.cpp).  A    *)
(* program with a few variables makes such calls, with more or less        *)
(* knowledge of its operands.                                              *)
(***************************************************************************)
EXTENDS ValueEncoding

CONSTANTS Vars,      \* variables of the program
          MaxOps,    \* calls it makes
          MaxNum,    \* largest numerator and denominator it computes with
          Defects    \* whether it also makes the calls of Mishandled

ASSUME ArithmeticAssumption ==
  MaxOps \in Nat /\ MaxNum \in Nat /\ Defects \in BOOLEAN

VARIABLES heap,
          val,       \* the value of each variable
          literal,   \* the variables that name a constant of the module
          constants, \* the objects of such constants, which the module owns
          want,      \* history: the exact value that each variable should have
          last,      \* history: the result of the last call, what it should
                     \* be, the type the compiler gave it and the constant it
                     \* computed
          ops        \* calls made, to bound the behaviours

vars == <<heap, val, literal, constants, want, last, ops>>

Ops == MathOps \cup CmpOps \cup {"equiv"}

(***************************************************************************)
(* The overloads of the class table, in its order, "any" being the last.   *)
(***************************************************************************)
Overloads(op) ==
  CASE op \in {"add", "sub", "mul"} ->
         << <<"D","D">>, <<"I","I">>, <<"I","D">>, <<"D","I">>, <<"I","B">>,
            <<"B","I">>, <<"B","D">>, <<"D","B">>, <<"R","D">>, <<"D","R">>,
            <<"B","R">>, <<"R","B">>, <<"I","R">>, <<"R","I">>, <<"B","B">>,
            <<"R","R">>, <<"any","any">> >>
    [] op = "equiv" ->
         << <<"I","I">>, <<"D","D">>, <<"B","D">>, <<"B","I">>, <<"I","B">>,
            <<"D","B">>, <<"R","D">>, <<"D","R">>, <<"I","D">>, <<"D","I">>,
            <<"any","any">> >>
    [] OTHER ->
         << <<"D","D">>, <<"I","I">>, <<"I","D">>, <<"D","I">>, <<"B","D">>,
            <<"D","B">>, <<"R","D">>, <<"D","R">>, <<"B","R">>, <<"R","B">>,
            <<"I","R">>, <<"R","I">>, <<"B","B">>, <<"R","R">>, <<"any","any">> >>

Generic == <<"any", "any">>

(* Overloads of :type :call pass the guard of the operands on; intrinsics  *)
(* do not.                                                                 *)
IsIntrinsic(op, sig) ==
  /\ sig # Generic
  /\ ~(sig \in {<<"B","B">>, <<"R","R">>})
  /\ ~(op = "div" /\ sig = <<"I","I">>)
  /\ ~(op = "equiv" /\ sig \in {<<"B","I">>, <<"I","B">>})

(* The type the table gives the result.                                    *)
ReturnType(op, sig) ==
  CASE op \notin MathOps -> "Z"
    [] op \in MathOps /\ "D" \in Range(sig) -> "D"
    [] op \in {"add", "sub", "mul"} /\ sig = <<"I","I">> -> "I"
    [] op \in {"add", "sub", "mul"} /\ Range(sig) \in {{"B"}, {"I", "B"}} -> "B"
    [] OTHER -> "any"

(***************************************************************************)
(* generateIntrinsic and the runtime functions it calls, for operands of   *)
(* the types of sig.                                                       *)
(***************************************************************************)
ToD(h, v) == Numbers_toDouble(h, v)

GenericCall(h, op, x, y) ==
  CASE op \in MathOps -> Numbers_op(h, op, x, y)
    [] op \in CmpOps -> Numbers_cmp(h, op, x, y)
    [] op = "equiv" -> equals_managed(h, x, y)

(* BigInteger_equalsInt, BigInteger_intEquals                              *)
IntEquals(h, x, y) == Give(DropBoth(h, x, y), Box(ValueOf(h, x) = ValueOf(h, y)))

(* Operations of two machine numbers; makeID, makeBD, makeRD ...: each     *)
(* operand to a double first.                                              *)
DoubleMath(h, op, x, y) ==
  LET then(g, a, b) == Double_op(g, op, a, b) IN Converted(h, x, y, ToD, then)

DoubleCmp(h, op, x, y) ==
  LET then(g, a, b) == Double_cmp(g, op, a, b) IN Converted(h, x, y, ToD, then)

(* makeRB, makeRI ...: each operand to a ratio first.                      *)
RatioMath(h, op, x, y) ==
  LET then(g, a, b) == Ratio_op(g, op, a, b) IN Converted(h, x, y, toRatio, then)

RatioCmp(h, op, x, y) ==
  LET then(g, a, b) == Object_cmp(g, op, a, b) IN Converted(h, x, y, toRatio, then)

(* regZCodegen, makeIB and makeBI                                          *)
BigIntegerMath(h, op, x, y) ==
  LET then(g, a, b) == BigInteger_op(g, op, a, b) IN Converted(h, x, y, toBigInt, then)

(* Only big integers: there are no mixed comparisons with an integer.      *)
BigIntegerCmp(h, op, x, y) == Object_cmp(h, op, x, y)

IntegerMath(h, op, x, y) ==
  IF op = "div" THEN Integer_div(h, x.q[1], y.q[1])
  ELSE Integer_op(h, op, x.q[1], y.q[1])

IntegerCmp(h, op, x, y) == Give(h, Box(Compare(op, x.q, y.q)))

SpecialisedCall(h, op, sig, x, y) ==
  LET types == Range(sig)
      math == op \in MathOps
  IN  CASE sig = Generic -> GenericCall(h, op, x, y)
        [] op = "mul" /\ sig = <<"D","B">> -> Give(h, Exception)   \* does not compile
        [] "D" \in types /\ math /\ ~(op = "mul" /\ sig = <<"D","B">>) ->
             DoubleMath(h, op, x, y)
        [] "D" \in types /\ ~math -> DoubleCmp(h, op, x, y)
        [] types = {"I"} /\ math -> IntegerMath(h, op, x, y)
        [] types = {"I"} /\ ~math -> IntegerCmp(h, op, x, y)
        [] "D" \notin types /\ "R" \in types /\ math -> RatioMath(h, op, x, y)
        [] "D" \notin types /\ "R" \in types /\ ~math -> RatioCmp(h, op, x, y)
        [] types = {"I", "B"} /\ op = "equiv" -> IntEquals(h, x, y)
        [] types \in {{"B"}, {"I", "B"}} /\ math -> BigIntegerMath(h, op, x, y)
        [] types = {"B"} /\ ~math -> BigIntegerCmp(h, op, x, y)

(* An exception in an intrinsic goes to a landing pad that skips nothing:  *)
(* the operands that the callee has released are released again.           *)
Unwound(op, sig, x, y, call) ==
  IF call.r = Exception /\ IsIntrinsic(op, sig)
  THEN Give(DropBoth(call.h, x, y), Exception)
  ELSE call

generateIntrinsic(h, op, sig, x, y) ==
  Unwound(op, sig, x, y, SpecialisedCall(h, op, sig, x, y))

(***************************************************************************)
(* What the compiler knows of an operand: its constant, its type, or       *)
(* nothing.  restriction(...).isEmpty() tells which overloads are possible.*)
(***************************************************************************)
Known(k, h, v) == IF k = "any" THEN "any" ELSE TypeOf(h, v)
Possible(known, t) == known = "any" \/ t = "any" \/ known = t

Possibles(op, tx, ty) ==
  {i \in DOMAIN Overloads(op) : /\ Possible(tx, Overloads(op)[i][1])
                                /\ Possible(ty, Overloads(op)[i][2])}
First(op, indices) == Overloads(op)[Min(indices)]

(* A value whose type is known is in a register of its own kind, any other *)
(* is packed into a word.                                                  *)
Unpacked(h, v) == TypedValue(Determined(TypeNumber[TypeOf(h, v)]), v)
Argument(k, h, v) ==
  IF k = "any" THEN TypedValue(dynamicType, box(Unpacked(h, v)).value) ELSE Unpacked(h, v)

(* The runtime reads a word by the type that it finds in it.               *)
Read(h, w) == unbox(TypedValue(boxed(Determined(getType(h, w))), w)).value

(* The test of an argument at run time, before a specialised overload.     *)
Matches(h, t, arg) == t = "any" \/ getType(h, box(arg).value) = TypeNumber[t]

(* The argument as an overload takes it: unpacked for the type it has been *)
(* tested for, or packed.                                                  *)
Passes(h, t, arg) ==
  CASE t = "any" -> Read(h, box(arg).value)
    [] t # "any" /\ arg.type.boxed ->
         unbox(TypedValue(boxed(Determined(TypeNumber[t])), arg.value)).value
    [] t # "any" /\ ~arg.type.boxed -> unbox(arg).value

(* The branches of a dispatch meet in a word.                              *)
Merged(call) ==
  IF call.r = Exception THEN call
  ELSE Give(call.h, Read(call.h, box(Unpacked(call.h, call.r)).value))

(* CodeGen::codegen of a static call: with both types known the first      *)
(* overload that fits; otherwise at most two specialised ones behind a     *)
(* test of the types at run time, and the general function.                *)
Tested(possible) ==
  {i \in possible : Cardinality({j \in possible : j <= i}) <=
                      IF Cardinality(possible) > 3 THEN 2 ELSE Cardinality(possible) - 1}

StaticCall(h, op, x, y, kx, ky) ==
  LET possible == Possibles(op, Known(kx, h, x), Known(ky, h, y))
      ax == Argument(kx, h, x)
      ay == Argument(ky, h, y)
      hits == {i \in Tested(possible) : /\ Matches(h, Overloads(op)[i][1], ax)
                                        /\ Matches(h, Overloads(op)[i][2], ay)}
      call(sig) == generateIntrinsic(h, op, sig, Passes(h, sig[1], ax), Passes(h, sig[2], ay))
  IN  IF "any" \notin {kx, ky}
      THEN [call |-> call(First(op, possible)), type |-> ReturnType(op, First(op, possible))]
      ELSE [call |-> Merged(call(IF hits = {} THEN Generic ELSE First(op, hits))),
            type |-> "any"]

(***************************************************************************)
(* Constant folding (getType of a static call, foldIntrinsic): a constant  *)
(* is a type and a number, and NoConst the absence of one.                 *)
(***************************************************************************)
NoConst == Immediate("none", Zero)
Constant(k, h, v) ==
  IF k = "const" THEN Immediate(TypeOf(h, v), ValueOf(h, v)) ELSE NoConst

getZ(c) == IF c.t \in {"I", "B"} THEN c.q ELSE NaN
getQ(c) == IF c.t \in {"I", "B", "R"} THEN c.q ELSE NaN

(* getD: what is not a constant counts as zero.                            *)
getD(c) ==
  CASE c.t \in {"I", "D"} -> c.q
    [] c.t \in {"B", "R"} -> Truncated(c.q)
    [] OTHER -> Zero

(* A whole number that fits a C long becomes a ConstantInteger, which has  *)
(* the width of an integer.                                                *)
createZ(n) ==
  IF FitsLong(n) THEN Immediate("I", <<Wrap(n), 1>>) ELSE Immediate("B", <<n, 1>>)
createQ(q) == IF q[2] = 1 THEN createZ(q[1]) ELSE Immediate("R", q)

\* Mutant: an operand that is not a constant is folded as zero.
FoldDouble_unchecked(op, c, d) == Immediate("D", Float(op, getD(c), getD(d)))

(* FAdd ... and FCmpOGE ...                                                *)
FoldDouble(op, c, d) ==
  IF NoConst \in {c, d} \/ (op = "div" /\ d.q = Zero) THEN NoConst
  ELSE Immediate("D", Float(op, c.q, d.q))

FoldDoubleCmp(op, c, d) ==
  IF NoConst \in {c, d} THEN NoConst ELSE Box(Compare(op, c.q, d.q))

(* regMixD, regMixedDCmp                                                   *)
FoldMixedD(op, c, d) == Immediate("D", Float(op, getD(c), getD(d)))
FoldMixedDCmp(op, c, d) == Box(Compare(op, getD(c), getD(d)))

(* Add, Sub and Mul of integers, ICmpSGE ...                               *)
FoldInteger(op, c, d) ==
  IF NoConst \in {c, d} THEN NoConst
  ELSE Immediate("I", <<Wrap(Exact(op, c.q, d.q)[1]), 1>>)

FoldIntegerCmp(op, c, d) ==
  IF NoConst \in {c, d} THEN NoConst ELSE Box(Compare(op, c.q, d.q))

(* regZMath and regQMath; the folder of BigInteger_div is also that of     *)
(* Integer_div and Ratio_div and of their mixed forms.                     *)
FoldQ(op, p, q) ==
  IF NaN \in {p, q} \/ (op = "div" /\ q = Zero) THEN NoConst
  ELSE createQ(Exact(op, p, q))

(* regMixZ, regMixQ                                                        *)
FoldMixZ(op, c, d) ==
  IF op = "div" THEN FoldQ(op, getQ(c), getQ(d)) ELSE FoldQ(op, getZ(c), getZ(d))

FoldMixQ(op, c, d) == FoldQ(op, getQ(c), getQ(d))

(* regZCmp, regQCmp and regMixedQCmp                                       *)
FoldQCmp(op, c, d) ==
  IF NaN \in {getQ(c), getQ(d)} THEN NoConst ELSE Box(Compare(op, getQ(c), getQ(d)))

foldIntrinsic(op, sig, c, d) ==
  LET types == Range(sig)
      math == op \in MathOps
  IN  CASE sig = Generic \/ (op = "equiv" /\ types = {"I", "B"}) -> NoConst
        [] types = {"D"} /\ math -> FoldDouble(op, c, d)
        [] types = {"D"} /\ ~math -> FoldDoubleCmp(op, c, d)
        [] "D" \in types /\ types # {"D"} /\ math -> FoldMixedD(op, c, d)
        [] "D" \in types /\ types # {"D"} /\ ~math -> FoldMixedDCmp(op, c, d)
        [] types = {"I"} /\ math /\ op # "div" -> FoldInteger(op, c, d)
        [] types = {"I"} /\ ~math -> FoldIntegerCmp(op, c, d)
        [] math /\ (types \in {{"B"}, {"I", "B"}} \/ (types = {"I"} /\ op = "div")) ->
             FoldMixZ(op, c, d)
        [] math /\ "R" \in types /\ "D" \notin types -> FoldMixQ(op, c, d)
        [] OTHER -> FoldQCmp(op, c, d)

(* CodeGen::getType of a static call                                       *)
Folded(h, op, x, y, kx, ky) ==
  IF "any" \in {kx, ky} THEN NoConst
  ELSE foldIntrinsic(op, First(op, Possibles(op, TypeOf(h, x), TypeOf(h, y))),
                     Constant(kx, h, x), Constant(ky, h, y))

(***************************************************************************)
(* The program                                                             *)
(***************************************************************************)
CONSTANTS Integers_, Doubles_, BigInts_, Ratios_,  \* the numbers it starts with
          Others_                                  \* and what is not a number

(* Ratios are not whole.  Memory is not short: there is room for what the  *)
(* variables and the module own and for what a call creates.               *)
ASSUME OperandsAssumption ==
  /\ Integers_ \subseteq Int32 /\ BigInts_ \subseteq Int
  /\ \A q \in Ratios_ : q \in Int \X Int /\ q[1] # 0 /\ q[2] > 1
  /\ Others_ \subseteq {"S", "Z", "N", "K"}

ASSUME MemoryAssumption ==
  IsFiniteSet(Vars) /\ MaxObj >= 2 * Cardinality(Vars) + 4

NoValue == Immediate("none", Zero)

Operands ==
  {<<"I", <<n, 1>>>> : n \in Integers_} \cup {<<"D", q>> : q \in Doubles_} \cup
  {<<"B", <<n, 1>>>> : n \in BigInts_} \cup {<<"R", q>> : q \in Ratios_} \cup
  {<<t, Zero>> : t \in Others_}

(* A pointer starts with its variable for an owner, and the module if the  *)
(* variable names a literal.                                               *)
Loaded(o, x, lits) ==
  IF o[1] \in {"B", "R", "S"}
  THEN [Free EXCEPT !.tag = o[1], !.info = o[2], !.rc = IF x \in lits THEN 2 ELSE 1]
  ELSE Free

NoCall == [is |-> NoValue, value |-> Zero, should |-> NoValue, type |-> "any",
           folded |-> NoConst]

Place == CHOOSE p \in [Vars -> 1 .. Cardinality(Vars)] : IsInjective(p)

Init ==
  /\ literal \in SUBSET Vars
  /\ \E start \in [Vars -> Operands] :
       /\ heap = [a \in Addr |->
                    IF \E x \in Vars : Place[x] = a
                    THEN LET x == CHOOSE x \in Vars : Place[x] = a
                         IN  Loaded(start[x], x, literal)
                    ELSE Free]
       /\ val = [x \in Vars |-> IF start[x][1] \notin {"B", "R", "S"}
                                THEN Immediate(start[x][1], start[x][2])
                                ELSE Pointer(Place[x])]
       /\ want = [x \in Vars |-> start[x][2]]
  /\ constants = {val[x].a : x \in literal} \ {Null}
  /\ last = NoCall /\ ops = 0

Knowledge(x) == IF x \in literal THEN {"const", "type", "any"} ELSE {"type", "any"}

(* The operands whose sum, product ... stays within the bounds.            *)
Bounded(q) == Abs(q[1]) <= MaxNum /\ q[2] <= MaxNum

(* What the call should give: double arithmetic if an operand is a double, *)
(* an exception where there is no answer or it does not fit.               *)
Answer(op, tx, p, ty, q) ==
  LET types == {tx, ty}
      dp == IF tx \in {"B", "R"} THEN Truncated(p) ELSE p
      dq == IF ty \in {"B", "R"} THEN Truncated(q) ELSE q
  IN  CASE op = "equiv" ->
             Box(IF ~(types \subseteq Numeric) THEN tx = ty /\ p = q
                 ELSE IF "D" \in types THEN Compare(op, dp, dq)
                 ELSE p = q /\ (tx = ty \/ types = {"I", "B"}))
        [] op # "equiv" /\ ~(types \subseteq Numeric) -> Exception
        [] op \in CmpOps /\ types \subseteq Numeric ->
             Box(IF "D" \in types THEN Compare(op, dp, dq) ELSE Compare(op, p, q))
        [] op \in MathOps /\ types \subseteq Numeric /\ "D" \in types ->
             Immediate("D", Float(op, dp, dq))
        [] op \in MathOps /\ types \subseteq Numeric \ {"D"} /\ op = "div" /\ q = Zero ->
             Exception
        [] op \in MathOps \ {"div"} /\ types = {"I"}
              /\ Exact(op, p, q)[1] \notin Int32 -> Exception
        [] OTHER -> Immediate("exact", Exact(op, p, q))

(***************************************************************************)
(* The calls that the code does not answer as it should; the README lists  *)
(* them.  In turn: integer division that leaves a negative denominator or  *)
(* overflows; double times big integer, which converts the wrong operand;  *)
(* a division by zero in an intrinsic that has consumed its operands;      *)
(* equality of numbers of two types, which depends on what is known of     *)
(* them (and of NaN, which equals itself when it is the same word); and    *)
(* what the compiler folds from one constant and one unknown operand, or   *)
(* from numbers that fit a long and not an integer.                        *)
(***************************************************************************)
Mishandled(h, op, x, y, kx, ky) ==
  LET tx == TypeOf(h, x)
      ty == TypeOf(h, y)
      p == ValueOf(h, x)
      q == ValueOf(h, y)
      typed == "any" \notin {kx, ky}
      d == CDiv(q[1], gcd[<<p[1], q[1]>>])
      intDiv == {tx, ty} = {"I"} /\ op = "div" /\ q # Zero /\ p # Zero
  IN  \/ intDiv /\ (d < -1 \/ (p[1] = MinInt /\ q[1] = -1))
      \/ op = "mul" /\ tx = "D" /\ ty = "B" /\ {kx, ky} # {"any"}
      \/ op = "div" /\ q = Zero /\ tx = "R" /\ ty \in {"I", "B"} /\ {kx, ky} # {"any"}
      \/ op = "equiv" /\ (tx # ty \/ NaN \in {p, q})
      \/ /\ typed /\ {tx, ty} \subseteq Numeric
         /\ \/ "D" \in {tx, ty} /\ tx # ty /\ ~(kx = "const" /\ ky = "const")
            \/ /\ op \in MathOps /\ kx = "const" /\ ky = "const"
               /\ "D" \notin {tx, ty} /\ p # NaN /\ ~(op = "div" /\ q = Zero)
               /\ Exact(op, p, q)[2] = 1 /\ Exact(op, p, q)[1] \notin Int32

(* The arguments are passed with a reference each, and the result replaces *)
(* the value of z.                                                         *)
Retained(h, x) == Retain(h, val[x].a)
Replacing(h, z) == Release(h, val[z].a)
Passed(x, y, z) == Replacing(Retained(Retained(heap, x), y), z)

Usable(x) == val[x] \notin {NoValue, Exception} /\ Bounded(ValueOf(heap, val[x]))

Returned(z, call, should, type, folded) ==
  /\ heap' = call.h
  /\ val' = [val EXCEPT ![z] = call.r]
  /\ literal' = literal \ {z}
  /\ UNCHANGED constants
  /\ want' = [want EXCEPT ![z] = should.q]
  /\ last' = [is |-> call.r, value |-> ValueOf(call.h, call.r), should |-> should,
              type |-> type, folded |-> folded]
  /\ ops' = ops + 1

Call(op, x, y, z) ==
  /\ ops < MaxOps /\ Usable(x) /\ Usable(y)
  /\ \E kx \in Knowledge(x), ky \in Knowledge(y) :
       /\ Defects \/ ~Mishandled(heap, op, val[x], val[y], kx, ky)
       /\ \E s \in {StaticCall(Passed(x, y, z), op, val[x], val[y], kx, ky)} :
            Returned(z, s.call,
                Answer(op, TypeOf(heap, val[x]), want[x], TypeOf(heap, val[y]), want[y]),
                s.type, Folded(heap, op, val[x], val[y], kx, ky))

(* A function of java.lang.Math: _D and _I on the machine's number, or the *)
(* wrapper that takes any.                                                 *)
MathCall(x, z) ==
  /\ ops < MaxOps /\ Usable(x)
  /\ LET t == TypeOf(heap, val[x])
         d == IF t \in {"B", "R"} THEN Truncated(want[x]) ELSE want[x]
     IN  Returned(z, Numbers_abs(Replacing(Retained(heap, x), z), val[x]),
                  IF t \in Numeric THEN Immediate("D", <<Abs(d[1]), d[2]>>) ELSE Exception,
                  "D", NoConst)

Next ==
  \E x, z \in Vars :
    \/ \E op \in Ops, y \in Vars : Call(op, x, y, z)
    \/ MathCall(x, z)

Spec == Init /\ [][Next]_vars

-----------------------------------------------------------------------------

Live == {x \in Vars : val[x] \notin {NoValue, Exception}}

TypeOK ==
  /\ \A x \in Live : TypeOf(heap, val[x]) \in Numeric \cup {"S", "Z", "N", "K"}
  /\ literal \subseteq Vars
  /\ ops \in 0 .. MaxOps

(* Whatever the compiler knew of the operands, and so whichever overload   *)
(* it chose, a call gives the exact answer: the rounded one if an operand  *)
(* is a double, an exception exactly when an integer overflows, a divisor  *)
(* is zero or an operand is not a number.  An integer is never left in a   *)
(* ratio: equality, hashing and the tests of the type rely on it.          *)
AnswersAreRight ==
  /\ \A x \in Live : TypeOf(heap, val[x]) = "R" => ValueOf(heap, val[x])[2] > 1
  /\ last.should # NoValue =>
       /\ last.is = Exception <=> last.should = Exception
       /\ last.value = last.should.q
       /\ last.should.t \in {"D", "Z"} => last.is.t = last.should.t

(* Results written into an operand that is not owned elsewhere, see        *)
(* IntoReusable, never change a number that some variable still names; and *)
(* every path through a call, exceptions included, consumes each operand   *)
(* once: an object has as many owners as references.                       *)
NumbersAreIntact ==
  /\ \A x \in Live : ValueOf(heap, val[x]) = want[x]
  /\ \A a \in Addr :
       heap[a].rc = Cardinality({x \in Vars : val[x].a = a}) +
                    (IF a \in constants THEN 1 ELSE 0)

(* The tests of ValueEncoder on a packed value, with the type known or not.*)
TestsTell(h, v) ==
  \A k \in {"any", "type"} :
    LET w == TypedValue(IF k = "any" THEN dynamicType ELSE box(Unpacked(h, v)).type,
                        box(Unpacked(h, v)).value)
        t == TypeOf(h, v)
    IN  /\ isDouble(w) <=> t = "D"
        /\ isInt32(w) <=> t = "I"
        /\ isBool(w) <=> t = "Z"
        /\ isNil(w) <=> t = "N"
        /\ isKeyword(w) <=> t = "K"
        /\ isPointer(w) <=> t \in {"B", "R", "S"}
        /\ isBigInt(h, w) <=> t = "B"
        /\ isRatio(h, w) <=> t = "R"

(* What the compiler knows of a call is true of the value: its type, on    *)
(* which it chooses the representation and the next overload, and its      *)
(* result if it was folded, on the strength of which `if' drops a branch.  *)
(* What it does not know, the tests it emits tell from the word, whatever  *)
(* bits a result of arithmetic leaves there.                               *)
StaticsAgree ==
  /\ last.is # Exception =>
       /\ last.type # "any" => TypeOf(heap, last.is) = last.type
       /\ last.folded # NoConst => last.folded.q = last.value
  /\ \A x \in Live : TestsTell(heap, val[x])
=============================================================================
