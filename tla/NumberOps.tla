----------------------------- MODULE NumberOps -----------------------------
(***************************************************************************)
(* The numbers of the runtime (Numbers.c, Ratio.c, BigInteger.c,           *)
(* Integer.c) as functions on a heap.  A C long has twice the bits of an   *)
(* integer.  A number is a fraction <<n,d>> in lowest terms with d > 0; a  *)
(* double also has the infinities <<1,0>>, <<-1,0>> and NaN, <<0,0>>.      *)
(* (Zero has no sign here.)                                                *)
(***************************************************************************)
EXTENDS Cells

CONSTANT Half             \* how many integers are negative: 2^31

ASSUME HalfAssumption == Half \in Nat /\ Half > 1

Words == 2 * Half         \* the words of an integer, and of a C long
LongWords == Words * Words

MinInt == -Half
Int32 == MinInt .. Half - 1
FitsLong(n) == n \in -(Half * Words) .. Half * Words - 1
Wrap(n) == ((n - MinInt) % Words) + MinInt

Abs(n) == IF n < 0 THEN -n ELSE n
Sign(n) == IF n < 0 THEN -1 ELSE IF n = 0 THEN 0 ELSE 1

(* The quotient and the remainder of C: the one is rounded towards zero,   *)
(* the other has the sign of the dividend.                                 *)
CRem(a, b) == Sign(a) * (Abs(a) % Abs(b))
CDiv(a, b) == Sign(a) * Sign(b) * (Abs(a) \div Abs(b))

(* gcd of Integer.c, Euclid's algorithm: its result can be negative.       *)
gcd[p \in Int \X Int] ==
  IF p[2] = 0 THEN p[1] ELSE gcd[<<p[2], CRem(p[1], p[2])>>]

(* mpq_canonicalize: lowest terms, and a positive denominator.             *)
Reduced(n, d, g) == <<(Sign(d) * n) \div g, Abs(d) \div g>>
Frac(n, d) == IF d = 0 THEN <<Sign(n), 0>> ELSE Reduced(n, d, gcd[<<Abs(n), Abs(d)>>])

NaN == <<0, 0>>
Zero == <<0, 1>>

(***************************************************************************)
(* Doubles: below 8 the multiples of 1/2, from there on the even numbers,  *)
(* so that both large integers and fractions lose digits.                  *)
(***************************************************************************)
Small(q) == Abs(q[1]) < 8 * q[2]

(* IEEE operations round to the nearest double.                            *)
Nearest(q) ==
  IF Small(q) THEN Frac((4 * q[1] + q[2]) \div (2 * q[2]), 2)
  ELSE Frac(2 * ((q[1] + q[2]) \div (2 * q[2])), 1)

(* mpz_get_d and mpq_get_d truncate towards zero.                          *)
Truncated(q) ==
  IF Small(q) THEN Frac(Sign(q[1]) * ((2 * Abs(q[1])) \div q[2]), 2)
  ELSE Frac(Sign(q[1]) * 2 * (Abs(q[1]) \div (2 * q[2])), 1)

(* + - * / on exact numbers, and on doubles.                               *)
Exact(op, p, q) ==
  Frac(CASE op = "add" -> p[1] * q[2] + q[1] * p[2]
         [] op = "sub" -> p[1] * q[2] - q[1] * p[2]
         [] op = "mul" -> p[1] * q[1]
         [] op = "div" -> p[1] * q[2],
       IF op = "div" THEN p[2] * q[1] ELSE p[2] * q[2])

Float(op, p, q) ==
  LET inf(x) == x[2] = 0
      r == IF op = "sub" THEN <<-q[1], q[2]>> ELSE q
  IN  CASE p = NaN \/ q = NaN -> NaN
        [] op \in {"add", "sub"} /\ inf(p) /\ inf(q) -> IF p = r THEN p ELSE NaN
        [] op \in {"add", "sub"} /\ inf(p) -> p
        [] op \in {"add", "sub"} /\ inf(q) -> r
        [] op = "mul" /\ (inf(p) \/ inf(q)) -> <<Sign(p[1]) * Sign(q[1]), 0>>
        [] op = "div" /\ inf(p) /\ inf(q) -> NaN
        [] op = "div" /\ inf(p) -> <<p[1] * (IF q[1] < 0 THEN -1 ELSE 1), 0>>
        [] op = "div" /\ inf(q) -> Zero
        [] op = "div" /\ q[1] = 0 -> <<Sign(p[1]), 0>>
        [] OTHER -> Nearest(Exact(op, p, q))

(* An ordered comparison is false if an operand is NaN.                    *)
Compare(op, p, q) ==
  LET c == IF p[2] = 0 /\ q[2] = 0 THEN p[1] - q[1] ELSE p[1] * q[2] - q[1] * p[2]
  IN  /\ p # NaN /\ q # NaN
      /\ CASE op = "gte" -> c >= 0
           [] op = "gt" -> c > 0
           [] op = "lt" -> c < 0
           [] op = "lte" -> c <= 0
           [] op = "equiv" -> c = 0

MathOps == {"add", "sub", "mul", "div"}
CmpOps == {"gte", "gt", "lt", "lte"}

(***************************************************************************)
(* Values: an integer I, a double D or a boolean Z in the word itself, or  *)
(* the address of a big integer B, a ratio R or a string S.                *)
(***************************************************************************)
Immediate(t, q) == [t |-> t, q |-> q, a |-> Null]
Pointer(a) == [t |-> "ptr", q |-> Zero, a |-> a]
Exception == Immediate("throws", Zero)
Box(b) == Immediate("Z", IF b THEN <<1, 1>> ELSE Zero)

(* getType *)
TypeOf(h, v) == IF v.a = Null THEN v.t ELSE h[v.a].tag
ValueOf(h, v) == IF v.a = Null THEN v.q ELSE h[v.a].info

Give(h, v) == [h |-> h, r |-> v]
Pointing(n) == Give(n.h, Pointer(n.r))
New(h, t, q) == Pointing(Alloc(h, t, <<>>, q))

(* release: the last owner destroys a number, which owns nothing itself.   *)
Release(h, a) ==
  IF ~IsPtr(a) THEN h
  ELSE IF h[a].rc = 1 THEN [h EXCEPT ![a] = Free]
  ELSE [h EXCEPT ![a].rc = @ - 1]
Drop(h, v) == Release(h, v.a)
DropBoth(h, v, w) == Drop(Drop(h, v), w)
Releasing(call, v, w) == Give(DropBoth(call.h, v, w), call.r)
ThrowsReleasing(h, v, w) == Give(DropBoth(h, v, w), Exception)

(* BigInteger_createFromInt, BigInteger_createFromMpz ...: one owner.      *)
BigInteger_createFromInt(h, n) == New(h, "B", <<n, 1>>)
Ratio_createFromInt(h, n) == New(h, "R", <<n, 1>>)

Replaces(new, v) == Give(Drop(new.h, v), new.r)
Ratio_createFromBigInteger(h, v) == Replaces(New(h, "R", ValueOf(h, v)), v)

(* mpq_set_si takes its denominator as an unsigned long: a negative one    *)
(* is not what it was.                                                     *)
Ratio_createFromInts(h, n, d) ==
  New(h, "R", Frac(n, IF d < 0 THEN d + LongWords ELSE d))

\* Mutant: the first operand is overwritten, whoever else owns it.
IntoFirst(h, x, y, t, q) == Give(Drop([h EXCEPT ![x.a].info = q], y), x)

(* The frame of add, sub, mul and the exact division: the result goes into *)
(* an operand that nobody else owns, or into a new object.                 *)
IntoReusable(h, x, y, t, q) ==
  CASE IsReusable(h, x.a) -> Give(Drop([h EXCEPT ![x.a].info = q], y), x)
    [] ~IsReusable(h, x.a) /\ IsReusable(h, y.a) ->
         Give(Drop([h EXCEPT ![y.a].info = q], x), y)
    [] OTHER -> Releasing(New(h, t, q), x, y)

BigIntegerResult(h, x, y, q) ==
  IF q[2] = 1 THEN IntoReusable(h, x, y, "B", q) ELSE Releasing(New(h, "R", q), x, y)

BigInteger_op(h, op, x, y) ==
  IF op = "div" /\ ValueOf(h, y) = Zero THEN ThrowsReleasing(h, x, y)
  ELSE BigIntegerResult(h, x, y, Exact(op, ValueOf(h, x), ValueOf(h, y)))

(* A ratio that is a whole number becomes a big integer.                   *)
Ratio_simplify(h, v) ==
  IF ValueOf(h, v)[2] = 1 THEN Replaces(New(h, "B", ValueOf(h, v)), v) ELSE Give(h, v)
Simplified(call) == Ratio_simplify(call.h, call.r)

Ratio_op(h, op, x, y) ==
  IF op = "div" /\ ValueOf(h, y) = Zero THEN ThrowsReleasing(h, x, y)
  ELSE Simplified(IntoReusable(h, x, y, "R", Exact(op, ValueOf(h, x), ValueOf(h, y))))

(* BigInteger_gte ... and Ratio_gte ...                                    *)
Object_cmp(h, op, x, y) ==
  Give(DropBoth(h, x, y), Box(Compare(op, ValueOf(h, x), ValueOf(h, y))))

(* The two quotients are computed in int32_t.                              *)
Quotient(h, n, d) ==
  CASE d = 1 -> Give(h, Immediate("I", <<Wrap(n), 1>>))
    [] d = -1 -> Give(h, Immediate("I", <<Wrap(-n), 1>>))
    [] OTHER -> Ratio_createFromInts(h, n, d)

Integer_div(h, num, den) ==
  CASE den = 0 -> Give(h, Exception)
    [] den # 0 /\ num = 0 -> Give(h, Immediate("I", Zero))
    [] OTHER -> LET g == gcd[<<num, den>>] IN Quotient(h, CDiv(num, g), CDiv(den, g))

\* Mutant: the result wraps around.
Integer_wrapping(h, op, n, m) ==
  Give(h, Immediate("I", <<Wrap(Exact(op, <<n, 1>>, <<m, 1>>)[1]), 1>>))

(* The checked operations, __builtin_add_overflow or sadd_with_overflow.   *)
Integer_op(h, op, n, m) ==
  LET r == Exact(op, <<n, 1>>, <<m, 1>>) IN
  Give(h, IF r[1] \in Int32 THEN Immediate("I", r) ELSE Exception)

(***************************************************************************)
(* Numbers_*: any two values.                                              *)
(***************************************************************************)
Numeric == {"I", "D", "B", "R"}

Numbers_toDouble(h, v) ==
  CASE TypeOf(h, v) \in {"B", "R"} ->
         Give(Drop(h, v), Immediate("D", Truncated(ValueOf(h, v))))
    [] TypeOf(h, v) \in {"I", "D"} -> Give(h, Immediate("D", ValueOf(h, v)))
    [] OTHER -> Give(Drop(h, v), Exception)

toRatio(h, v) ==
  CASE TypeOf(h, v) = "R" -> Give(h, v)
    [] TypeOf(h, v) = "I" -> Ratio_createFromInt(h, v.q[1])
    [] TypeOf(h, v) = "B" -> Ratio_createFromBigInteger(h, v)

toBigInt(h, v) ==
  IF TypeOf(h, v) = "B" THEN Give(h, v) ELSE BigInteger_createFromInt(h, v.q[1])

(* Both operands through a conversion, then the operation on what it gave. *)
Converted(h, x, y, convert(_, _), then(_, _, _)) ==
  LET both(a, b) == then(b.h, a.r, b.r)
      first(a) == both(a, convert(a.h, y))
  IN  first(convert(h, x))

narrowBigInt(h, v) ==
  IF TypeOf(h, v) = "B" /\ ValueOf(h, v)[1] \in Int32
  THEN Give(Drop(h, v), Immediate("I", ValueOf(h, v))) ELSE Give(h, v)

simplifyResult(s) ==
  IF s.r = Exception THEN s ELSE narrowBigInt(s.h, s.r)

Double_op(h, op, x, y) == Give(h, Immediate("D", Float(op, x.q, y.q)))
Double_cmp(h, op, x, y) == Give(h, Box(Compare(op, x.q, y.q)))

Numbers_op(h, op, x, y) ==
  LET types == {TypeOf(h, x), TypeOf(h, y)}
      double(g, a, b) == Double_op(g, op, a, b)
      ratio(g, a, b) == Ratio_op(g, op, a, b)
      bigint(g, a, b) == BigInteger_op(g, op, a, b)
  IN  CASE ~(types \subseteq Numeric) -> ThrowsReleasing(h, x, y)
        [] types \subseteq Numeric /\ "D" \in types ->
             Converted(h, x, y, Numbers_toDouble, double)
        [] types \subseteq Numeric \ {"D"} /\ op = "div" ->
             simplifyResult(Converted(h, x, y, toRatio, ratio))
        [] types \subseteq Numeric \ {"D"} /\ op # "div" /\ "R" \in types ->
             Converted(h, x, y, toRatio, ratio)
        [] types \subseteq {"I", "B"} /\ op # "div" /\ "B" \in types ->
             Converted(h, x, y, toBigInt, bigint)
        [] types = {"I"} /\ op # "div" -> Integer_op(h, op, x.q[1], y.q[1])

Numbers_cmp(h, op, x, y) ==
  LET types == {TypeOf(h, x), TypeOf(h, y)}
      double(g, a, b) == Double_cmp(g, op, a, b)
      object(g, a, b) == Object_cmp(g, op, a, b)
  IN  CASE ~(types \subseteq Numeric) -> ThrowsReleasing(h, x, y)
        [] types \subseteq Numeric /\ "D" \in types ->
             Converted(h, x, y, Numbers_toDouble, double)
        [] types \subseteq Numeric \ {"D"} /\ "R" \in types ->
             Converted(h, x, y, toRatio, object)
        [] types \subseteq {"I", "B"} /\ "B" \in types ->
             Converted(h, x, y, toBigInt, object)
        [] types = {"I"} -> Give(h, Box(Compare(op, x.q, y.q)))

(* UNARY_MATH_WRAPPER, with fabs for the function.                         *)
Fabs(d) ==
  IF d.r = Exception THEN d
  ELSE Give(d.h, Immediate("D", <<Abs(d.r.q[1]), d.r.q[2]>>))
Numbers_abs(h, x) == Fabs(Numbers_toDouble(h, x))

(* equals_managed: identical words, or objects of one type that are equal. *)
equals_managed(h, x, y) ==
  LET same == \/ x = y
              \/ /\ x.a # Null /\ y.a # Null
                 /\ TypeOf(h, x) = TypeOf(h, y) /\ ValueOf(h, x) = ValueOf(h, y)
  IN  Give(DropBoth(h, x, y), Box(same))
=============================================================================
