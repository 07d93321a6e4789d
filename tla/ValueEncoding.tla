--------------------------- MODULE ValueEncoding ---------------------------
(***************************************************************************)
(* The word that holds any value (backend/runtime/RTValue.h), and the code *)
(* that the compiler emits to pack and unpack it (codegen/ValueEncoder).   *)
(* A word is its tag, the high 16 bits of 64, and the bits below.  Doubles *)
(* are stored as they are, so that every tag they can begin with must be   *)
(* below the other tags; the last digit of those is the type.              *)
(***************************************************************************)
EXTENDS NumberOps, ObjectTypeSet

RT_TAG_DOUBLE_START == 65521   \* 0xFFF1
RT_TAG_KEYWORD == 65531        \* 0xFFFB
RT_TAG_NIL == 65532            \* 0xFFFC
RT_TAG_BOOL == 65533           \* 0xFFFD
RT_TAG_PTR == 65534            \* 0xFFFE
RT_TAG_INT32 == 65535          \* 0xFFFF

Word(tag, bits) == [tag |-> tag, bits |-> bits]

(* How the machine represents a double.  An invalid operation gives the    *)
(* NaN that begins with 0xFFF8, minus infinity begins with 0xFFF0; of the  *)
(* others only the sign is kept in the tag here.                           *)
DoubleBits(q) ==
  Word(CASE q = NaN -> 65528
         [] q = <<-1, 0>> -> 65520
         [] q = <<1, 0>> -> 32752
         [] OTHER -> IF q[1] < 0 THEN 32768 ELSE 0, q)

(***************************************************************************)
(* The functions of the runtime.                                           *)
(***************************************************************************)
RT_boxDouble(q) == IF q = NaN THEN Word(32760, NaN) ELSE DoubleBits(q)
RT_boxInt32(n) == Word(RT_TAG_INT32, n % Words)
RT_boxBool(q) == Word(RT_TAG_BOOL, IF q = Zero THEN 0 ELSE 1)
RT_boxNil == Word(RT_TAG_NIL, 0)
RT_boxKeyword(id) == Word(RT_TAG_KEYWORD, id)
RT_boxPtr(a) == Word(RT_TAG_PTR, a)

RT_unboxDouble(w) == w.bits
RT_unboxInt32(w) == Wrap(w.bits)
RT_unboxBool(w) == w.bits % 2 = 1
RT_unboxKeyword(w) == w.bits
RT_unboxPtr(w) == w.bits

(* The types of the values of a program that computes.                     *)
TypeNumber == [S |-> stringType, D |-> doubleType, B |-> bigIntegerType,
               K |-> keywordType, N |-> nilType, Z |-> booleanType,
               I |-> integerType, R |-> ratioType]

getType(h, w) ==
  CASE w.tag < RT_TAG_DOUBLE_START -> doubleType
    [] w.tag >= RT_TAG_DOUBLE_START /\ w.tag # RT_TAG_PTR -> w.tag % 16
    [] w.tag = RT_TAG_PTR -> TypeNumber[h[RT_unboxPtr(w)].tag]

(***************************************************************************)
(* The compiler knows the type of a value, and whether it is packed.       *)
(***************************************************************************)
TypedValue(type, value) == [type |-> type, value |-> value]

boxDouble(v) == TypedValue(boxed(v.type), RT_boxDouble(v.value.q))
boxInt32(v) == TypedValue(boxed(v.type), RT_boxInt32(v.value.q[1]))
boxBool(v) == TypedValue(boxed(v.type), RT_boxBool(v.value.q))
boxNil == TypedValue(boxed(Determined(nilType)), RT_boxNil)
boxKeyword(v) == TypedValue(boxed(v.type), RT_boxKeyword(v.value.q[1]))
boxPointer(v) == TypedValue(boxed(v.type), RT_boxPtr(v.value.a))

(* Other types cannot be packed: the code throws, and there is no value.   *)
box(v) ==
  CASE v.type.boxed -> v
    [] isUnboxedPointer(v.type) -> boxPointer(v)
    [] isUnboxedType(v.type, doubleType) -> boxDouble(v)
    [] isUnboxedType(v.type, integerType) -> boxInt32(v)
    [] isUnboxedType(v.type, booleanType) -> boxBool(v)
    [] isUnboxedType(v.type, keywordType) -> boxKeyword(v)
    [] isUnboxedType(v.type, nilType) -> boxNil

(* Tests of a packed value; what is known needs none.                      *)
isDouble(v) == isBoxedType(v.type, doubleType) \/ v.value.tag < RT_TAG_DOUBLE_START
isInt32(v) == isBoxedType(v.type, integerType) \/ v.value.tag = RT_TAG_INT32
isBool(v) == isBoxedType(v.type, booleanType) \/ v.value.tag = RT_TAG_BOOL
isNil(v) ==
  isBoxedType(v.type, nilType) \/ (v.value.tag = RT_TAG_NIL /\ v.value.bits = 0)
isKeyword(v) == isBoxedType(v.type, keywordType) \/ v.value.tag = RT_TAG_KEYWORD
isPointer(v) == isBoxedPointer(v.type) \/ v.value.tag = RT_TAG_PTR

(* Only of an object is the type looked at.                                *)
isBigInt(h, v) ==
  \/ isBoxedType(v.type, bigIntegerType)
  \/ isPointer(v) /\ h[RT_unboxPtr(v.value)].tag = "B"
isRatio(h, v) ==
  \/ isBoxedType(v.type, ratioType)
  \/ isPointer(v) /\ h[RT_unboxPtr(v.value)].tag = "R"

unboxDouble(w) == Immediate("D", RT_unboxDouble(w))
unboxInt32(w) == Immediate("I", <<RT_unboxInt32(w), 1>>)
unboxBool(w) == Box(RT_unboxBool(w))
unboxKeyword(w) == Immediate("K", <<RT_unboxKeyword(w), 1>>)
unboxPointer(w) == Pointer(RT_unboxPtr(w))

(* Only determined types can be unpacked.                                  *)
unbox(v) ==
  IF ~v.type.boxed THEN v
  ELSE TypedValue(unboxed(v.type),
         CASE isBoxedPointer(v.type) -> unboxPointer(v.value)
           [] isBoxedType(v.type, doubleType) -> unboxDouble(v.value)
           [] isBoxedType(v.type, integerType) -> unboxInt32(v.value)
           [] isBoxedType(v.type, booleanType) -> unboxBool(v.value)
           [] isBoxedType(v.type, keywordType) -> unboxKeyword(v.value)
           [] isBoxedType(v.type, nilType) -> Immediate("N", Zero))
=============================================================================
