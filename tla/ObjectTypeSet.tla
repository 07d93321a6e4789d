--------------------------- MODULE ObjectTypeSet ---------------------------
(***************************************************************************)
(* What the compiler knows of the type of an expression                    *)
(* (backend/types/ObjectTypeSet.h): a set of types, whether the value is   *)
(* boxed, whether it can be of a type that no set lists, and its value if  *)
(* that is known.                                                          *)
(***************************************************************************)
EXTENDS Integers, FiniteSets

(* Types are numbers; classes of the program have numbers from 1000 on.    *)
stringType == 1
doubleType == 2
bigIntegerType == 8
keywordType == 11
nilType == 12
booleanType == 13
integerType == 15
ratioType == 16
objectRootType == 20
executionContextType == 27
FirstClassId == 1000

(* The types that all() lists: neither the execution context nor classes   *)
(* of the program are among them.                                          *)
Listed == 1 .. 29 \ {5, 6, 9, 14, executionContextType, 28}

NoConstant == "none"

Determined(t) ==
  [types |-> {t}, boxed |-> FALSE, all |-> FALSE,
   constant |-> IF t = nilType THEN "nil" ELSE NoConstant]

all == [types |-> Listed, boxed |-> TRUE, all |-> TRUE, constant |-> NoConstant]

dynamicType == [all EXCEPT !.boxed = TRUE]

isEmpty(s) == s.types = {} /\ ~s.all

isDetermined(s) == Cardinality(s.types) = 1 /\ ~s.all

determinedType(s) == CHOOSE t \in s.types : TRUE

(* boxed() and unboxed(): the same type in the other representation; what  *)
(* is not determined stays boxed.                                          *)
boxed(s) == [s EXCEPT !.boxed = TRUE]
unboxed(s) == [s EXCEPT !.boxed = @ /\ ~isDetermined(s)]

isBoxedType(s, t) == s.boxed /\ isDetermined(s) /\ t \in s.types
isUnboxedType(s, t) == ~s.boxed /\ isDetermined(s) /\ t \in s.types

(* isScalar and isBoxedScalar: the types whose values are not objects.     *)
Scalars == {integerType, booleanType, doubleType, nilType, keywordType}
IsScalarType(s) == isDetermined(s) /\ determinedType(s) \in Scalars

isUnboxedPointer(s) == ~s.boxed /\ ~IsScalarType(s)
isBoxedPointer(s) == s.boxed /\ isDetermined(s) /\ ~IsScalarType(s)

(* operator==: constants are not compared.                                 *)
Same(s, r) == s.types = r.types /\ s.boxed = r.boxed /\ s.all = r.all

(* The values of s that can also be of r: a value of which nothing is      *)
(* known cannot be of a type that all() does not list.                     *)
restriction(s, r) ==
  IF r.all THEN s
  ELSE [types |-> s.types \cap r.types, boxed |-> s.boxed, all |-> FALSE,
        constant |-> IF s.constant # NoConstant /\ s.types \cap r.types # {}
                     THEN s.constant ELSE NoConstant]
=============================================================================
