---------------------------- MODULE MCArithmetic ----------------------------
(* Integers of three bits, and numbers on both sides of every boundary: of
   the integers, of a C long of six bits, and of what a double can hold. *)
EXTENDS Arithmetic

SomeIntegers == {-4, 0, 3}
SomeDoubles == {<<-3, 2>>}
SomeBigInts == {0, 33}
SomeRatios == {<<1, 2>>}
SomeOthers == {"S", "N", "K"}
=============================================================================
