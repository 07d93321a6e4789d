------------------------------ MODULE MCVector ------------------------------
(* Two slots per node: eleven elements need a tree of three
   levels and fill its second one.          *)
EXTENDS Vector

MCConjValue == [n \in 0 .. MaxCount |-> IF n % 3 = 1 THEN Item ELSE -1 - n]
MCAssocValue == -50
MCMetas == {-60, Item}
VarSymmetry == Permutations(Vars)
=============================================================================
