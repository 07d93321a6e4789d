------------------------ MODULE MCConcurrentHashMap ------------------------
(***************************************************************************)
(* ConcurrentHashMap for model checking.  In a table of four cells k1 and  *)
(* k2 have the same hash and belong to the last bucket; k3 belongs to the  *)
(* first one, where the last bucket overflows to.                          *)
(***************************************************************************)
EXTENDS ConcurrentHashMap, TLC
CONSTANTS k1, k2, k3

HashOf == (k1 :> 3) @@ (k2 :> 3) @@ (k3 :> 4)
MCHash == [k \in Keys |-> HashOf[k]]

Symmetry == Permutations(Threads) \cup Permutations(Values)
=============================================================================
