----------------------------- MODULE MCKeyword -----------------------------
EXTENDS Keyword, TLC

Symmetry == Permutations(Threads) \cup Permutations(Strings)
=============================================================================
