--------------------------- MODULE MCTokenService ---------------------------
(* TokenService on a small instance; names, pairs and requests are           *)
(* interchangeable.                                                         *)
EXTENDS TokenService, TLC

Symmetry ==
    Permutations(Names) \cup Permutations(Pairs) \cup Permutations(Requests)
=============================================================================
