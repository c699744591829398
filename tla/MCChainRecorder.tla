-------------------------- MODULE MCChainRecorder --------------------------
(* ChainRecorder on a small instance.                                      *)
EXTENDS ChainRecorder, TLC

Symmetry == Permutations(Workers) \cup Permutations(Msgs) \cup Permutations(Hashes) \cup Permutations(Prices)
=============================================================================
