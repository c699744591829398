---------------------------- MODULE MCWebSession ----------------------------
(* WebSession on a small instance.                                         *)
EXTENDS WebSession, TLC

Symmetry == Permutations(Users) \cup Permutations(Pairs) \cup Permutations(Tasks)

\* Overlapping clicks are explored as far as two pairs, clicks that wait for
\* each other as far as all of Pairs.
OverlapsSmall == overlapped => Cardinality({p \in Pairs : pair[p] # None}) <= 2
=============================================================================
