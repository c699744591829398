---------------------------- MODULE MCDeployment ----------------------------
(* Small instances of Deployment. *)
EXTENDS Deployment, TLC

MCCommitted == <<"authors", 0>>
\* Values of one set are interchangeable.
Identical ==
    Permutations(Keys) \cup Permutations(Runs) \cup Permutations(Workers) \cup Permutations(Jobs)
=============================================================================
