------------------------------ MODULE MCProve ------------------------------
(* Prove on a small instance. *)
EXTENDS Prove, TLC

MCPlans == {<<"defect", "preserve">>}

MCSymmetry == Permutations(Runs) \cup Permutations(Versions) \cup Permutations(Docs)
=============================================================================
