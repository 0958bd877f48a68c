----------------------------- MODULE MCNucGate -----------------------------
(* NucGate for TLC: every job belongs to one repository, the harder case. *)
EXTENDS NucGate, TLC

MCRepoOf == [j \in Jobs |-> CHOOSE r \in Repos : TRUE]

(* Jobs of one repository, and units, are interchangeable. *)
Symmetry == Permutations(Jobs) \cup Permutations(Units)
===========================================================================
