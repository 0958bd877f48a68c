--------------------------- MODULE MCNucGateWait ---------------------------
(* NucGateWait for TLC. *)
EXTENDS NucGateWait

MCRepoOf == [j \in Jobs |-> CHOOSE r \in Repos : TRUE]
===========================================================================
