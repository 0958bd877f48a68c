--------------------------- MODULE MCRailsAuthors ---------------------------
(* RailsAuthors on a small instance. *)
EXTENDS RailsAuthors, TLC

MCSymmetry == Permutations(Mains) \cup Permutations(Children) \cup Permutations(Families)
===========================================================================
