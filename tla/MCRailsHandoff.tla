--------------------------- MODULE MCRailsHandoff ---------------------------
(* RailsHandoff for TLC: files are alike, and so are sessions. *)
EXTENDS RailsHandoff, TLC

MCSymmetry == Permutations(Sessions) \cup Permutations(Files)
===========================================================================
