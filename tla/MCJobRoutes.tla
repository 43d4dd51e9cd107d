---------------------------- MODULE MCJobRoutes ----------------------------
(* Instances of JobRoutes for TLC. *)
EXTENDS JobRoutes, TLC

MCParses(c) == c # "garbage"
MCNextAfter(c, t) == IF c = "30 feb" THEN Null ELSE t + 1
Symmetry == Permutations(JobIds) \cup Permutations(JobNames) \cup Permutations(Workers)
=============================================================================
