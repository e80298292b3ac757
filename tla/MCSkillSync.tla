----------------------------- MODULE MCSkillSync -----------------------------
(* A skill whose manifest returns to an earlier content. *)
EXTENDS SkillSync, TLC

PackageSymmetry == Permutations(Packages)
=============================================================================
