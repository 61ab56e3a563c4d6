---------------------------- MODULE MCSkillSynth ----------------------------
(* Instances of SkillSynth for TLC. *)
EXTENDS SkillSynth, TLC

CONSTANTS n1, n2, r1, r2, fixer

Interchangeable == Permutations({n1, n2}) \cup Permutations({r1, r2})
=============================================================================
