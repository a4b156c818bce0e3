---------------------------- MODULE MCExperiments ----------------------------
(* Three sessions, two experiment ids: arms come, leave, are replaced and return. *)
EXTENDS Experiments, TLC

Symmetric == Permutations(Sessions) \cup Permutations(Names) \cup
             Permutations(Labels) \cup Permutations(Worlds)
==============================================================================
