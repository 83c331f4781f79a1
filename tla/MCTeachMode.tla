----------------------------- MODULE MCTeachMode -----------------------------
(* TeachMode on two detected subjects and two names, of a kind each.         *)
EXTENDS TeachMode, TLC

Alike == Permutations(Detected) \cup Permutations(Taught)
==============================================================================
