----------------------------- MODULE MCLiveAssets -----------------------------
(* Small instances of LiveAssets for TLC. *)
EXTENDS LiveAssets, TLC

Symmetry == Permutations(Callers) \cup Permutations(Tasks) \cup Permutations(Keys)

==============================================================================
