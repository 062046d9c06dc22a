----------------------------- MODULE MCTrashBin -----------------------------
(* Model values for TrashBin. *)
EXTENDS TrashBin, TLC

Symmetry == Permutations(Handlers) \cup Permutations(Files) \cup Permutations(Items)
=============================================================================
