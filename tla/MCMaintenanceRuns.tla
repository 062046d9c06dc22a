------------------------- MODULE MCMaintenanceRuns -------------------------
(* Model values for MaintenanceRuns. *)
EXTENDS MaintenanceRuns, TLC

Symmetry == Permutations(Keys) \cup Permutations(Runs) \cup Permutations(Manual)
=============================================================================
