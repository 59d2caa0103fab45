----------------------------- MODULE MCMaterials ------------------------------
(* An instance of Materials for TLC. *)
EXTENDS Materials, TLC

Symmetry == Permutations(Warehouse) \cup Permutations(Project)
=============================================================================
