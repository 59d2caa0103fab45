----------------------------- MODULE MCOwnerFunds -----------------------------
(* An instance of OwnerFunds for TLC. *)
EXTENDS OwnerFunds, TLC

Posted == {-2, 0}

Symmetry == Permutations(Branch) \cup Permutations(Asset)
=============================================================================
