------------------------------ MODULE MCExpenses ------------------------------
(* Instances of Expenses for TLC; the bounds are in the cfg. *)
EXTENDS Expenses, TLC

Symmetries == Permutations(Ledger) \cup Permutations(MoneyAccount)
                \cup Permutations(Key)
=============================================================================
