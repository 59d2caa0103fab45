---------------------------- MODULE MCReceivables -----------------------------
(* Instances of Receivables for TLC; the amounts and bounds are in the cfgs. *)
EXTENDS Receivables
=============================================================================
