----------------------------- MODULE MCFieldJobs ------------------------------
(* An instance of FieldJobs for model checking; the values are in the cfg.  *)
EXTENDS FieldJobs
=============================================================================
