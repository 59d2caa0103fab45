--------------------------- MODULE MCFieldTracking ----------------------------
(* Small instances of FieldTracking; the values are in the cfgs.  The ids   *)
(* are numbers because batches are ordered by them.                         *)
EXTENDS FieldTracking
=============================================================================
