------------------------------ MODULE MCBackup ------------------------------
(***************************************************************************)
(* Five runs with three dumps kept.                                         *)
(***************************************************************************)
EXTENDS Backup

=============================================================================
