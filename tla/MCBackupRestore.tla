-------------------------- MODULE MCBackupRestore --------------------------
(***************************************************************************)
(* BackupRestore on a small instance; the constants are in the cfg.        *)
(***************************************************************************)
EXTENDS BackupRestore
=============================================================================
