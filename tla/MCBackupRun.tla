---------------------------- MODULE MCBackupRun ----------------------------
(***************************************************************************)
(* Instances of BackupRun for TLC.                                         *)
(***************************************************************************)
EXTENDS BackupRun

CONSTANTS b1, b2, v1, v2, all

\* Runs of the whole cell.
SameTarget == [b \in Brun |-> all]
WholeCell == [b \in Brun |-> Volume]
=============================================================================
