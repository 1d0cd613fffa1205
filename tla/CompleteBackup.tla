---------------------------- MODULE CompleteBackup ----------------------------
(***************************************************************************)
(* The library complete_backup.py: a bundle that is written and validated, *)
(* and the choice of the backups to delete.  No command uses it yet, and   *)
(* its two halves share no state: a behaviour exercises one or the other.  *)
(***************************************************************************)
EXTENDS BackupBundle, BackupRetention

vars == <<bundleVars, retentionVars>>

Init == (BundleInit \/ BundleAside) /\ RetentionInit
Next ==
  \/ BundleNext /\ UNCHANGED retentionVars
  \/ bundle = NoBundle /\ runs = MaxRuns /\ RetentionNext /\ UNCHANGED bundleVars

Spec == Init /\ [][Next]_vars

TypeOK == BundleTypeOK /\ RetentionTypeOK

=============================================================================
