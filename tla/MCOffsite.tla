----------------------------- MODULE MCOffsite -----------------------------
(***************************************************************************)
(* OffsiteBackups with the real calendar (weeks of seven and months of      *)
(* thirty days), the default policy and the runbook's routine, in which     *)
(* every day has its backup, its export and its prune and nothing fails.    *)
(***************************************************************************)
EXTENDS OffsiteBackups

Default == [daily |-> 7, weekly |-> 4, monthly |-> 12]
DefaultPolicy == {Default}

Pruned == receipt = RetainedBackupPaths(receipt, Default, day)

RoutineNext ==
    \/ InitializeTarget \/ LocalBackup
    \/ ExportBegin \/ ExportEncrypt \/ ExportVerified
    \/ PruneBegin(Default) \/ PruneArtifact \/ PruneReceipt
    \/ NextDay /\ last.at = day /\ Pruned

RoutineSpec == OffsiteInit /\ [][RoutineNext]_offsiteVars

\* Every one of the last months in which a copy was exported keeps a copy: the
\* retention the runbook states, for the default policy.
MonthlyPointsKept == MonthsKept(Default)
=============================================================================
