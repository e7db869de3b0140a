--------------------------- MODULE MCRestartManager ---------------------------
(* Numbers of backups for RestartManager: one is the default. *)
EXTENDS RestartManager

UpToTwoBackups == {0, 1, 2}
TwoBackups == {2}
=============================================================================
