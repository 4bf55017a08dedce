--------------------------- MODULE MCBackupFolder ---------------------------
(* Small instances of BackupFolder: doors, their types, how many are kept. *)
EXTENDS BackupFolder, TLC

CONSTANTS turn, now, create, again

\* One door for each type, so no two doors write one type; beside them lies a
\* backup from before a restore, a type that never rotates, and an automatic
\* backup of an earlier run.
TurnAndDownload == turn :> "auto" @@ create :> "manual"
KeepOne == "auto" :> 1 @@ "manual" :> 1
EarlierRun == [type |-> "pre_restore", stamp |-> 0, tail |-> 1] :> 0
              @@ [type |-> "auto", stamp |-> -1, tail |-> 1] :> -1
NoBackup == [n \in {} |-> 0]

\* "Backup now" writes the type of the automatic turn.
TurnAndNow == turn :> "auto" @@ now :> "auto"
KeepAuto == "auto" :> 1

\* Two downloads at once, and MANUAL_BACKUP_MAX_COUNT (README, section 5).
TwoDownloads == create :> "manual" @@ again :> "manual"
KeepTwo == "manual" :> 2
=============================================================================
