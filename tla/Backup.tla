-------------------------------- MODULE Backup --------------------------------
(***************************************************************************)
(* Backups and checkpoints of a DB that goes on being written, and the     *)
(* restore of a backup in place of the DB.  Every NIF opens a backup       *)
(* engine of its own on the backup directory, so nothing is remembered     *)
(* between calls but the directory.                                        *)
(*                                                                         *)
(* create_new_backup(&db) does not flush memtables: it copies the files    *)
(* and then the log.  create_checkpoint flushes first.  Writers run        *)
(* meanwhile, so each takes two steps.                                     *)
(***************************************************************************)
EXTENDS Durability, Integers, FiniteSets

CONSTANTS MaxBackups,  \* bound on the ids of backups
          MaxI32,      \* the greatest i32 (2^31 - 1 in the code)
          NoJob        \* no call is running

ASSUME BackupAssumption == /\ MaxBackups \in Nat /\ MaxI32 \in Nat
                           /\ MaxBackups <= MaxI32

VARIABLES backups,     \* the backup directory: id -> what was copied
          job,         \* the call of create_backup or create_checkpoint
          made         \* history: backups made since the directory was empty

bvars == <<backups, job, made>>
vars  == <<dvars, bvars>>

BackupIds == DOMAIN backups
Greatest(S) == CHOOSE i \in S : \A j \in S : j <= i

\* What a DB opened on a copy shows.
InDir(dir) == Joined(dir.files) \cup dir.log

-----------------------------------------------------------------------------
\* A fresh engine counts on from the greatest id it finds.
NextId == IF BackupIds = {} THEN 1 ELSE Greatest(BackupIds) + 1

(* create_backup.  It has to cover what has a log, or is in a file, by now. *)
BackupFiles ==
  /\ phase = "open" /\ job = NoJob
  /\ NextId <= MaxBackups
  /\ job' = [kind |-> "backup", files |-> files,
             covers |-> (acked \cap Logged) \cup Joined(files)]
  /\ UNCHANGED <<dvars, backups, made>>

\* Flaw: a backup of the files only.
BackupLog_NoLog ==
  /\ phase = "open" /\ job # NoJob /\ job.kind = "backup"
  /\ buffered' = {}
  /\ backups' = [i \in BackupIds \cup {NextId} |->
                   IF i = NextId
                   THEN [files |-> job.files, log |-> {}, serial |-> made + 1]
                   ELSE backups[i]]
  /\ made' = made + 1
  /\ job' = NoJob
  /\ UNCHANGED <<phase, opts, hist, mem, files, wal, unsynced, torn, salvaged, told>>

BackupLog ==
  /\ phase = "open" /\ job # NoJob /\ job.kind = "backup"
  /\ buffered' = {}
  /\ backups' = [i \in BackupIds \cup {NextId} |->
                   IF i = NextId
                   THEN [files |-> job.files, log |-> wal, serial |-> made + 1]
                   ELSE backups[i]]
  /\ made' = made + 1
  /\ job' = NoJob
  /\ UNCHANGED <<phase, opts, hist, mem, files, wal, unsynced, torn, salvaged, told>>

\* Flaw: a checkpoint of the files and the log as they are.
CheckpointFlush_NoFlush ==
  /\ phase = "open" /\ job = NoJob
  /\ job' = [kind |-> "checkpoint", files |-> Empty, covers |-> acked]
  /\ UNCHANGED <<dvars, backups, made>>

(* create_checkpoint has to cover every write. *)
CheckpointFlush ==
  /\ phase = "open" /\ job = NoJob
  /\ files' = [f \in Families |-> Visible(f)]
  /\ mem' = Empty
  /\ IF Several THEN buffered' = {} /\ unsynced' = {} ELSE UNCHANGED <<buffered, unsynced>>
  /\ job' = [kind |-> "checkpoint", files |-> Empty, covers |-> acked]
  /\ UNCHANGED <<phase, opts, hist, wal, torn, salvaged, told, backups, made>>

\* It links the files and copies the log; what becomes of them is not followed.
CheckpointDir == [files |-> files, log |-> wal]

CheckpointCopy ==
  /\ phase = "open" /\ job # NoJob /\ job.kind = "checkpoint"
  /\ buffered' = {}
  /\ job' = NoJob
  /\ UNCHANGED <<phase, opts, hist, mem, files, wal, unsynced, torn, salvaged, told,
                 backups, made>>

(* purge_old_backups: the oldest go.  With none left, ids start again at 1. *)
Purge(keep) ==
  LET kept == {i \in BackupIds : Cardinality({j \in BackupIds : j > i}) < keep}
  IN  /\ job = NoJob
      /\ backups' = [i \in kept |-> backups[i]]
      /\ made' = IF kept = {} THEN 0 ELSE made
      /\ UNCHANGED <<dvars, job>>

I32 == -(MaxI32 + 1) .. MaxI32
AsU32(i) == i % (2 * (MaxI32 + 1))

\* Flaw: every negative id stands for the latest backup.
ChosenBackup_AnyNegative(arg) ==
  IF arg < 0 THEN (IF BackupIds = {} THEN {} ELSE {Greatest(BackupIds)})
  ELSE {arg} \cap BackupIds

(* backup_id is an i32: -1 stands for the latest, every other one is cast   *)
(* to u32.  Without such a backup nothing is touched.                       *)
ChosenBackup(arg) ==
  IF arg = -1 THEN (IF BackupIds = {} THEN {} ELSE {Greatest(BackupIds)})
  ELSE {AsU32(arg)} \cap BackupIds

(* restore_from_backup, over the path of the DB, which is not open; logs    *)
(* found there are removed (set_keep_log_files(false)).                     *)
Restore(arg) ==
  \E id \in ChosenBackup(arg) :
    /\ Install(backups[id].files, backups[id].log)
    /\ UNCHANGED bvars

-----------------------------------------------------------------------------
Init == /\ DurabilityInit
        /\ backups = [i \in {} |-> {}] /\ job = NoJob /\ made = 0

\* close waits for the call, which holds the DB's lock; a failure does not.
Next == \/ Serve /\ UNCHANGED bvars
        \/ Close /\ job = NoJob /\ UNCHANGED bvars
        \/ Fail /\ job' = NoJob /\ UNCHANGED <<backups, made>>
        \/ Offline /\ UNCHANGED bvars
        \/ BackupFiles \/ BackupLog
        \/ CheckpointFlush \/ CheckpointCopy
        \/ \E keep \in 0 .. MaxBackups : Purge(keep)
        \/ \E arg \in I32 : Restore(arg)

Spec == Init /\ [][Next]_vars

-----------------------------------------------------------------------------
FileSets == [Families -> SUBSET Ids]

TypeOK ==
  /\ DurabilityTypeOK
  /\ BackupIds \subseteq 1 .. MaxBackups
  /\ \A i \in BackupIds :
       backups[i] \in [files : FileSets, log : SUBSET Ids, serial : 1 .. MaxBackups]
  /\ job # NoJob => job \in [kind : {"backup", "checkpoint"}, files : FileSets,
                             covers : SUBSET Ids]
  /\ made \in 0 .. MaxBackups

\* The copy that a step completes, if it does.
Completed == IF made' > made THEN {backups'[Greatest(DOMAIN backups')]}
             ELSE IF CheckpointCopy THEN {CheckpointDir} ELSE {}

(* A copy contains every write the call had to cover, whatever was written  *)
(* or flushed meanwhile: for a backup those with a log or in a file (1073), *)
(* for a checkpoint all of them, those without a log too (1037).            *)
CopyCovers == [][\A dir \in Completed : job.covers \subseteq InDir(dir)]_vars

(* A copy made while writers and flushes go on is a state the DB could be   *)
(* found in after a crash: no logged write that readers see is missing in   *)
(* front of one that is there, and a batch is in all its families or none.  *)
CopyConsistent ==
  [][\A dir \in Completed : \A i \in InDir(dir) :
         /\ \A j \in acked \cap Logged : j < i => j \in InDir(dir)
         /\ hist[i].whole /\ i \notin dir.log =>
              \A f \in hist[i].families : i \in dir.files[f]]_vars

(* restore_from_backup brings back the backup that was made under the id    *)
(* asked for, the last one for -1, and nothing for other negative ids       *)
(* (1119): ids are not used twice until the directory is emptied.           *)
RestoreBringsBack ==
  [][\A arg \in I32 : Restore(arg) =>
       \E i \in BackupIds :
         /\ backups[i].serial = IF arg = -1 THEN made ELSE arg
         /\ files' = backups[i].files /\ wal' = backups[i].log]_vars
===============================================================================
