----------------------------- MODULE BackupProofs -----------------------------
(***************************************************************************)
(* For any families, batches, settings and number of backups: the DB keeps *)
(* its contract beside backups, checkpoints and restores, and every copy   *)
(* is one the DB could be found as.                                        *)
(***************************************************************************)
EXTENDS Backup, DurabilityProofs, FiniteSetTheorems

\* A directory holds writes, in their families, and whole batches.
GoodDir(dirFiles, dirLog) ==
  /\ dirFiles \in [Families -> SUBSET Writes]
  /\ dirLog \in SUBSET Logged
  /\ \A f \in Families : \A i \in dirFiles[f] : f \in hist[i].families
  /\ \A i \in Writes : hist[i].whole /\ Half(dirFiles, i) => i \in dirLog

\* Ids are counted by made, without gaps at the end.
Numbered ==
  /\ made \in 0 .. MaxBackups
  /\ BackupIds \subseteq 1 .. made
  /\ IF BackupIds = {} THEN made = 0 ELSE made \in BackupIds

GoodBackups ==
  \A i \in BackupIds :
    /\ backups[i] \in [files : FileSets, log : SUBSET Ids, serial : 1 .. MaxBackups]
    /\ backups[i].serial = i
    /\ GoodDir(backups[i].files, backups[i].log)

\* What is left to copy when the files have been copied is in the log.
JobSound ==
  job # NoJob =>
    /\ phase = "open"
    /\ job \in [kind : {"backup", "checkpoint"}, files : FileSets, covers : SUBSET Ids]
    /\ job.kind = "backup" =>
         /\ made < MaxBackups
         /\ GoodDir(job.files, wal)
         /\ job.covers \subseteq Joined(job.files) \cup wal
         /\ \A i \in acked : hist[i].logged => i \in Joined(job.files) \cup wal
    /\ job.kind = "checkpoint" => job.covers \subseteq InFiles \cup wal

BackupIInv == DurabilityIInv /\ Numbered /\ GoodBackups /\ JobSound

-----------------------------------------------------------------------------
(* The greatest id is the number of backups made. *)
LEMMA GreatestOf ==
  ASSUME NEW S \in SUBSET Nat, NEW m \in S, \A j \in S : j <= m
  PROVE  Greatest(S) = m
  <1>1. \A i \in S : (\A j \in S : j <= i) => i = m
    OBVIOUS
  <1>2. QED
    BY <1>1 DEF Greatest

LEMMA IdsCounted ==
  ASSUME Numbered
  PROVE  /\ made \in Nat /\ made <= MaxBackups
         /\ BackupIds \subseteq 1 .. made /\ BackupIds \in SUBSET Nat
         /\ \A j \in BackupIds : j \in Nat /\ j <= made /\ ~(j > made)
         /\ BackupIds # {} => made \in BackupIds
  <1>1. MaxBackups \in Nat /\ made \in 0 .. MaxBackups /\ BackupIds \subseteq 1 .. made
    BY BackupAssumption DEF Numbered
  <1>2. BackupIds # {} => made \in BackupIds
    BY DEF Numbered
  <1>3. QED
    BY <1>1, <1>2

LEMMA NextIdCounts == ASSUME Numbered PROVE NextId = made + 1
  <1>1. made \in Nat /\ BackupIds \in SUBSET Nat /\ \A j \in BackupIds : j <= made
    BY BackupAssumption DEF Numbered
  <1>2. CASE BackupIds = {}
    BY <1>1, <1>2 DEF Numbered, NextId
  <1>3. CASE BackupIds # {}
    <2>1. Greatest(BackupIds) = made
      BY <1>1, <1>3, GreatestOf DEF Numbered
    <2>2. QED
      BY <1>3, <2>1 DEF NextId
  <1>4. QED
    BY <1>2, <1>3

(* A step of the open DB only adds writes, to the log if they have one. *)
LEMMA ServeGrows ==
  ASSUME DurabilityIInv, Serve
  PROVE  /\ phase = "open" /\ phase' = "open"
         /\ Writes \subseteq Writes' /\ Logged \subseteq Logged'
         /\ \A i \in Writes : hist'[i] = hist[i]
         /\ \A i \in Writes' \ Writes : hist'[i].families \subseteq Families
         /\ wal \subseteq wal' /\ InFiles \subseteq InFiles'
         /\ \A i \in acked' : hist'[i].logged => (i \in acked /\ hist[i].logged) \/ i \in wal'
  <1> USE Places
  <1>1. ASSUME NEW s \in Shapes, NEW t \in WriteTerms, NEW r \in Roles, Write(s, t, r)
        PROVE  /\ phase = "open" /\ phase' = "open"
               /\ Writes \subseteq Writes' /\ Logged \subseteq Logged'
               /\ \A i \in Writes : hist'[i] = hist[i]
               /\ \A i \in Writes' \ Writes : hist'[i].families \subseteq Families
               /\ wal \subseteq wal' /\ InFiles \subseteq InFiles'
               /\ \A i \in acked' :
                    hist'[i].logged => (i \in acked /\ hist[i].logged) \/ i \in wal'
    <2> DEFINE n == Len(hist) + 1
    <2>1. /\ Writes' = Writes \cup {n} /\ \A i \in Writes : hist'[i] = hist[i]
          /\ hist'[n].families = s /\ hist'[n].logged = ~Flag(t, "disable_wal")
          /\ Logged \subseteq Logged'
      BY <1>1, OneMoreWrite DEF DurabilityIInv
    <2>2. /\ phase = "open" /\ phase' = "open" /\ files' = files /\ acked' = acked \cup {n}
          /\ IF Flag(t, "disable_wal") THEN wal' = wal ELSE wal' = wal \cup {n}
      BY <1>1 DEF Write, LogWrite
    <2>3. InFiles' = InFiles
      BY <2>2 DEF InFiles, Joined
    <2>4. s \subseteq Families
      BY DurabilityAssumption
    <2> HIDE DEF n
    <2>5. QED
      BY <2>1, <2>2, <2>3, <2>4
  <1>2. ASSUME NEW b \in BOOLEAN, FlushWal(b)
        PROVE  /\ phase = "open"
               /\ UNCHANGED <<phase, hist, wal, InFiles, acked>>
    BY <1>2 DEF FlushWal, InFiles, Joined
  <1>3. ASSUME NEW some \in SUBSET Families, NEW k \in Writes, MemFlush(some, k)
        PROVE  /\ phase = "open"
               /\ UNCHANGED <<phase, hist, wal, acked>> /\ InFiles \subseteq InFiles'
    <2>1. \A f \in Families : files[f] \subseteq files'[f]
      BY <1>3 DEF MemFlush
    <2>2. \A i : i \in InFiles' <=> \E f \in Families : i \in files'[f]
      BY DEF InFiles, Joined
    <2>3. QED
      BY <1>3, <2>1, <2>2 DEF MemFlush, told
  <1>4. QED
    BY <1>1, <1>2, <1>3, SameWrites DEF Serve

(* A directory stays good when writes are added to the DB. *)
LEMMA GoodDirStays ==
  ASSUME Writes \subseteq Writes', Logged \subseteq Logged',
         \A i \in Writes : hist'[i] = hist[i],
         \A i \in Writes' \ Writes : hist'[i].families \subseteq Families,
         NEW dirFiles, NEW dirLog, GoodDir(dirFiles, dirLog)
  PROVE  GoodDir(dirFiles, dirLog)'
  <1>1. dirFiles \in [Families -> SUBSET Writes] /\ dirLog \in SUBSET Logged
    BY DEF GoodDir
  <1>2. \A f \in Families : \A i \in dirFiles[f] : f \in hist'[i].families
    BY <1>1 DEF GoodDir
  <1>3. ASSUME NEW i \in Writes', hist'[i].whole, Half(dirFiles, i)' PROVE i \in dirLog
    <2>1. PICK f \in hist'[i].families, g \in hist'[i].families :
            i \in dirFiles[f] /\ i \notin dirFiles[g]
      BY <1>3 DEF Half
    <2>2. i \in Writes
      BY <1>1, <2>1
    <2>3. Half(dirFiles, i)
      BY <2>1, <2>2 DEF Half
    <2>4. QED
      BY <1>3, <2>2, <2>3 DEF GoodDir
  <1>4. dirFiles \in [Families -> SUBSET Writes'] /\ dirLog \in SUBSET Logged'
    BY <1>1
  <1>5. QED
    BY <1>2, <1>3, <1>4 DEF GoodDir

LEMMA BackupInitIInv == Init => BackupIInv
  <1> SUFFICES ASSUME Init PROVE BackupIInv
    OBVIOUS
  <1>1. DurabilityIInv
    BY DurabilityInitIInv DEF Init
  <1>2. BackupIds = {} /\ job = NoJob /\ made = 0
    BY DEF Init, BackupIds
  <1>3. Numbered /\ GoodBackups /\ JobSound
    BY <1>2, BackupAssumption DEF Numbered, GoodBackups, JobSound
  <1>4. QED
    BY <1>1, <1>3 DEF BackupIInv

(* Backups stay what they are when the DB goes on and they do not change. *)
LEMMA GoodBackupsStay ==
  ASSUME GoodBackups, UNCHANGED backups,
         Writes \subseteq Writes', Logged \subseteq Logged',
         \A i \in Writes : hist'[i] = hist[i],
         \A i \in Writes' \ Writes : hist'[i].families \subseteq Families
  PROVE  GoodBackups'
  <1> SUFFICES ASSUME NEW i \in BackupIds
               PROVE  /\ backups[i] \in [files : FileSets, log : SUBSET Ids,
                                         serial : 1 .. MaxBackups]
                      /\ backups[i].serial = i
                      /\ GoodDir(backups[i].files, backups[i].log)'
    BY DEF GoodBackups, BackupIds, FileSets, Ids
  <1>1. /\ backups[i] \in [files : FileSets, log : SUBSET Ids, serial : 1 .. MaxBackups]
        /\ backups[i].serial = i
        /\ GoodDir(backups[i].files, backups[i].log)
    BY DEF GoodBackups
  <1>2. PICK df, dl : df = backups[i].files /\ dl = backups[i].log
    OBVIOUS
  <1>3. GoodDir(df, dl)
    BY <1>1, <1>2 DEF GoodDir, Half
  <1>4. GoodDir(df, dl)'
    BY <1>3, GoodDirStays
  <1>5. GoodDir(backups[i].files, backups[i].log)'
    BY <1>2, <1>4 DEF GoodDir, Half
  <1>6. QED
    BY <1>1, <1>5

(* Calls on the DB beside a backup or checkpoint that runs. *)
LEMMA ServeStep == ASSUME BackupIInv, Serve, UNCHANGED bvars PROVE BackupIInv'
  <1>1. DurabilityIInv'
    BY DurabilityNextIInv DEF BackupIInv, DurabilityNext
  <1>2. /\ phase = "open" /\ phase' = "open"
        /\ Writes \subseteq Writes' /\ Logged \subseteq Logged'
        /\ \A i \in Writes : hist'[i] = hist[i]
        /\ \A i \in Writes' \ Writes : hist'[i].families \subseteq Families
        /\ wal \subseteq wal' /\ InFiles \subseteq InFiles'
        /\ \A i \in acked' : hist'[i].logged => (i \in acked /\ hist[i].logged) \/ i \in wal'
    BY ServeGrows DEF BackupIInv
  <1>3. UNCHANGED <<backups, job, made>>
    BY DEF bvars
  <1>4. Numbered' /\ GoodBackups'
    BY <1>2, <1>3, GoodBackupsStay DEF BackupIInv, Numbered, BackupIds
  <1>5. JobSound'
    <2> SUFFICES ASSUME job # NoJob PROVE JobSound'
      BY <1>3 DEF JobSound
    <2>1. CASE job.kind = "backup"
      <3>1. PICK df, dl : df = job.files /\ dl = wal
        OBVIOUS
      <3>2. GoodDir(df, dl)
        BY <2>1, <3>1 DEF BackupIInv, JobSound, GoodDir, Half
      <3>3. GoodDir(df, dl)'
        BY <1>2, <3>2, GoodDirStays
      <3>4. wal' \in SUBSET Logged'
        BY <1>1 DEF DurabilityIInv, DurabilityTypeOK
      <3>5. GoodDir(job.files, wal)'
        BY <1>2, <1>3, <3>1, <3>3, <3>4 DEF GoodDir, Half
      <3>6. Joined(job.files)' = Joined(job.files)
        BY <1>3 DEF Joined
      <3>7. QED
        BY <1>2, <1>3, <2>1, <3>5, <3>6 DEF BackupIInv, JobSound, FileSets, Ids
    <2>2. CASE job.kind = "checkpoint"
      BY <1>2, <1>3, <2>2 DEF BackupIInv, JobSound, FileSets, Ids
    <2>3. job.kind \in {"backup", "checkpoint"}
      BY DEF BackupIInv, JobSound
    <2>4. QED
      BY <2>1, <2>2, <2>3
  <1>6. QED
    BY <1>1, <1>4, <1>5 DEF BackupIInv

(* Without a call that runs, or when it ends: stops, recovery, tools. *)
LEMMA QuietStep ==
  ASSUME BackupIInv, DurabilityIInv', UNCHANGED <<hist, backups, made>>, job' = NoJob
  PROVE  BackupIInv'
  <1>1. Numbered' /\ GoodBackups'
    BY SameWrites, GoodBackupsStay DEF BackupIInv, Numbered, BackupIds
  <1>2. QED
    BY <1>1 DEF BackupIInv, JobSound

LEMMA OfflineStep ==
  ASSUME BackupIInv, \/ Close /\ job = NoJob /\ UNCHANGED bvars
                     \/ Fail /\ job' = NoJob /\ UNCHANGED <<backups, made>>
                     \/ Offline /\ UNCHANGED bvars
  PROVE  BackupIInv'
  <1>1. DurabilityIInv'
    BY DurabilityNextIInv DEF BackupIInv, DurabilityNext
  <1>2. UNCHANGED hist
    BY DEF Close, Fail, Halt, PowerLoss, Offline, Reopen, Repair, Destroy, Install
  <1>3. job' = NoJob /\ UNCHANGED <<backups, made>>
    BY DEF bvars, Offline, Reopen, Repair, Destroy, Install, BackupIInv, JobSound
  <1>4. QED
    BY <1>1, <1>2, <1>3, QuietStep

(* The files of the DB are a good directory beside its log. *)
LEMMA OwnFilesGood == ASSUME DurabilityIInv, phase = "open" PROVE GoodDir(files, wal)
  BY Places DEF GoodDir, DurabilityIInv, InItsFamilies, HalfLogged

LEMMA BackupFilesStep == ASSUME BackupIInv, BackupFiles PROVE BackupIInv'
  <1> USE Places
  <1>1. /\ phase = "open" /\ job = NoJob /\ NextId <= MaxBackups
        /\ job' = [kind |-> "backup", files |-> files,
                   covers |-> (acked \cap Logged) \cup Joined(files)]
        /\ UNCHANGED <<dvars, backups, made>>
    BY DEF BackupFiles
  <1>2. UNCHANGED <<phase, hist, wal, acked, files>>
    BY <1>1 DEF dvars, engine, told
  <1>3. DurabilityIInv /\ DurabilityIInv'
    BY <1>1, DurabilityStutter DEF BackupIInv
  <1>4. Numbered' /\ GoodBackups'
    BY <1>1, <1>2, SameWrites, GoodBackupsStay DEF BackupIInv, Numbered, BackupIds
  <1>5. made < MaxBackups
    BY <1>1, NextIdCounts, BackupAssumption DEF BackupIInv, Numbered
  <1>6. GoodDir(job.files, wal)'
    <2>1. GoodDir(files, wal)
      BY <1>1, <1>3, OwnFilesGood
    <2>2. QED
      BY <1>1, <1>2, <2>1, SameWrites DEF GoodDir, Half
  <1>7. job' \in [kind : {"backup", "checkpoint"}, files : FileSets, covers : SUBSET Ids]
    <2>1. Writes \subseteq Ids
      BY <1>3, DurabilityAssumption DEF DurabilityIInv, DurabilityTypeOK, Writes, Ids
    <2>2. files \in FileSets /\ (acked \cap Logged) \cup Joined(files) \subseteq Ids
      BY <1>3, <2>1 DEF FileSets, InFiles
    <2>3. QED
      BY <1>1, <2>2
  <1>8. \A i \in acked : hist[i].logged => i \in Joined(files) \cup wal
    BY <1>1, <1>3 DEF InFiles
  <1>9. JobSound'
    <2>1. Joined(job.files)' = Joined(files)
      BY <1>1 DEF Joined
    <2>2. job'.covers \subseteq Joined(files) \cup wal
      BY <1>1, <1>8 DEF Logged
    <2>3. QED
      BY <1>1, <1>2, <1>5, <1>6, <1>7, <1>8, <2>1, <2>2 DEF JobSound, FileSets, Ids
  <1>10. QED
    BY <1>3, <1>4, <1>9 DEF BackupIInv

(* What BackupLog adds to the directory. *)
LEMMA BackupLogAdds ==
  ASSUME BackupIInv, BackupLog
  PROVE  /\ DOMAIN backups' = BackupIds \cup {made + 1}
         /\ \A i \in BackupIds : backups'[i] = backups[i]
         /\ backups'[made + 1] = [files |-> job.files, log |-> wal, serial |-> made + 1]
         /\ made + 1 \in 1 .. MaxBackups /\ made \in Nat /\ made + 1 \notin BackupIds
  <1>1. NextId = made + 1
    BY NextIdCounts DEF BackupIInv
  <1>2. made \in Nat /\ made < MaxBackups /\ made + 1 \notin BackupIds
    BY BackupAssumption DEF BackupLog, BackupIInv, JobSound, Numbered
  <1>3. backups' = [i \in BackupIds \cup {made + 1} |->
                      IF i = made + 1
                      THEN [files |-> job.files, log |-> wal, serial |-> made + 1]
                      ELSE backups[i]]
    BY <1>1 DEF BackupLog
  <1>4. QED
    BY <1>2, <1>3, BackupAssumption

LEMMA BackupLogStep == ASSUME BackupIInv, BackupLog PROVE BackupIInv'
  <1> USE Places
  <1>1. /\ phase = "open" /\ job # NoJob /\ job.kind = "backup" /\ buffered' = {}
        /\ made' = made + 1 /\ job' = NoJob
        /\ UNCHANGED <<phase, opts, hist, mem, files, wal, unsynced, torn, salvaged,
                       acked, handed, durable>>
    BY DEF BackupLog, told
  <1>2. DurabilityIInv /\ DurabilityIInv'
    BY <1>1, LogHandedOver DEF BackupIInv
  <1>3. /\ DOMAIN backups' = BackupIds \cup {made + 1}
        /\ \A i \in BackupIds : backups'[i] = backups[i]
        /\ backups'[made + 1] = [files |-> job.files, log |-> wal, serial |-> made + 1]
        /\ made + 1 \in 1 .. MaxBackups /\ made \in Nat
    BY BackupLogAdds
  <1>4. Numbered'
    BY <1>1, <1>3 DEF BackupIInv, Numbered, BackupIds
  <1>5. GoodDir(job.files, wal) /\ job.files \in FileSets /\ wal \in SUBSET Ids
    <2>1. Writes \subseteq Ids
      BY <1>2, DurabilityAssumption DEF DurabilityIInv, DurabilityTypeOK, Writes, Ids
    <2>2. QED
      BY <1>1, <1>2, <2>1 DEF BackupIInv, JobSound
  <1>6. GoodBackups'
    <2> SUFFICES ASSUME NEW i \in BackupIds \cup {made + 1}
                 PROVE  /\ backups'[i] \in [files : FileSets, log : SUBSET Ids,
                                            serial : 1 .. MaxBackups]
                        /\ backups'[i].serial = i
                        /\ GoodDir(backups[i].files, backups[i].log)'
      BY <1>3 DEF GoodBackups, BackupIds, FileSets, Ids
    <2>1. CASE i \in BackupIds
      <3>1. PICK df, dl : df = backups[i].files /\ dl = backups[i].log
        OBVIOUS
      <3>2. GoodDir(df, dl) /\ backups[i].serial = i
            /\ backups[i] \in [files : FileSets, log : SUBSET Ids, serial : 1 .. MaxBackups]
        BY <2>1, <3>1 DEF BackupIInv, GoodBackups, GoodDir, Half
      <3>3. GoodDir(backups[i].files, backups[i].log)'
        BY <1>1, <1>3, <2>1, <3>1, <3>2, SameWrites DEF GoodDir, Half
      <3>4. QED
        BY <1>3, <2>1, <3>2, <3>3
    <2>2. CASE i = made + 1
      <3>1. backups'[i] = [files |-> job.files, log |-> wal, serial |-> made + 1]
        BY <1>3, <2>2
      <3>2. GoodDir(backups[i].files, backups[i].log)'
        BY <1>1, <1>5, <3>1, SameWrites DEF GoodDir, Half
      <3>3. QED
        BY <1>3, <2>2, <1>5, <3>1, <3>2
    <2>3. QED
      BY <2>1, <2>2
  <1>7. QED
    BY <1>1, <1>2, <1>4, <1>6 DEF BackupIInv, JobSound

LEMMA CheckpointFlushStep == ASSUME BackupIInv, CheckpointFlush PROVE BackupIInv'
  <1> USE Places
  <1>1. /\ phase = "open" /\ job = NoJob
        /\ files' = [f \in Families |-> Visible(f)] /\ mem' = Empty
        /\ IF Several THEN buffered' = {} /\ unsynced' = {} ELSE UNCHANGED <<buffered, unsynced>>
        /\ job' = [kind |-> "checkpoint", files |-> Empty, covers |-> acked]
        /\ UNCHANGED <<phase, opts, hist, wal, torn, salvaged, told, backups, made>>
    BY DEF CheckpointFlush
  <1>2. DurabilityIInv
    BY DEF BackupIInv
  <1>3. Len(hist) \in Nat /\ \A i \in Writes : i <= Len(hist)
    BY <1>2, EntryTyped DEF DurabilityIInv, DurabilityTypeOK
  <1>4. Flushed(Families, Len(hist))
    <2>1. \A f \in Families : {i \in mem[f] : i <= Len(hist)} = mem[f]
      BY <1>2, <1>3
    <2>2. /\ {i \in buffered : i <= Len(hist)} = buffered
          /\ {i \in unsynced : i <= Len(hist)} = unsynced
      BY <1>2, <1>3
    <2>3. files' = [f \in Families |-> IF f \in Families
                      THEN files[f] \cup {i \in mem[f] : i <= Len(hist)} ELSE files[f]]
      BY <1>1, <2>1 DEF Visible
    <2>4. mem' = [f \in Families |-> IF f \in Families
                    THEN mem[f] \ {i \in mem[f] : i <= Len(hist)} ELSE mem[f]]
      BY <1>1, <2>1 DEF Empty
    <2>5. QED
      BY <1>1, <2>2, <2>3, <2>4 DEF Flushed
  <1>5. DurabilityIInv'
    BY <1>1, <1>2, <1>3, <1>4, FlushedStep
  <1>6. Numbered' /\ GoodBackups'
    BY <1>1, SameWrites, GoodBackupsStay DEF BackupIInv, Numbered, BackupIds
  <1>7. JobSound'
    <2>1. acked \subseteq Ids
      BY <1>2, DurabilityAssumption DEF DurabilityIInv, DurabilityTypeOK, Writes, Ids
    <2>2. Empty \in FileSets
      BY DEF Empty, FileSets
    <2>3. acked \subseteq InFiles'
      <3>1. \A i : i \in InFiles' <=> \E f \in Families : i \in files'[f]
        BY DEF InFiles, Joined
      <3>2. QED
        BY <1>1, <1>2, <3>1
    <2>4. /\ job'.kind = "checkpoint" /\ job'.covers = acked /\ phase' = "open"
          /\ job' \in [kind : {"backup", "checkpoint"}, files : FileSets, covers : SUBSET Ids]
      BY <1>1, <2>1, <2>2
    <2>5. QED
      BY <2>3, <2>4 DEF JobSound, FileSets, Ids
  <1>8. QED
    BY <1>5, <1>6, <1>7 DEF BackupIInv

LEMMA CheckpointCopyStep == ASSUME BackupIInv, CheckpointCopy PROVE BackupIInv'
  <1>1. /\ phase = "open" /\ buffered' = {} /\ job' = NoJob
        /\ UNCHANGED <<phase, opts, hist, mem, files, wal, unsynced, torn, salvaged,
                       acked, handed, durable, backups, made>>
    BY DEF CheckpointCopy, told
  <1>2. DurabilityIInv'
    BY <1>1, Places, LogHandedOver DEF BackupIInv
  <1>3. QED
    BY <1>1, <1>2, QuietStep

(* A purge that leaves a backup leaves the last one. *)
LEMMA PurgeStep == ASSUME BackupIInv, NEW keep \in Nat, Purge(keep) PROVE BackupIInv'
  <1> DEFINE newer(i) == {j \in BackupIds : j > i}
             kept == {i \in BackupIds : Cardinality(newer(i)) < keep}
  <1>1. /\ job = NoJob /\ backups' = [i \in kept |-> backups[i]]
        /\ made' = IF kept = {} THEN 0 ELSE made
        /\ UNCHANGED <<dvars, job>>
    BY DEF Purge
  <1>2. /\ made \in Nat /\ made <= MaxBackups /\ BackupIds \subseteq 1 .. made
        /\ \A j \in BackupIds : ~(j > made)
        /\ BackupIds # {} => made \in BackupIds
    BY IdsCounted DEF BackupIInv
  <1>3. ASSUME NEW i \in kept PROVE made \in kept
    <2>1. IsFiniteSet(newer(i))
      <3>1. IsFiniteSet(1 .. made)
        BY <1>2, FS_Interval
      <3>2. newer(i) \subseteq 1 .. made
        BY <1>2
      <3>3. QED
        BY <3>1, <3>2, FS_Subset
    <2>2. Cardinality(newer(i)) \in Nat
      BY <2>1, FS_CardinalityType
    <2>3. Cardinality(newer(i)) < keep
      BY <1>3
    <2> HIDE DEF newer
    <2>4. 0 < keep
      BY <2>2, <2>3
    <2>5. newer(made) = {}
      BY <1>2 DEF newer
    <2>6. Cardinality(newer(made)) < keep
      BY <2>4, <2>5, FS_EmptySet
    <2>7. QED
      BY <1>2, <1>3, <2>6
  <1>4. kept \subseteq BackupIds
    OBVIOUS
  <1> HIDE DEF kept
  <1>5. UNCHANGED hist /\ DurabilityIInv'
    BY <1>1, DurabilityStutter DEF BackupIInv, dvars, engine
  <1>6. DOMAIN backups' = kept /\ \A i \in kept : backups'[i] = backups[i]
    BY <1>1
  <1>7. Numbered'
    BY <1>1, <1>2, <1>3, <1>4, <1>6, BackupAssumption DEF Numbered, BackupIds
  <1>8. GoodBackups'
    <2> SUFFICES ASSUME NEW i \in kept
                 PROVE  /\ backups'[i] \in [files : FileSets, log : SUBSET Ids,
                                            serial : 1 .. MaxBackups]
                        /\ backups'[i].serial = i
                        /\ GoodDir(backups[i].files, backups[i].log)'
      BY <1>6 DEF GoodBackups, BackupIds, FileSets, Ids
    <2>1. PICK df, dl : df = backups[i].files /\ dl = backups[i].log
      OBVIOUS
    <2>2. GoodDir(df, dl) /\ backups[i].serial = i
          /\ backups[i] \in [files : FileSets, log : SUBSET Ids, serial : 1 .. MaxBackups]
      BY <1>4, <2>1 DEF BackupIInv, GoodBackups, GoodDir, Half
    <2>3. GoodDir(backups[i].files, backups[i].log)'
      BY <1>5, <1>6, <2>1, <2>2, SameWrites DEF GoodDir, Half
    <2>4. QED
      BY <1>6, <2>2, <2>3
  <1>9. QED
    BY <1>1, <1>5, <1>7, <1>8 DEF BackupIInv, JobSound

(* A restore puts in place what a backup has. *)
LEMMA RestoreInstalls ==
  ASSUME BackupIInv, NEW arg, Restore(arg)
  PROVE  \E df \in [Families -> SUBSET Writes], dl \in SUBSET Logged :
           GoodDir(df, dl) /\ Install(df, dl) /\ UNCHANGED bvars
  <1>1. PICK id \in ChosenBackup(arg) :
          Install(backups[id].files, backups[id].log) /\ UNCHANGED bvars
    BY DEF Restore
  <1>2. id \in BackupIds
    <2>1. CASE arg = -1 /\ BackupIds # {}
      <3>1. made \in BackupIds /\ BackupIds \in SUBSET Nat /\ \A j \in BackupIds : j <= made
        BY <2>1, IdsCounted DEF BackupIInv
      <3>2. Greatest(BackupIds) = made
        BY <3>1, GreatestOf
      <3>3. QED
        BY <1>1, <2>1, <3>1, <3>2 DEF ChosenBackup
    <2>2. CASE ~(arg = -1 /\ BackupIds # {})
      BY <1>1, <2>2 DEF ChosenBackup
    <2>3. QED
      BY <2>1, <2>2
  <1>3. PICK df, dl : df = backups[id].files /\ dl = backups[id].log
    OBVIOUS
  <1>4. GoodDir(df, dl)
    BY <1>2, <1>3 DEF BackupIInv, GoodBackups, GoodDir, Half
  <1>5. Install(df, dl)
    BY <1>1, <1>3 DEF Install
  <1>6. QED
    BY <1>1, <1>4, <1>5 DEF GoodDir

LEMMA RestoreStep == ASSUME BackupIInv, NEW arg, Restore(arg) PROVE BackupIInv'
  <1>1. PICK df \in [Families -> SUBSET Writes], dl \in SUBSET Logged :
          GoodDir(df, dl) /\ Install(df, dl) /\ UNCHANGED bvars
    BY RestoreInstalls
  <1>2. DurabilityIInv'
    BY <1>1, InstallStep DEF GoodDir, BackupIInv
  <1>3. UNCHANGED <<hist, backups, made>> /\ job' = NoJob
    BY <1>1 DEF Install, bvars, BackupIInv, JobSound
  <1>4. QED
    BY <1>2, <1>3, QuietStep

LEMMA BackupNextIInv == BackupIInv /\ [Next]_vars => BackupIInv'
  <1> SUFFICES ASSUME BackupIInv, [Next]_vars PROVE BackupIInv'
    OBVIOUS
  <1>1. CASE UNCHANGED vars
    <2>1. DurabilityIInv' /\ UNCHANGED <<hist, phase, wal, acked, InFiles, bvars>>
      BY <1>1, DurabilityStutter
      DEF BackupIInv, vars, dvars, engine, told, InFiles, Joined
    <2>2. Numbered' /\ GoodBackups'
      BY <2>1, SameWrites, GoodBackupsStay DEF BackupIInv, bvars, Numbered, BackupIds
    <2>3. JobSound'
      BY <2>1, SameWrites
      DEF BackupIInv, bvars, JobSound, GoodDir, Half, Joined, FileSets, Ids
    <2>4. QED
      BY <2>1, <2>2, <2>3 DEF BackupIInv
  <1>2. ASSUME NEW keep \in 0 .. MaxBackups, Purge(keep) PROVE BackupIInv'
    BY <1>2, PurgeStep
  <1>3. QED
    BY <1>1, <1>2, ServeStep, OfflineStep, BackupFilesStep, BackupLogStep,
       CheckpointFlushStep, CheckpointCopyStep, RestoreStep DEF Next

LEMMA BackupInvariant == Spec => []BackupIInv
  BY BackupInitIInv, BackupNextIInv, PTL DEF Spec

-----------------------------------------------------------------------------
(* What the run backup checks, for every instance. *)

(* Every variable keeps its type. *)
THEOREM TypeCorrectness == Spec => []TypeOK
  <1>1. BackupIInv => TypeOK
    BY BackupAssumption
    DEF BackupIInv, DurabilityIInv, Numbered, GoodBackups, JobSound, TypeOK
  <1>2. QED
    BY <1>1, BackupInvariant, PTL

(* A batch with the log, or under atomic_flush, is in all of its families or
   in none: after flushes, crashes, replays, repair and restore too. *)
THEOREM BatchesStayWhole == Spec => []BatchWhole
  <1>1. BackupIInv => BatchWhole
    BY DEF BackupIInv, DurabilityIInv
  <1>2. QED
    BY <1>1, BackupInvariant, PTL

(* A reader of an open DB finds what was acknowledged, no more and no less. *)
THEOREM ReadersFindAcked == Spec => []StoreShowsAcked
  <1>1. BackupIInv => StoreShowsAcked
    BY DEF BackupIInv, DurabilityIInv, Known
  <1>2. QED
    BY <1>1, BackupInvariant, PTL

(* The DB keeps the contract CrashStore while backups and checkpoints are
   made and restored. *)
THEOREM CrashSafetyWithBackups == Spec => ImplementsCrashStore
  <1>1. Init => Contract!Init
    BY DurabilityInitAllowed DEF Init
  <1>2. BackupIInv /\ [Next]_vars => [Contract!Next]_Contract!vars
    <2> SUFFICES ASSUME BackupIInv, [Next]_vars PROVE [Contract!Next]_Contract!vars
      OBVIOUS
    <2>1. CASE Serve \/ Close \/ Fail \/ Offline
      BY <2>1, DurabilityStepAllowed DEF BackupIInv, DurabilityNext
    <2>2. CASE UNCHANGED vars \/ BackupFiles \/ \E keep \in 0 .. MaxBackups : Purge(keep)
      BY <2>2, DurabilityStepAllowed DEF BackupIInv, vars, BackupFiles, Purge
    <2>3. CASE BackupLog \/ CheckpointFlush \/ CheckpointCopy
      BY <2>3, SameWrites DEF BackupLog, CheckpointFlush, CheckpointCopy, told, Contract!vars
    <2>4. CASE \E arg \in I32 : Restore(arg)
      BY <2>4, RestoreInstalls, InstallIsReplace DEF BackupIInv, Contract!Next
    <2>5. QED
      BY <2>1, <2>2, <2>3, <2>4 DEF Next
  <1>3. QED
    BY <1>1, <1>2, BackupInvariant, PTL DEF Spec, ImplementsCrashStore, Contract!Spec

-----------------------------------------------------------------------------
(* Only the end of create_backup counts one more. *)
LEMMA OnlyBackupLogCounts ==
  ASSUME BackupIInv, [Next]_vars, made' > made
  PROVE  BackupLog
  <1>1. made \in Nat /\ ~(made > made) /\ ~(0 > made)
    BY IdsCounted DEF BackupIInv
  <1>2. made' # made /\ made' # 0
    BY <1>1
  <1>3. ~UNCHANGED made
    BY <1>2
  <1>4. \A keep \in 0 .. MaxBackups : ~Purge(keep)
    BY <1>2 DEF Purge
  <1>5. \A arg \in I32 : ~Restore(arg)
    BY <1>3 DEF Restore, bvars
  <1>6. QED
    BY <1>3, <1>4, <1>5
    DEF Next, vars, bvars, BackupFiles, CheckpointFlush, CheckpointCopy

(* The copy a step completes: the files copied before, and the log of now. *)
LEMMA CompletedCopy ==
  ASSUME BackupIInv, [Next]_vars, NEW dir \in Completed
  PROVE  /\ phase = "open" /\ job # NoJob /\ dir.log = wal
         /\ \/ job.kind = "backup" /\ dir.files = job.files
            \/ job.kind = "checkpoint" /\ dir.files = files
  <1>1. CASE made' > made
    <2>1. BackupLog
      BY <1>1, OnlyBackupLogCounts
    <2>2. /\ DOMAIN backups' = BackupIds \cup {made + 1}
          /\ backups'[made + 1] = [files |-> job.files, log |-> wal, serial |-> made + 1]
          /\ made \in Nat
      BY <2>1, BackupLogAdds
    <2>3. DOMAIN backups' \in SUBSET Nat /\ \A j \in DOMAIN backups' : j <= made + 1
      BY <2>2, IdsCounted DEF BackupIInv
    <2>4. Greatest(DOMAIN backups') = made + 1
      BY <2>2, <2>3, GreatestOf
    <2>5. dir = backups'[made + 1]
      BY <1>1, <2>4 DEF Completed
    <2>6. QED
      BY <2>1, <2>2, <2>5 DEF BackupLog
  <1>2. CASE ~(made' > made)
    <2>1. CheckpointCopy /\ dir = CheckpointDir
      BY <1>2 DEF Completed
    <2>2. QED
      BY <2>1 DEF CheckpointCopy, CheckpointDir
  <1>3. QED
    BY <1>1, <1>2

(* A copy has every write the call had to cover, whatever was written or
   flushed meanwhile. *)
THEOREM CopiesCover == Spec => CopyCovers
  <1>1. ASSUME BackupIInv, [Next]_vars, NEW dir \in Completed
        PROVE  job.covers \subseteq InDir(dir)
    BY <1>1, CompletedCopy DEF BackupIInv, JobSound, InDir, InFiles
  <1>2. BackupIInv /\ [Next]_vars => \A dir \in Completed : job.covers \subseteq InDir(dir)
    BY <1>1
  <1>3. QED
    BY <1>2, BackupInvariant, PTL DEF Spec, CopyCovers

(* A copy is a state the DB could be found in after a crash: no logged write
   missing in front of one that is there, and whole batches. *)
THEOREM CopiesConsistent == Spec => CopyConsistent
  <1>1. ASSUME BackupIInv, [Next]_vars, NEW dir \in Completed, NEW i \in InDir(dir)
        PROVE  /\ \A j \in acked \cap Logged : j < i => j \in InDir(dir)
               /\ hist[i].whole /\ i \notin dir.log =>
                    \A f \in hist[i].families : i \in dir.files[f]
    <2>1. DurabilityIInv /\ phase = "open"
      BY <1>1, CompletedCopy DEF BackupIInv
    <2>2. PICK df, dl : df = dir.files /\ dl = dir.log
      OBVIOUS
    <2>3. GoodDir(df, dl)
      BY <1>1, <2>1, <2>2, CompletedCopy, OwnFilesGood DEF BackupIInv, JobSound, GoodDir, Half
    <2>4. \A j \in acked \cap Logged : j \in InDir(dir)
      BY <1>1, <2>1, CompletedCopy, Places
      DEF BackupIInv, JobSound, InDir, InFiles, Logged
    <2>5. ASSUME hist[i].whole, i \notin dir.log, NEW f \in hist[i].families
          PROVE  i \in dir.files[f]
      <3>1. PICK g \in Families : i \in df[g]
        BY <1>1, <2>2, <2>5, JoinedMember DEF InDir
      <3>2. i \in Writes /\ g \in hist[i].families
        BY <2>3, <3>1 DEF GoodDir
      <3>3. ~Half(df, i)
        BY <2>2, <2>3, <2>5, <3>2 DEF GoodDir
      <3>4. QED
        BY <2>2, <2>5, <3>1, <3>2, <3>3 DEF Half
    <2>6. QED
      BY <2>4, <2>5
  <1>2. BackupIInv /\ [Next]_vars =>
          \A dir \in Completed : \A i \in InDir(dir) :
            /\ \A j \in acked \cap Logged : j < i => j \in InDir(dir)
            /\ hist[i].whole /\ i \notin dir.log =>
                 \A f \in hist[i].families : i \in dir.files[f]
    BY <1>1
  <1>3. QED
    BY <1>2, BackupInvariant, PTL DEF Spec, CopyConsistent

(* A cast to u32 keeps an id and takes a negative number beyond every id. *)
LEMMA CastOfId ==
  ASSUME NEW arg \in I32, AsU32(arg) \in 1 .. MaxI32
  PROVE  AsU32(arg) = arg
  <1>1. MaxI32 \in Nat /\ arg \in Int /\ -(MaxI32 + 1) <= arg /\ arg <= MaxI32
    BY BackupAssumption DEF I32
  <1>2. CASE arg < 0
    <2>1. AsU32(arg) = arg + 2 * (MaxI32 + 1)
      BY <1>1, <1>2 DEF AsU32
    <2>2. QED
      BY <1>1, <2>1
  <1>3. CASE 0 <= arg
    BY <1>1, <1>3 DEF AsU32
  <1>4. QED
    BY <1>1, <1>2, <1>3

(* A restore brings back the backup that was made under the id asked for,
   the last one for -1, and nothing for any other negative id. *)
THEOREM RestoresBringBack == Spec => RestoreBringsBack
  <1>1. ASSUME BackupIInv, NEW arg \in I32, Restore(arg)
        PROVE  \E i \in BackupIds :
                 /\ backups[i].serial = IF arg = -1 THEN made ELSE arg
                 /\ files' = backups[i].files /\ wal' = backups[i].log
    <2>1. PICK id \in ChosenBackup(arg) : Install(backups[id].files, backups[id].log)
      BY <1>1 DEF Restore
    <2>2. files' = backups[id].files /\ wal' = backups[id].log
      BY <2>1 DEF Install
    <2>3. \A i \in BackupIds : backups[i].serial = i
      BY <1>1 DEF BackupIInv, GoodBackups
    <2>4. CASE arg = -1
      <3>1. BackupIds # {} /\ id = Greatest(BackupIds)
        BY <2>1, <2>4 DEF ChosenBackup
      <3>2. made \in BackupIds /\ id = made
        BY <1>1, <3>1, IdsCounted, GreatestOf DEF BackupIInv
      <3>3. QED
        BY <2>2, <2>3, <2>4, <3>2
    <2>5. CASE arg # -1
      <3>1. id = AsU32(arg) /\ id \in BackupIds
        BY <2>1, <2>5 DEF ChosenBackup
      <3>2. id \in 1 .. MaxI32
        BY <1>1, <3>1, IdsCounted, BackupAssumption DEF BackupIInv
      <3>3. id = arg
        BY <3>1, <3>2, CastOfId
      <3>4. QED
        BY <2>2, <2>3, <2>5, <3>1, <3>3
    <2>6. QED
      BY <2>4, <2>5
  <1>2. BackupIInv /\ [Next]_vars =>
          \A arg \in I32 : Restore(arg) =>
            \E i \in BackupIds :
              /\ backups[i].serial = IF arg = -1 THEN made ELSE arg
              /\ files' = backups[i].files /\ wal' = backups[i].log
    BY <1>1
  <1>3. QED
    BY <1>2, BackupInvariant, PTL DEF Spec, RestoreBringsBack
===============================================================================
