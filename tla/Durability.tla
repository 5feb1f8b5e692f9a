------------------------------ MODULE Durability ------------------------------
(***************************************************************************)
(* What becomes of the writes of one DB: the options of write_batch, the   *)
(* write-ahead log, flush_wal, memtables and files, the three ways to stop *)
(* (close, end of the process, loss of power), reopening under a recovery  *)
(* mode, repair and destroy.                                               *)
(*                                                                         *)
(* Writes are numbered in the order of their acknowledgement and stand for *)
(* their batches: put, delete, merge and delete_range are batches with     *)
(* default options.                                                        *)
(***************************************************************************)
EXTENDS Naturals, Sequences

CONSTANTS Families,      \* column families
          Shapes,        \* the sets of families a batch writes to
          Roles,         \* what a write is about, for protocols built on top
          WriteTerms,    \* option maps given to write_batch, or NotMap
          OpenOptions,   \* settings a DB is opened with
          NotMap, Junk,  \* a term that is no map, a value that is no boolean
          MaxWrites      \* bound on the number of writes

Modes == {"toleratecorruptedtailrecords", "absoluteconsistency",
          "pointintime", "skipanycorruptedrecord"}

ASSUME DurabilityAssumption ==
  /\ Shapes \subseteq (SUBSET Families) \ {{}}
  /\ MaxWrites \in Nat
  /\ OpenOptions \subseteq [manual : BOOLEAN, atomic : BOOLEAN, mode : Modes]

VARIABLES
  phase,     \* "open", or how the DB stopped: "closed", "halted", "lost"
  opts,      \* the settings of the last open
  hist,      \* every write acknowledged so far
  mem,       \* per family: the writes in its memtable
  files,     \* per family: the writes in its SST files
  wal,       \* the writes in the log since the last open
  buffered,  \* those the DB has not handed to the operating system
  unsynced,  \* those that are not known to be on the medium
  torn,      \* those whose records a loss of power has garbled
  salvaged,  \* the files went through repair since the DB stopped
  \* What callers have been told, for the contract CrashStore:
  acked, handed, durable

engine == <<opts, hist, mem, files, wal, buffered, unsynced, torn, salvaged>>
told   == <<acked, handed, durable>>
dvars  == <<phase, engine, told>>

Ids    == 1 .. MaxWrites
Writes == DOMAIN hist
Logged == {i \in Writes : hist[i].logged}
Empty  == [f \in Families |-> {}]
Joined(m) == UNION {m[f] : f \in Families}

\* What a reader finds in a family.
Visible(f) == mem[f] \cup files[f]

\* RocksDB syncs the log with a flush only if another family might need it.
Several == \E f, g \in Families : f # g

-----------------------------------------------------------------------------
(* RockerWriteOptions::decode: whether a term is taken, and its two flags.   *)

Flag(term, key) == key \in DOMAIN term /\ term[key]

\* Flaw: sync and disable_wal go together.
AcceptsWriteOptions_BothFlags(term) ==
  /\ term # NotMap
  /\ DOMAIN term \subseteq {"sync", "disable_wal"}
  /\ \A key \in DOMAIN term : term[key] \in BOOLEAN

AcceptsWriteOptions(term) ==
  /\ term # NotMap
  /\ DOMAIN term \subseteq {"sync", "disable_wal"}
  /\ \A key \in DOMAIN term : term[key] \in BOOLEAN
  /\ ~(Flag(term, "sync") /\ Flag(term, "disable_wal"))

-----------------------------------------------------------------------------
DurabilityInit ==
  /\ phase = "open" /\ opts \in OpenOptions
  /\ hist = <<>> /\ mem = Empty /\ files = Empty
  /\ wal = {} /\ buffered = {} /\ unsynced = {} /\ torn = {}
  /\ salvaged = FALSE
  /\ acked = {} /\ handed = {} /\ durable = {}

\* Flaw: a sync is taken to cover its own record only.
LogWrite_OwnRecord(n, sync) ==
  /\ wal' = wal \cup {n}
  /\ buffered' = IF sync \/ ~opts.manual THEN buffered ELSE buffered \cup {n}
  /\ unsynced' = IF sync THEN unsynced ELSE unsynced \cup {n}

(* A sync covers every record before it: the file is synced, not a record. *)
LogWrite(n, sync) ==
  /\ wal' = wal \cup {n}
  /\ buffered' = IF sync \/ ~opts.manual THEN {} ELSE buffered \cup {n}
  /\ unsynced' = IF sync THEN {} ELSE unsynced \cup {n}

(* write_batch and, with the default options, every other write. *)
Write(shape, term, role) ==
  LET n      == Len(hist) + 1
      sync   == Flag(term, "sync")
      logged == ~Flag(term, "disable_wal")
      before == {i \in acked \cup {n} : i = n \/ hist[i].logged}
  IN  /\ phase = "open"
      /\ n <= MaxWrites
      /\ AcceptsWriteOptions(term)
      /\ hist' = Append(hist, [families |-> shape, logged |-> logged,
                               whole |-> (logged \/ opts.atomic), role |-> role])
      /\ mem' = [f \in Families |-> IF f \in shape THEN mem[f] \cup {n} ELSE mem[f]]
      /\ IF logged THEN LogWrite(n, sync) ELSE UNCHANGED <<wal, buffered, unsynced>>
      /\ acked' = acked \cup {n}
      /\ handed' = IF logged /\ (sync \/ ~opts.manual) THEN handed \cup before ELSE handed
      /\ durable' = IF sync THEN durable \cup before ELSE durable
      /\ UNCHANGED <<phase, opts, files, torn, salvaged>>

\* Flaw: flush_wal(true) hands the log over and does not sync it.
FlushWal_NeverSyncs(sync) ==
  /\ phase = "open"
  /\ sync \in BOOLEAN
  /\ buffered' = {}
  /\ handed' = handed \cup (acked \cap Logged)
  /\ durable' = IF sync THEN durable \cup (acked \cap Logged) ELSE durable
  /\ UNCHANGED <<phase, opts, hist, mem, files, wal, unsynced, torn, salvaged, acked>>

FlushWal(sync) ==
  /\ phase = "open"
  /\ sync \in BOOLEAN        \* else invalid_write_options
  /\ buffered' = {}
  /\ unsynced' = IF sync THEN {} ELSE unsynced
  /\ handed' = handed \cup (acked \cap Logged)
  /\ durable' = IF sync THEN durable \cup (acked \cap Logged) ELSE durable
  /\ UNCHANGED <<phase, opts, hist, mem, files, wal, torn, salvaged, acked>>

\* Flaw: families are flushed one by one under atomic_flush too.
MemFlush_OneByOne(some, k) ==
  LET upto(s) == {i \in s : i <= k}
  IN  /\ phase = "open"
      /\ some = Families \/ \E f \in Families : some = {f}
      /\ \E f \in some : upto(mem[f]) # {}
      /\ files' = [f \in Families |-> IF f \in some THEN files[f] \cup upto(mem[f])
                                      ELSE files[f]]
      /\ mem' = [f \in Families |-> IF f \in some THEN mem[f] \ upto(mem[f]) ELSE mem[f]]
      /\ IF Several
         THEN /\ buffered' = buffered \ upto(buffered)
              /\ unsynced' = unsynced \ upto(unsynced)
         ELSE UNCHANGED <<buffered, unsynced>>
      /\ UNCHANGED <<phase, opts, hist, wal, torn, salvaged, told>>

\* Flaw: the whole memtable goes, with what came during the flush.
MemFlush_DropsRest(some, k) ==
  LET upto(s) == {i \in s : i <= k}
  IN  /\ phase = "open"
      /\ some = Families \/ (~opts.atomic /\ \E f \in Families : some = {f})
      /\ \E f \in some : upto(mem[f]) # {}
      /\ files' = [f \in Families |-> IF f \in some THEN files[f] \cup upto(mem[f])
                                      ELSE files[f]]
      /\ mem' = [f \in Families |-> IF f \in some THEN {} ELSE mem[f]]
      /\ IF Several
         THEN /\ buffered' = buffered \ upto(buffered)
              /\ unsynced' = unsynced \ upto(unsynced)
         ELSE UNCHANGED <<buffered, unsynced>>
      /\ UNCHANGED <<phase, opts, hist, wal, torn, salvaged, told>>

(* RocksDB writes memtables out: those of all families together under      *)
(* atomic_flush, else one.  Writes that came while it did (beyond k) stay. *)
MemFlush(some, k) ==
  LET upto(s) == {i \in s : i <= k}
  IN  /\ phase = "open"
      /\ some = Families \/ (~opts.atomic /\ \E f \in Families : some = {f})
      /\ \E f \in some : upto(mem[f]) # {}
      /\ files' = [f \in Families |-> IF f \in some THEN files[f] \cup upto(mem[f])
                                      ELSE files[f]]
      /\ mem' = [f \in Families |-> IF f \in some THEN mem[f] \ upto(mem[f]) ELSE mem[f]]
      /\ IF Several
         THEN /\ buffered' = buffered \ upto(buffered)
              /\ unsynced' = unsynced \ upto(unsynced)
         ELSE UNCHANGED <<buffered, unsynced>>
      /\ UNCHANGED <<phase, opts, hist, wal, torn, salvaged, told>>

-----------------------------------------------------------------------------
(* The ways to stop. *)

(* close drops the DB: RocksDB writes out the memtables if the log does not *)
(* have all of them, and hands the rest of the log to the system.           *)
Close ==
  LET unlogged == ~(Joined(mem) \subseteq Logged)
  IN  /\ phase = "open" /\ phase' = "closed"
      /\ files' = IF unlogged THEN [f \in Families |-> Visible(f)] ELSE files
      /\ unsynced' = IF unlogged /\ Several THEN {} ELSE unsynced
      /\ mem' = Empty
      /\ buffered' = {}
      /\ salvaged' = FALSE
      /\ UNCHANGED <<opts, hist, wal, torn, told>>

(* The process ends without close. *)
Halt ==
  /\ phase = "open" /\ phase' = "halted"
  /\ mem' = Empty
  /\ wal' = wal \ buffered
  /\ unsynced' = unsynced \ buffered
  /\ buffered' = {}
  /\ salvaged' = FALSE
  /\ UNCHANGED <<opts, hist, files, torn, told>>

(* Of what was not synced, the medium has the log up to some record, and   *)
(* records before it may be garbled.                                       *)
PowerLoss(cut, garbled) ==
  LET onDisk == {i \in wal \ buffered : i <= cut \/ i \notin unsynced}
  IN  /\ phase \in {"open", "closed", "halted"} /\ phase' = "lost"
      /\ garbled \subseteq onDisk \cap unsynced
      /\ wal' = onDisk \ garbled
      /\ torn' = garbled
      /\ mem' = Empty
      /\ buffered' = {} /\ unsynced' = {}
      /\ salvaged' = (phase # "open" /\ salvaged)
      /\ UNCHANGED <<opts, hist, files, told>>

-----------------------------------------------------------------------------
(* A DB that is not open. *)

Accepts(mode) ==
  CASE mode = "absoluteconsistency"          -> torn = {}
    [] mode = "toleratecorruptedtailrecords" -> \A g \in torn, i \in wal : i < g
    [] OTHER                                 -> TRUE

Replayed(mode) ==
  IF mode = "skipanycorruptedrecord" THEN wal
  ELSE {i \in wal : \A g \in torn : i < g}

\* The log replayed into files.
Recovered(replayed) ==
  [f \in Families |-> files[f] \cup {i \in replayed : f \in hist[i].families}]

Reopen(o) ==
  /\ phase # "open" /\ phase' = "open"
  /\ Accepts(o.mode)
  /\ opts' = o
  /\ files' = Recovered(Replayed(o.mode))
  /\ wal' = {} /\ torn' = {} /\ buffered' = {} /\ unsynced' = {}
  /\ acked' = Joined(files') /\ handed' = acked' /\ durable' = acked'
  /\ UNCHANGED <<hist, mem, salvaged>>

(* repair reads all records it can, whatever lies between them. *)
Repair ==
  /\ phase # "open"
  /\ files' = Recovered(wal)
  /\ wal' = {} /\ torn' = {} /\ unsynced' = {}
  /\ salvaged' = TRUE
  /\ UNCHANGED <<phase, opts, hist, mem, buffered, told>>

\* A directory put in place of the DB's.
Install(dirFiles, dirLog) ==
  /\ phase # "open" /\ phase' = "closed"
  /\ files' = dirFiles /\ wal' = dirLog
  /\ torn' = {} /\ unsynced' = {}
  /\ salvaged' = FALSE
  /\ acked' = Joined(dirFiles) \cup dirLog /\ handed' = acked' /\ durable' = acked'
  /\ UNCHANGED <<opts, hist, mem, buffered>>

Destroy == Install(Empty, {})

-----------------------------------------------------------------------------
Serve == \/ \E s \in Shapes, t \in WriteTerms, r \in Roles : Write(s, t, r)
         \/ \E b \in BOOLEAN : FlushWal(b)
         \/ \E some \in SUBSET Families, k \in Writes : MemFlush(some, k)

Fail == \/ Halt
        \/ \E cut \in 0 .. Len(hist), g \in SUBSET unsynced : PowerLoss(cut, g)

Offline == \/ \E o \in OpenOptions : Reopen(o)
           \/ Repair
           \/ Destroy

DurabilityNext == Serve \/ Close \/ Fail \/ Offline

DurabilitySpec == DurabilityInit /\ [][DurabilityNext]_dvars

-----------------------------------------------------------------------------
DurabilityTypeOK ==
  /\ phase \in {"open", "closed", "halted", "lost"}
  /\ opts \in OpenOptions
  /\ hist \in Seq([families : Shapes, logged : BOOLEAN, whole : BOOLEAN, role : Roles])
  /\ Len(hist) <= MaxWrites
  /\ mem \in [Families -> SUBSET Writes] /\ files \in [Families -> SUBSET Writes]
  /\ wal \subseteq Logged /\ torn \subseteq Logged
  /\ buffered \subseteq unsynced /\ unsynced \subseteq wal
  /\ salvaged \in BOOLEAN
  /\ acked \subseteq Writes /\ handed \subseteq acked /\ durable \subseteq handed

(* A batch with the log, or under atomic_flush, is in all of its families   *)
(* or in none, whatever was flushed, lost or replayed (434, options.rs      *)
(* 1395).                                                                   *)
BatchWhole ==
  phase = "open" =>
    \A i \in Writes : hist[i].whole =>
      \A f, g \in hist[i].families : i \in Visible(f) => i \in Visible(g)

(* A reader of an open DB finds what was acknowledged since it was opened   *)
(* and what was found then, no more and no less: no flush loses or revives  *)
(* a write.                                                                 *)
StoreShowsAcked == phase = "open" => acked = UNION {Visible(f) : f \in Families}

(* The DB implements the contract.  In particular: what a sync write or     *)
(* flush_wal(true) covered survives everything, what was handed to the      *)
(* system survives the process, a close keeps writes without a log too, and *)
(* no logged write is lost in front of one that survives unless damage is   *)
(* skipped (ADR002, Decision 1).                                            *)
Contract == INSTANCE CrashStore WITH
              contents <- acked, logged <- Logged,
              strict <- ~(salvaged \/ opts.mode = "skipanycorruptedrecord")
ImplementsCrashStore == Contract!Spec
===============================================================================
