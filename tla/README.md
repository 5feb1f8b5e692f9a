# Formal models of ExRocket

ExRocket is an Elixir library around RocksDB. `lib/ex_rocket.ex` declares the
functions, `native/rocker/src/*.rs` implements them as NIFs in Rust with the
`rust-rocksdb` crate. This directory holds TLA+ modules that model the native
code, configurations that check them with TLC, and proofs checked by TLAPS.

Line numbers below are those of `native/rocker/src/nif.rs` unless another file
is named. `PROJECT.json` lists the runs, the definitions with the lines they
model, the hazards and the mutants.

## 1. Inventory

| Component | State | Operations | Interacts with |
| --- | --- | --- | --- |
| **Resource lifecycle** (22-169, 220-285) | `DbResource`: an `RwLock` around `Option<DB>`, the atomic lease counter; `SnapshotResource`, `IteratorResource`: a `Mutex` around a handle transmuted to `'static`, owners, an optional lease | open, close, the guards of `db_read!` and `db_write!`, lease acquire and drop, destructors | every NIF; the Erlang VM (references, destructors); RocksDB (LOCK of the path) |
| **Reads and writes** (287-505, 572-703) | none of their own | put, get, delete, merge, delete_range, multi_get, key_may_exist, their `_cf` forms, write_batch, flush_wal | the DB's lock held shared; options; merge operators |
| **Column families** (507-570) | the set of families of the open DB | create_cf, drop_cf (exclusive), open_cf, list_cf | every `_cf` call resolves a name under the lock |
| **Iterators** (705-847, 1130-1228, iterator_options.rs) | the native iterator, the row carried over (`pending`) | iterator, iterator_range, prefix_iterator, their `_cf` forms, next, iterator_take | leases; the view RocksDB fixes at creation |
| **Snapshots** (849-1035) | the native snapshot | snapshot, snapshot_get, snapshot_multi_get, snapshot_iterator, their `_cf` forms | the lease of the snapshot covers its iterators, which have none |
| **Merge operators** (merge.rs, options.rs 1485-1498) | none: functions RocksDB calls back | counter, erlang, bitset | reads, flushes, compactions, recovery |
| **Durability** (write_options.rs, 373-454) | RocksDB's log and memtables | sync, disable_wal, flush_wal, the dirty/clean marker protocol of ADR002 | crash and reopen |
| **Backup and checkpoint** (1037-1128) | the backups in a directory | create, info, purge, restore, checkpoint | an open DB |
| **Option decoding** (options.rs, read_options.rs) | none | map to RocksDB options, range checks | open, iterator_range |
| **Path tools** (242-258, 555-562) | none | destroy, repair, list_cf | the LOCK of the path |
| **Elixir wrapper, registration, test support** | none | stubs, term_to_binary helpers, `lib.rs`, `atoms.rs`, `test/support` | |

What is hard in each, and what makes it correct:

* *Lifecycle.* Every NIF runs on a dirty-IO thread of its own, so close races
  with the creation, the use and the field-by-field destruction of children.
  Correct means: no native handle outlives its DB, the counter counts, a call
  inside RocksDB has its DB and its column family, nobody deadlocks, a close
  that answered ok has released the path, and a close that is retried after
  the children are gone is not refused for ever.
* *Iterators.* A page ends on three conditions, a row can be taken from the
  native iterator and not fit, and a native error can come in the middle.
  Correct means: every row once and in order, however pages and single reads
  are mixed; both bounds kept; progress; an end that is an end.
* *Merge operators.* RocksDB decides when it calls them and with what.
  Correct means: where the operands lie must not show in a read; positions out
  of bounds are harmless.
* *Snapshots, batches, column families.* Correct means: a view that does not
  move, a batch that is applied whole or not at all, a name that means one
  family at a time.
* *Option decoding.* A map has no order, presets and single settings touch the
  same fields, some fields are the DB's and some each family's, and a refusal can
  come late. Correct means: a DB and each of its families have what their own map
  asked for, and a refused map changes nothing.
* *Durability.* Three ways to stop (close, the end of the process, the loss of
  power), two levels of buffering below a write, four recovery modes. Correct
  means: after a stop, a prefix of the logged writes that contains all that a
  synced write or flush covers; a clean marker that covers its group.
* *Backup and checkpoint.* Files and log are copied while writers go on; ids
  are counted anew by every call. Correct means: a copy is a state the DB could
  be found in after a crash and has what the call had to cover, and a restore
  brings back the backup that was made under that id.

The full list of hazards, each at its line with the properties that watch over
it, is in `PROJECT.json`.

## 2. Modules

| Module | What it is |
| --- | --- |
| `DbLifecycle` | the resources, the locks, all NIFs by what they do to them, the destructors |
| `DbContract` | what the NIFs promise: each call takes effect at one instant |
| `DbLifecycleInv` | the inductive invariant of `DbLifecycle` |
| `DbLifecycleProofs` | its proof, the safety theorems, and the refinement of `DbContract` |
| `IteratorPaging` | positioning, `iterator_take` and `next` on one iterator |
| `IteratorPagingProofs` | its inductive invariant, and the proofs of its safety properties |
| `MergeOperators` | the functions of `merge.rs` |
| `MergeStack` | one key with a merge operator: memtable, files, flush, compaction, get |
| `MergeStackProofs` | its inductive invariant, and the proofs of its safety properties |
| `CrashStore` | what a caller may rely on when a DB stops and is opened again |
| `Durability` | log, memtables and files of one DB; implements `CrashStore` |
| `DurabilityInv`, `DurabilityProofs` | the inductive invariant of `Durability`, its proof, and the refinement |
| `DirtyClean` | the checkpoint protocol of ADR002, composed with `Durability` |
| `DirtyCleanProofs` | its inductive invariant, and the proofs of its safety properties |
| `Backup` | backups, checkpoints, purge and restore, composed with `Durability` |
| `BackupProofs` | the proofs of everything the run `backup` checks |
| `KvStore` | what a caller sees of a store with column families |
| `OpenOptions` | `decode`, `validate` and the conversion of an option map |
| `Store` | the calls on one path over versions and sequence numbers; implements `KvStore` |
| `StoreProofs` | its inductive invariant, the safety theorems, and the refinement of `KvStore` |
| `NumberLemmas` | least and greatest numbers, numberings of finite sets, induction with a set in place of a predicate |
| `MCDbLifecycle`, `MCIteratorPaging`, `MCMergeStack`, `MCDirtyClean`, `MCBackup`, `MCStore` | instances for TLC |

The modules divide the system by what they keep apart. `DbLifecycle` has the
threads, locks and lifetimes and no data; it shows that a call runs as if alone
and has an open DB. That is why `Store`, `Durability` and the others make a call
one action (or two, where other calls come in between: backups, pages). `Store`
has the contents and no files, `Durability` the files and no contents: there a
write is a number.

Operators named `X_<Flaw>` stand before `X` and are `X` with a plausible bug.
No specification uses them; each property fails when one takes the place of
its `X`, which shows that it depends on the code it is about.

### DbLifecycle

One variable per field: `dbState` is the `Option<DB>` (`"closing"` is the time
between `take()` and the end of `drop(db)`), `leases` the `AtomicUsize`,
`readers` and `writer` the `RwLock`, `mutex` the mutex of a child, and
`native`, `owner`, `snapOwner` and `lease` are the fields of a child. `of`
remembers the DB a native handle points into. `term` and `held` say whether an
Erlang term refers to a resource. A thread has a `pc`, the NIF it runs (`op`),
its arguments (`db`, `on`), the child it makes (`made`) and its reply (`res`).

| Action | Code |
| --- | --- |
| `CallData`, `CallSpawn`, `CallWrite`, `CallSnap`, `CallNext`, `Return` | a NIF is called with its resources as arguments; its result reaches the caller |
| `AcquireRead`, `ReadClosed` | `db_read!` (153-160) |
| `AcquireWrite`, `WriteClosed` | `db_write!` (162-169), the lock of `close` |
| `LookupCf` | `cf_handle(&name)`, or the reply `unknown_cf` |
| `CreateNative`, `AcquireLease`, `FinishSpawn` | `make_iterator_resource`, `snapshot`: the handle first, the lease next |
| `AcquireMutex`, `FinishUse`, `CreateSnapIter` | `lock()` of a child, and the calls under it |
| `CloseNoop`, `CloseBusy`, `CloseTake`, `CloseDrop` | the branches of `close` (265-285) |
| `Open`, `OpenReadOnly` | the constructors of a `DbResource` |
| `BeginDrop` ... `DropLease`, `FreeDb` | destructors, one step for each field in declaration order |

The NIFs are grouped by what they do to the resources: `put`, `get`, `delete`,
`merge`, `write_batch`, `flush_wal` and the like are all `"data"`. The local
guards of a NIF are dropped together when it returns (`DropGuards`).
`WriterPreference` covers both policies of `std::sync::RwLock`, whose choice
between a waiting writer and a new reader is up to the platform. Identifiers are
recycled after destruction, so the state space is finite without a bound on
calls.

`DbContract` says the same without locks, leases or destructors: a call is
invoked, takes effect at one instant and returns; `close` is ok if no child
exists at that instant and `resource_busy` if one does; a call on a child never
finds its DB closed. The mapping is at the end of `DbLifecycle`.

### IteratorPaging

`cursor` is the native iterator, `done` the flag of rust-rocksdb's
`DBIterator`, `pending` the field of `IteratorState`; `rows` and `bytes` are the
locals of `iterator_take`. A call takes one step for each row. `delivered` and
`faults` are history. The calls are made one after another because the mutex of
the resource makes them so (`DbLifecycle` checks that). `asked` holds the bounds of the request: `from`
and `to`, and the ends the read options brought. `set_iterate_range` sets both
ends, so a `from` alone takes the options' upper end back. A prefix iterator is
the mode `"prefix"`; RocksDB keeps it to the prefix only with an extractor
(`extractor`), and without one it runs on to the end. A native read may fail
as the iterator moves, and shows the failure when the next row is asked for;
`OwnedBinary::new` may fail for a row that was taken. `max_entries` and
`max_bytes` are any values of small sets: the hard limits of
`iterator_options.rs` only make the sets finite. Options that do not decode are
refused (`RefuseTake`) before the lock is taken.

### MergeOperators, MergeStack

A term is `[type, v, pos, n]`: a value, or an operation with argument and
positions. Decimal text, external terms and other bytes are told apart, because
the operators do; a byte of a bitset is the set of its bits that are 1, and what
`str::trim` takes away is spelled out in UTF-8 (`WhiteSpace`). Widths
(`i64`, `i32`, `usize`, the bits of a byte) are constants, and arithmetic wraps as
in a release build. `Aborted` is the panic of `drain` in a callback. The loop over
the operands is one recursive function, `InTurn`, with a `Step` for each operator.

`MergeStack` follows one key. A memtable or file is a layer: a value that replaces
what is below (`over`), and operands. `written` is the history as a layer: the
last full value and the operands since. `Flush` and `Compact` are RocksDB's: operands above a value
or at the bottom of the tree are merged fully, two or more operands with nothing
known below them partially. `set_merge_operator_associative` registers the same
function for both. The recovery of the log ends in a flush, so a reopened DB
behaves like `Flush`.

### CrashStore, Durability

`hist` lists the acknowledged writes; their positions stand for the batches.
`mem` and `files` say per family which of them a memtable or an SST file has,
`wal` which the log has, `buffered` which of those RocksDB still keeps
(`set_manual_wal_flush`), `unsynced` which are not known to be on the medium,
`torn` which a loss of power has garbled. `acked`, `handed` and `durable` are
what callers have been told, for the contract.

| Action | Code |
| --- | --- |
| `Write` with `AcceptsWriteOptions` | `write_batch` (373-438) and `RockerWriteOptions::decode`; put, delete, merge and delete_range are batches with default options |
| `FlushWal` | `flush_wal` (440-454) |
| `MemFlush` | RocksDB's flush of one family, or of all under `set_atomic_flush`; what comes while it runs stays |
| `Close`, `Halt`, `PowerLoss` | `close` (265-285); the end of the process; the loss of what was not synced: the log is cut at some record, and records before may be garbled |
| `Reopen` | `open` under one of the four modes of `set_wal_recovery_mode` |
| `Repair`, `Destroy` | `repair` (251-258), `destroy` (242-249) |

`CrashStore` knows no log, memtable or file: a stop guarantees the contents
after a close, what was handed over after the end of the process, and what is
durable after a loss of power, and a logged write is never lost in front of one
that is found, unless the recovery skips damage or `repair` ran. The mapping
is at the end of `Durability`.

### DirtyClean

The writer of `test/support/durability_writer.exs`, and the application around
it as the recovery table of ADR002 (Decision 1) describes it: a dirty marker
with sync, the rows without, a clean marker with sync, the cursor; after a stop
it goes by what it finds. `Background` is any other process: `flush_wal`,
memtable flushes. `Stopped`, `Restarted` and `Repaired` are the stops, `open`
and `repair`.

### Backup

`create_backup` (1073-1084) and `create_checkpoint` (1037-1048) take two steps,
`BackupFiles` and `BackupLog`, `CheckpointFlush` and `CheckpointCopy`, with
writes and flushes in between; `job` is the call that runs. `backups` is the
directory, the only thing that calls share, as each opens an engine of its own.
`Purge` is `purge_old_backups`. `Restore` is `restore_from_backup`, whose
`i32` argument is cast to `u32` (`MaxI32` is the greatest `i32`).

### KvStore, OpenOptions, Store

As in RocksDB, `Store` adds versions with sequence numbers to a family's id, and
a reader takes the latest version up to its number. `catalog` is what `list_cf`
reads from the path, `db` the open handle with the map it was opened with and the
DB's settings, `opened` the same for each of its families, `snaps` the snapshots,
`view` whether there is a handle of `open_for_read_only`. `saw` records what a
snapshot was to show, for the properties. `open` takes no names and gives its map
to `"default"` too; `open_cf` opens all families with RocksDB's own settings;
`create_cf` gives its map to the new family (`FamilyMap`, `Family`). `Destroy` is
refused while the DB is open, and asks for no read-only handle to be closed. An
action is a call: `Open`, `OpenFails`, `RefusedOptions`, `Close`, `Destroy`,
`CreateCf`, `DropCf`, `Write` (the eight single writes), `WriteBatch`,
`Snapshot`, `Release`, `OpenReadOnly`, `CloseReadOnly`, `WriteReadOnly`.

An option map is a function from keys to values. The many keys whose value is
passed on as it is are the constant `PlainKeys`; choices, lists and presets are
written out. `Refusals` is the set of errors a map can be answered with: `decode`
stops at the first bad entry of a map without order, `validate` looks in a fixed
order. `Applied` is the conversion: defaults, presets, single settings, and last
the first level to compress. That order matters for one field: the level preset
and `set_min_level_to_compress` both fill `compression_per_level`, and as long as
that is not empty RocksDB does not look at the type (`CompressionAt`). `Part` is
what of it the DB, or a family, gets. `CompressionAsked` in `Store` says without
the order what a map asks for.

`KvStore` is a map from names to maps from keys to values, changed by one call
at a time, which answers a count, or an error and no change.

## 3. Runs

| Run | Bounds | Checks |
| --- | --- | --- |
| `db_calls` | 1 DB, 1 iterator, 1 snapshot, 2 threads, every NIF | `TypeOK`, `DbStaysOpenInCalls`, `IInv`, `ImplementsContract` |
| `db_race` | 1 DB, 2 iterators, 1 snapshot, 3 threads; close, drop_cf, iterator, snapshot, snapshot_iterator_cf, next | `LeaseCount`, `NoDanglingHandle`, `HandleUseExclusive`, `NoLockCycle` |
| `db_paths` | 2 DBs on one path, 1 iterator, 1 snapshot, 2 threads, no writer preference | `PathReleasedByClose` |
| `db_live` | 1 DB, 1 iterator, 1 snapshot, 2 threads, fairness | `CallsReturn`, `LeasesDrain`, `AbandonedDbReleasesPath` |
| `paging` | all subsets of 3 keys in 2 prefixes, all ranges with and without bounds in the read options, all modes, limits 1 to 3, 2 failures, fairness | `TypeOK`, `NoGapNoRepeat`, `NeverTwice`, `PageWithinBounds`, `MoreHasRows`, `EndIsComplete`, `ScanEnds` |
| `paging_end` | limits 1 and 2, 1 failure | `EndMeansExhaustion`: violated |
| `merge` | 3 writes, every flush and compaction | `TypeOK`, `LossNeedsCollapse`, `BitsReadAsWritten`, `EditsAreSplices` |
| `merge_flush` | the erlang and bitset operators | `FlushInvisible`: violated |
| `merge_bounds` | a list of three, and a reversed range | `BoundsChecked`: violated |
| `protocol` | 2 groups of 2 rows in 2 families, 2 stops of any kind, 3 settings, fairness | `WriterTypeOK`, `CleanCovers`, `PartialIsDirty`, `CursorBehindClean`, `GroupsComplete` |
| `backup` | 2 batches over one or both of 2 families with 7 option terms, 2 backup ids, `MaxI32` = 3, 3 settings | `TypeOK`, `BatchWhole`, `StoreShowsAcked`, `ImplementsCrashStore`, `CopyCovers`, `CopyConsistent`, `RestoreBringsBack` |
| `store` | 2 families, 2 keys, 3 sequence numbers, 3 family ids, 1 snapshot, 8 option terms, 4 writes, 3 batches | `TypeOK`, `SnapshotStable`, `SettingsInEffect`, `ImplementsKvStore` |

Why the bounds are enough. In the lifecycle every hazard is a race of at most
three parties: a closer, a thread that makes or uses a child, and a thread or
destructor that takes one away; two iterators and a snapshot give an iterator
with a lease, one without, and the snapshot it rests on. A second DB matters
only for the path. The theorems below remove these bounds for the safety
properties. For paging, three keys with entries smaller than, equal to and
larger than the byte bounds give every way a page can end, pages before and
after it included; two of them share a prefix. For the merge operators, three
writes give operands above a value, operands above nothing, and a third one on
either side of a flush; there are operands for positions inside, beyond and
below the bounds, and for reversed ranges. Widths are scaled down so that sums wrap; positions of
bits lie in the first byte and just beyond it, and a joined bitset then never
spells an operation other than the blank one.

Durability is about the order of two writes and which of them reached the
medium: two batches give a logged one before or after one without the log, one
that spans families beside one that does not, a flush between them, and every
stop after each, any number of times, as stops are not bounded in `backup`.
Two backup ids give a latest one, an older one, one purge has removed, and ids
that start again; with `MaxI32` = 3 all eight arguments of `restore_from_backup`
are tried. `protocol` has two groups because a marker of one group must not
speak for the other, rows in the family of the markers and in another one
because flushes separate families, and two stops because the second may come
before recovery is done; `MaxWrites` is more than the writer can use. In
`store` three numbers fit a batch with an operation to spare on either side,
three family ids let a name be dropped and made again.

The runs stop on a deadlock, except where a bounded number of writes ends every
behaviour (`merge` and its kin, `backup`, `store`) and `protocol`, which
ends when all groups are done and the stops are used up.

Fairness. `DbLifecycle!Fairness`: a dirty-IO thread that can go on does (weak);
a thread that waits for a lock gets it if the lock is free again and again
(strong: std's locks park waiters in a queue of the system and do not starve
one for ever, though they promise no order); the VM runs the destructors it owes
(weak). Processes are under no obligation to call anything or to let anything
go: `LeasesDrain` and `AbandonedDbReleasesPath` are conditional on that. For
`IteratorPaging`, a caller that goes on asking, and calls that run. For
`DirtyClean`, a writer that goes on and someone who opens the DB again, in a
mode that takes it (`absoluteconsistency` may refuse a torn log for ever; then
another mode, or `repair` first). `MaxFaults` bounds the stops: with a stop
before every clean marker no group would ever be completed.

## 4. What the runs show

All properties of the passing runs hold. Three statements do not.

* `paging_end`: after a native error `iterator_take` or `next` reports it once;
  the crate's iterator is then done and the next call answers
  `end_of_iterator`, although rows were never read. ADR002 line 316 gives that
  atom the meaning that exhaustion was observed.
* `merge_flush`: the erlang and bitset operators are registered as associative.
  They are not: the result of joining operands is a value, and is later taken
  for an operand. Two bits set and then flushed are no longer set, two
  `int_add`s are not added. Each of the two operators alone gives the same
  result; the counter is not affected, and a value is lost only after a partial
  merge (`LossNeedsCollapse`).
* `merge_bounds`: `{list_delete, 2, 1}` on a list of three passes the bounds
  check and makes `drain` panic below a callback from C++, which ends the VM;
  so do `binary_erase` and `binary_replace` with a negative count, whose end
  comes out before the start. `EditsAreSplices` says that these are the only ones.
  The operand is stored by then, so the panic comes back with every read and
  with the flush.

Some results of the passing runs need their conditions read with them.

* `CleanCovers` holds because a sync covers the log before it, for rows in
  other families too, and in every recovery mode: a synced record cannot be
  torn. It would not hold for rows written with `disable_wal`; the writer does
  not do that.
* A batch that spans families is whole after a crash if it has a log record or
  the DB has `set_atomic_flush`. `BatchWhole` says it of those batches; without
  either, half of a batch can be found.
* A backup does not contain writes that are only in memtables without a log
  record; a checkpoint does. `CopyCovers` says which call has to cover what.
* `SnapshotStable` follows the family, not its name: after `drop_cf` and
  `create_cf`, `snapshot_get_cf` on an old snapshot finds nothing.

## 5. What is proved

`DbLifecycleProofs` proves for any number of DBs, children and threads, any set
of NIFs and either lock policy, that `Spec` implies always `TypeOK`,
`LeaseCount`, `NoDanglingHandle`, `DbStaysOpenInCalls`, `HandleUseExclusive`,
`PathReleasedByClose` and `NoLockCycle`. The only assumption is
`ConstantsAssumption`: the children are finitely many, iterators and snapshots
are different, `None` is none of them.

None of these is inductive. `NoDanglingHandle` alone says nothing of why a
handle keeps its DB open, so a close could follow. `IInv` adds that:

* `CallShape`, `Making`: which NIF can be at which point and what it has made;
* `ChildShape`, `References`: what a child has in each phase, and that what is
  referred to exists;
* `Anchored`: a native handle has a lease, or rests on a snapshot (which has
  one), or is being made under the DB's read lock;
* `Guards`: a lock is held by exactly the calls whose code is inside it;
* `Protected`: read lock, lease and a write lock for a column family each
  imply an open DB;
* `Closing`: only the closer that took the DB leaves it half closed.

With `LeaseCount`, close sees zero only if nothing has a lease; with `Guards`,
its write lock excludes the calls that are making a handle; so by `Anchored`
nothing native is left. The proof has one lemma for each part of `IInv` and in
it one step for each kind of action; the counter uses the cardinality lemmas of
`FiniteSetTheorems`. `db_calls` checks `IInv` with TLC.

`DurabilityProofs` proves for any families, batches, option maps, settings and
number of writes that `Durability` implements `CrashStore` (`CrashSafety`).
`BackupProofs` proves the same of the DB with backups, checkpoints, purge and
restore, and the other properties of the run `backup`: `TypeOK`, `BatchWhole`,
`StoreShowsAcked`, `CopyCovers`, `CopyConsistent` and `RestoreBringsBack`. The
assumptions are `DurabilityAssumption` (a batch is about at least one family)
and `BackupAssumption` (ids fit an `i32`).

The contract speaks of what a stop will leave, so the invariant has to say where
each write is before the stop. `DurabilityIInv` adds to the types:

* `Known`, `Kept`: what is found was acknowledged; what a stop guarantees is in
  files or in the part of the log that this stop leaves;
* `Tails`: what is not synced, or not handed over, is the end of the log. This
  is why a replay that stops at damage loses a suffix;
* `FilesCovered`: no file has a logged write beyond an unsynced one of another
  family. It is the reason for RocksDB's sync of the log before a flush, and
  holds with one family, where there is no such sync, for another reason: the
  flush takes every earlier write along;
* `MemLogged`, `HalfLogged`: a batch that a flush split, with a part in files
  and a part still in memtables, is synced in the log, or else `atomic_flush`
  had kept it together;
* `StoppedNoHole`: the outcome, for a DB that is not open.

`BackupIInv` adds that a directory in the backups is a good one (`GoodDir`), that
`made` counts the ids, and that what a call still has to copy is in the log.
There is one lemma for each action. `DurabilityIInv` was checked with TLC on the
instance of `backup`, and with three writes, before it was proved.

### DbContract

`Invariance` states `IInv` itself as a theorem, and `CallsAreAtomic` rests on
it: `DbLifecycle` implements `DbContract`. Each action is mapped to the one
effect of a call, to its invocation or return, or to a step that changes nothing
a caller sees. The instant of a close is `take()`: what `Closing` says of the
half-closed DB, and `Anchored` of the children, makes the answer the contract
wants at that instant the one the code gives later.

### DirtyClean

`WriterInvariant` proves `WriterIInv`, from which `WriterTypes`,
`CleanMarkerCovers`, `PartialGroupIsDirty` and `CursorStaysBehind` follow, for any
number of groups, rows and stops, any families and settings. The assumption
`DirtyCleanAssumption` says that there is at least one group and one row, that the
families of markers and rows are shapes of batches, and that what the writer
writes is among the roles a batch can have. `WriterIInv` adds to `DurabilityIInv`
and the types:

* `OnlyWriter`: every write is one of the writer's, and has a log record;
* `MarkersDurable`: only a row can be lost, the others are written with sync;
* `Vouches`: a clean marker says that its group and all before it are projected for
  good, a cursor that there is a clean marker for it, a dirty marker or a row
  that the groups before are projected, a row that its group is marked dirty;
* `MarkersInOrder`: a later marker is not of an earlier group, also where the
  writer does a group again after a stop;
* `WriterAt`: what the writer has behind it at each of its steps.

A stop takes away no more than what is not durable, rows at most, and adds
nothing; so what the markers that are found vouch for is found as well. The
recovery that skips damage is no exception: what is durable cannot be damaged.
The proofs stand on `DurabilityIInv`, which holds as every step of the composition
is one of `Durability` or leaves the store alone.

### Store

`StoreInvariant` proves `StoreIInv`, for any names, keys, option terms, writes
and batches. Beside the types it has `SnapsKept`: what a snapshot recorded is what
a lookup at its number finds now. It is inductive because versions are only added,
and with numbers beyond every snapshot's; because a family id is greater than all
before it, and all versions of a family made since have greater numbers too, so a
name made anew finds nothing; and because `destroy` is refused while the DB is
open, which it is as long as a snapshot exists. `OpenedWith` says that exactly the
families of the open DB have settings, and that all settings are made from maps
that were not refused.

`SettingsTakeEffect` (`SettingsInEffect`) rests on lemmas about `Applied`, for any
map that is taken: a single setting has the value asked for whatever presets are
beside it (`SinglesApplied`, which needs that the map has no key for the one field
that is filled in later), and each level is compressed as the first level, the
preset and the type say in this order (`LevelsApplied`).

`StoreIsAMap` is the refinement of `KvStore`. A batch is a recursive function over
its operations in both modules; that the two agree after each prefix is shown by
induction (`InductionSet`, on the set of prefixes for which they do). The
assumption `StoreAssumption` is about shapes: `"default"` is a name, names are
finitely many, batches are sequences, and an operation on one key has a key of the
store.

### IteratorPaging

`PagingInvariant` proves `PagingIInv`, for any set of keys, prefixes and sizes, any
bounds of a request and of the options, any limits and any number of failures. From
it follow `PagingTypes`, `PagesAreContiguous` (`NoGapNoRepeat`), `RowsComeOnce`
(`NeverTwice`), `PagesKeepBounds`, `MoreMakesProgress` and `EndIsTheEnd`. The
rows delivered, in flight and carried over are one list, `Out`; `CursorIsNext`
says that the native iterator stands at the first wanted key behind that list.
With it a row that is taken extends the list by exactly the next one, wherever
the row then goes. `PageSoFar` counts the bytes of the page that is being built.
`PagingAssumption` says that the keys are finitely many numbers, sizes natural
ones and limits positive ones, that requests have a bound or none at each of their
four places, and that the marks for no key, the end and a failure are no keys.

### MergeStack

`KeyInvariance` proves `KeyIInv`, for any values and operands, any widths and any
number of writes; `KeyTypeOK` (`TypeOK`) and `OnlyCollapsesLose`
(`LossNeedsCollapse`) follow. `BitsAsWritten` proves `BitsReadAsWritten` from it.
The assumptions are `StackAssumption` (arguments are lists, numbers integers,
positions those of an `i32`, or of a `usize` in a bitset) and `WidthAssumption`.
The invariant says:

* `KeyTypes`: every layer holds a value the operators can start from, and a list
  of operands they can count;
* `Room`: the writes can be shared out so that every file and a memtable that is
  not empty has one of its own, and as many as it has operands. `TypeOK` bounds
  files and operands by the writes; a compaction keeps that bound only if the room
  of two files is room for the one in their place;
* `NothingForeign`: while nothing is collapsed, every operand that is stored was
  written since the last put or delete;
* `ReadsAsWritten`: files and memtable, one on top of the other, give what
  `written` gives.

`OnlyCollapsesLose` rests on four facts about the operators, each for operands of
any length. `MergeJoin`: operands may be merged in two goes if the value is part of
the first. `CounterCollapse`: the counter's operands may be added up first, as
sums and wraps commute. `RewrittenKeeps`: so what a flush or compaction writes in
place of a layer keeps what the key gives, unless it joins operands without their
value, which only the counter can afford. `StackJoin`: two neighbouring layers may
be joined before the layers around them. The erlang operator satisfies `MergeJoin`
only if its operands are alike, external terms or not, as `LossNeedsCollapse`
says; `NothingForeign` carries this from what was written to what is stored.

`BitsAsWritten` adds that values and operands are those of `Values` and
`Operands` (`SaidOK`), and then shows for one position, operand by operand, that
the bit is what was said last; that two positions are never the same bit of the
same byte is the uniqueness of quotient and remainder.

`EditsSplice` proves `EditsAreSplices` in every state in which `ReadFits` holds: the
value that is read, and a position as far beyond it as an `i32` reaches, fit a
`usize`. Without it the statement is false, as a negative position would fall
inside the value; every `Vec` satisfies it, as it has at most 2^63 elements and
`i32::MIN` as a `usize` is 2^64 - 2^31, and so does every state of the run `merge`.
`EditIInv` adds to `KeyIInv` that whatever is stored has a sequence for its
argument and integers for its positions (`StoredFormed`). A splice is known
by what it has where (`SplicedSame`, `SpliceIs`); `InsertAllSplices` shows this of
the loop of `insert` calls; `PositionOf` and `EndOf` show that a negative position,
and an end that comes out negative, lie beyond the value, and any other end is what
it says although the sum wraps.

Loops over operands, layers and bytes are recursive functions. Where a proof needs
induction over them, it is over the set of the indices for which the claim holds
(`InductionSet` of `NumberLemmas`), as the library's induction theorems take an
operator as a parameter.

### What is only model-checked

* Liveness: `CallsReturn`, `LeasesDrain`, `AbandonedDbReleasesPath`, `ScanEnds`,
  `GroupsComplete`. The installed provers have no rules for fairness of this kind.
* That statements fail (`EndMeansExhaustion`, `FlushInvisible`, `BoundsChecked`): a
  behaviour that TLC shows is the evidence.

## 6. What is assumed of RocksDB, and what is not modelled

RocksDB is not under `src/`. The models take the following from it; in
`PROJECT.json` these definitions are marked external.

* A write, flush or merge callback is called as its documentation says: operands
  above a value are merged fully, operands with nothing known below partially.
* A sync of the log covers all records before. With manual flushing the log stays
  in the process until `flush_wal`, a sync, or close. A flush of a memtable syncs
  the log first if there are several column families. Closing writes out
  memtables that hold writes without the log.
* The four recovery modes: refuse any damage, refuse damage that is not at the
  tail, stop at it, skip it. `repair` takes every record it can read.
* A family id is not used twice; a version is found by family id, key and
  number; `delete_range` leaves its upper key.
* `DB::Open` refuses families that exist and are not named; it may have made
  the DB before it finds that a named family is missing.
* A lock file keeps `DB::Open` and `DestroyDB` off a path that is open for
  writing; a DB opened for reading only takes none.
* The types of levels, if there are any, come before the type for all; the level
  preset gives the first two levels none, `set_min_level_to_compress` gives none
  to those before and the type set so far to the others.
* `create_new_backup` copies files, then the log, and does not flush;
  `create_checkpoint` flushes. An engine counts on from the greatest id in its
  directory.
* An iterator's view is fixed when it is made; a prefix iterator keeps to its
  prefix only if there is a prefix extractor.

Not modelled, and why:

* What a single option does inside RocksDB, apart from those that decide about
  opening, the log, flushes and the compression of a level; what RocksDB makes of
  values out of range, such as a first level to compress beyond the last.
* Merges in a family without an operator, as there are after `open_cf`: `Store`
  keeps which options a family has, and merges as if the operator were there.
* What a read-only handle shows: it is a second instance on the path, for which
  RocksDB promises nothing beside a writer. `Store` has it opened, refused and
  written to in vain.
* Two calls on one backup directory at once, and a restore over a DB that is
  open: RocksDB defines nothing for them.
* `key_may_exist`, which may always say yes; `"default"` as a name of the `_cf`
  calls, which is the same family.
* Panics that poison a lock: the code takes the inner value and goes on.
* The Elixir module (stubs and `term_to_binary` around them), `lib.rs` and
  `atoms.rs` (registration), the test template: no state, no interaction.
* The contents of files, compaction scheduling, I/O errors outside reads.

## 7. Plan

Modelling follows the code as far as it has state of its own, and all safety and
refinement properties of the runs are proved, `EditsAreSplices` for values that fit.
What is left: facts on sequences that several proofs use in forms of their own
(joining, cutting, positions of a joined list), collected beside those of
`NumberLemmas`.
