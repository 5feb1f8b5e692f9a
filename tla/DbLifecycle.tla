---------------------------- MODULE DbLifecycle ----------------------------
(***************************************************************************)
(* The resources of native/rocker/src/nif.rs and the protocol by which     *)
(* they stay valid: a DbResource (an RwLock around Option<DB> and a lease  *)
(* counter), its children (iterators and snapshots, whose native handles   *)
(* were transmuted to 'static and so are raw pointers into the DB), the    *)
(* NIF calls that use them from the dirty-IO threads, and the destructors  *)
(* the Erlang VM runs when the last reference to a resource goes away.     *)
(*                                                                         *)
(* Identifiers are recycled: a freed child or DbResource may be allocated  *)
(* again, so the system never runs out of steps.  All the handles are on   *)
(* one path, which RocksDB lets one read-write DB have at a time.          *)
(***************************************************************************)
EXTENDS Integers, FiniteSets

CONSTANTS
  Dbs,              \* identities of DbResource
  Iters,            \* identities of IteratorResource
  Snaps,            \* identities of SnapshotResource
  Threads,          \* the dirty-IO scheduler threads
  Ops,              \* the NIFs the callers use, a subset of AllOps
  WriterPreference, \* does a waiting writer block new readers?
  None              \* "no db / child / thread"

Children == Iters \cup Snaps

(* The NIFs, by what they do to the resources. *)
DataOps  == {"data", "data_cf"}           \* put, get, write_batch, put_cf, ...
SpawnOps == {"iterator", "iterator_cf", "snapshot"}
ReadOps  == DataOps \cup SpawnOps          \* take the db lock shared
WriteOps == {"create_cf", "drop_cf", "close"}       \* take it exclusive
SnapCfOps == {"snap_get_cf", "snap_iter_cf"}
SnapOps  == {"snap_get", "snap_iter"} \cup SnapCfOps
CfOps    == {"data_cf", "iterator_cf"} \cup SnapCfOps
DeriveOps == {"snap_iter", "snap_iter_cf"}
AllOps   == ReadOps \cup WriteOps \cup SnapOps \cup {"next"}

ASSUME ConstantsAssumption ==
  /\ IsFiniteSet(Iters) /\ IsFiniteSet(Snaps)
  /\ Iters \cap Snaps = {}
  /\ Ops \subseteq AllOps
  /\ WriterPreference \in BOOLEAN
  /\ None \notin Dbs \cup Children \cup Threads

VARIABLES
  (* DbResource *)
  dbState,   \* "open": Some(db); "closing": taken, being dropped; "closed": None
  term,      \* does an Erlang term refer to the DbResource?
  hasCf,     \* does the DB have the column family the *_cf calls name?
  leases,    \* the AtomicUsize
  readers,   \* RwLock: the threads that hold it shared
  writer,    \* RwLock: the thread that holds it exclusively
  pathLock,  \* RocksDB's LOCK on the path: the DB that holds it
  (* IteratorResource and SnapshotResource *)
  phase,     \* "none", "made" (inside the creating NIF), "live", "dropping"
  held,      \* does an Erlang term refer to it?
  native,    \* does the DBIterator or Snapshot exist?
  of,        \* the DB the native handle points into
  owner,     \* the field _owner (owner of a snapshot)
  snapOwner, \* the field _snapshot_owner
  lease,     \* the field _lease: does it hold a DbLease?
  mutex,     \* the Mutex around the native handle: the thread that holds it
  (* NIF calls *)
  pc, op, db, on, made, res

dbVars   == <<dbState, term, hasCf, leases, readers, writer, pathLock>>
kidVars  == <<phase, held, native, of, owner, snapOwner, lease, mutex>>
callVars == <<pc, op, db, on, made, res>>
lockVars == <<readers, writer, mutex>>
vars     == <<dbVars, kidVars, callVars>>

----------------------------------------------------------------------------
(* Holding and letting go of guards and references *)

(* Operators named X_<Flaw> are X with a plausible bug in it: the runs show
   that each property fails when one of them takes the place of X. *)

DropGuards_KeepsWriter(t) ==
  /\ readers' = [d \in Dbs |-> readers[d] \ {t}]
  /\ mutex' = [c \in Children |-> IF mutex[c] = t THEN None ELSE mutex[c]]
  /\ UNCHANGED writer

DropGuards_KeepsMutex(t) ==
  /\ readers' = [d \in Dbs |-> readers[d] \ {t}]
  /\ writer' = [d \in Dbs |-> IF writer[d] = t THEN None ELSE writer[d]]
  /\ UNCHANGED mutex

(* A guard of a DB's lock or of a child's mutex lives in a local of the
   NIF: returning drops whatever the thread holds. *)
DropGuards(t) ==
  /\ readers' = [d \in Dbs |-> readers[d] \ {t}]
  /\ writer' = [d \in Dbs |-> IF writer[d] = t THEN None ELSE writer[d]]
  /\ mutex' = [c \in Children |-> IF mutex[c] = t THEN None ELSE mutex[c]]

(* An Erlang process can pass d to a NIF: it has the DbResource's term, or
   that of a snapshot, the tuple {snap, Db, Snapshot}. *)
Reachable(d) == term[d] \/ \E s \in Snaps : held[s] /\ owner[s] = d

(* References a ResourceArc counts: terms, the arguments of calls, and the
   fields of other resources (a DbLease has an owner of its own). *)
DbReferenced(d) ==
  \/ Reachable(d)
  \/ \E c \in Children : owner[c] = d \/ (lease[c] /\ of[c] = d)
  \/ \E t \in Threads : db[t] = d

ChildReferenced_NotByIterators(c) == held[c] \/ \E t \in Threads : on[t] = c

ChildReferenced(c) ==
  \/ held[c]
  \/ \E t \in Threads : on[t] = c
  \/ \E i \in Children : snapOwner[i] = c

Fresh(c) == phase[c] = "none" /\ \A t \in Threads : made[t] # c

(* The DB is there to be used, and the column family if the call names one *)
Ready(t) == pc[t] = IF op[t] \in CfOps THEN "cfHandle" ELSE "reading"

Goto(t, label) == pc' = [pc EXCEPT ![t] = label] /\ UNCHANGED res
Answer(t, r) == pc' = [pc EXCEPT ![t] = "done"] /\ res' = [res EXCEPT ![t] = r]

----------------------------------------------------------------------------
(* Starting and ending a call *)

Begin(t, o, d, c, new, label) ==
  /\ pc[t] = "idle" /\ o \in Ops
  /\ Goto(t, label)
  /\ op' = [op EXCEPT ![t] = o]
  /\ db' = [db EXCEPT ![t] = d]
  /\ on' = [on EXCEPT ![t] = c]
  /\ made' = [made EXCEPT ![t] = new]
  /\ UNCHANGED <<dbVars, kidVars>>

CallData(t, d, o) ==
  /\ o \in DataOps /\ Reachable(d)
  /\ Begin(t, o, d, None, None, "wantRead")

CallSpawn(t, d, o, c) ==
  /\ o \in SpawnOps /\ Reachable(d) /\ Fresh(c)
  /\ c \in IF o = "snapshot" THEN Snaps ELSE Iters
  /\ Begin(t, o, d, None, c, "wantRead")

CallWrite(t, d, o) ==
  /\ o \in WriteOps /\ Reachable(d)
  /\ Begin(t, o, d, None, None, "wantWrite")

(* The plain snapshot reads go straight to the snapshot's mutex; the *_cf
   ones take the owner's lock first, to resolve the name. *)
CallSnap(t, s, o, new) ==
  /\ o \in SnapOps /\ held[s]
  /\ IF o \in DeriveOps THEN new \in Iters /\ Fresh(new) ELSE new = None
  /\ Begin(t, o, owner[s], s, new, IF o \in CfOps THEN "wantRead" ELSE "wantMutex")

CallNext(t, i) ==
  /\ held[i]
  /\ Begin(t, "next", None, i, None, "wantMutex")

(* The result reaches the caller: a new child gets its term. *)
Return(t) ==
  LET new == made[t] IN
  /\ pc[t] = "done"
  /\ pc' = [pc EXCEPT ![t] = "idle"]
  /\ res' = [res EXCEPT ![t] = "none"]
  /\ op' = [op EXCEPT ![t] = "none"]
  /\ db' = [db EXCEPT ![t] = None]
  /\ on' = [on EXCEPT ![t] = None]
  /\ made' = [made EXCEPT ![t] = None]
  /\ IF new # None /\ res[t] = "ok"
       THEN /\ phase' = [phase EXCEPT ![new] = "live"]
            /\ held' = [held EXCEPT ![new] = TRUE]
       ELSE UNCHANGED <<phase, held>>
  /\ UNCHANGED <<dbVars, native, of, owner, snapOwner, lease, mutex>>

----------------------------------------------------------------------------
(* Calls under the shared lock: db_read! *)

WriterWaits(d) == \E u \in Threads : pc[u] = "wantWrite" /\ db[u] = d

CanRead(t) ==
  /\ pc[t] = "wantRead" /\ writer[db[t]] = None
  /\ WriterPreference => ~WriterWaits(db[t])

AcquireRead(t) ==
  /\ CanRead(t) /\ dbState[db[t]] = "open"
  /\ readers' = [readers EXCEPT ![db[t]] = @ \cup {t}]
  /\ Goto(t, "reading")
  /\ UNCHANGED <<dbState, term, hasCf, leases, writer, pathLock>>
  /\ UNCHANGED <<kidVars, op, db, on, made>>

(* read() finds None and drops the guard it just got. *)
ReadClosed(t) ==
  /\ CanRead(t) /\ dbState[db[t]] # "open"
  /\ Answer(t, "closed")
  /\ UNCHANGED <<dbVars, kidVars, op, db, on, made>>

LookupCf(t) ==
  /\ pc[t] = "reading" /\ op[t] \in CfOps
  /\ IF hasCf[db[t]]
       THEN Goto(t, "cfHandle") /\ UNCHANGED lockVars
       ELSE Answer(t, "unknown_cf") /\ DropGuards(t)
  /\ UNCHANGED <<dbState, term, hasCf, leases, pathLock>>
  /\ UNCHANGED <<phase, held, native, of, owner, snapOwner, lease>>
  /\ UNCHANGED <<op, db, on, made>>

FinishData(t) ==
  /\ Ready(t) /\ op[t] \in DataOps
  /\ Answer(t, "ok") /\ DropGuards(t)
  /\ UNCHANGED <<dbState, term, hasCf, leases, pathLock>>
  /\ UNCHANGED <<phase, held, native, of, owner, snapOwner, lease>>
  /\ UNCHANGED <<op, db, on, made>>

(* The native iterator or snapshot is created ... *)
CreateNative(t) ==
  LET c == made[t] IN
  /\ Ready(t) /\ op[t] \in SpawnOps
  /\ native' = [native EXCEPT ![c] = TRUE]
  /\ of' = [of EXCEPT ![c] = db[t]]
  /\ phase' = [phase EXCEPT ![c] = "made"]
  /\ Goto(t, "made")
  /\ UNCHANGED <<dbVars, held, owner, snapOwner, lease, mutex>>
  /\ UNCHANGED <<op, db, on, made>>

(* ... and only then does it get its lease, under the same read guard. *)
AcquireLease(t) ==
  LET c == made[t] IN
  /\ pc[t] = "made"
  /\ leases' = [leases EXCEPT ![db[t]] = @ + 1]
  /\ lease' = [lease EXCEPT ![c] = TRUE]
  /\ owner' = [owner EXCEPT ![c] = db[t]]
  /\ Goto(t, "built")
  /\ UNCHANGED <<dbState, term, hasCf, readers, writer, pathLock>>
  /\ UNCHANGED <<phase, held, native, of, snapOwner, mutex>>
  /\ UNCHANGED <<op, db, on, made>>

FinishSpawn(t) ==
  /\ pc[t] = "built"
  /\ Answer(t, "ok") /\ DropGuards(t)
  /\ UNCHANGED <<dbState, term, hasCf, leases, pathLock>>
  /\ UNCHANGED <<phase, held, native, of, owner, snapOwner, lease>>
  /\ UNCHANGED <<op, db, on, made>>

----------------------------------------------------------------------------
(* Calls on an iterator or a snapshot, under its mutex *)

MutexFree_Unchecked(c) == TRUE
MutexFree(c) == mutex[c] = None

AcquireMutex(t) ==
  /\ pc[t] = "wantMutex" \/ (op[t] \in SnapCfOps /\ Ready(t))
  /\ MutexFree(on[t])
  /\ mutex' = [mutex EXCEPT ![on[t]] = t]
  /\ Goto(t, "using")
  /\ UNCHANGED <<dbVars, phase, held, native, of, owner, snapOwner, lease>>
  /\ UNCHANGED <<op, db, on, made>>

FinishUse(t) ==
  /\ pc[t] = "using" /\ op[t] \notin DeriveOps
  /\ Answer(t, "ok") /\ DropGuards(t)
  /\ UNCHANGED <<dbState, term, hasCf, leases, pathLock>>
  /\ UNCHANGED <<phase, held, native, of, owner, snapOwner, lease>>
  /\ UNCHANGED <<op, db, on, made>>

(* An iterator over a snapshot takes no lease: it keeps the snapshot. *)
CreateSnapIter(t) ==
  LET c == made[t] IN
  /\ pc[t] = "using" /\ op[t] \in DeriveOps
  /\ native' = [native EXCEPT ![c] = TRUE]
  /\ of' = [of EXCEPT ![c] = db[t]]
  /\ phase' = [phase EXCEPT ![c] = "made"]
  /\ owner' = [owner EXCEPT ![c] = owner[on[t]]]
  /\ snapOwner' = [snapOwner EXCEPT ![c] = on[t]]
  /\ Goto(t, "built")
  /\ UNCHANGED <<dbVars, held, lease, mutex, op, db, on, made>>

----------------------------------------------------------------------------
(* Calls under the exclusive lock: db_write! and close *)

CanWrite_DespiteReaders(t) == pc[t] = "wantWrite" /\ writer[db[t]] = None

CanWrite(t) ==
  /\ pc[t] = "wantWrite"
  /\ writer[db[t]] = None /\ readers[db[t]] = {}

(* close looks at the Option itself, once it has the lock. *)
AcquireWrite(t) ==
  /\ CanWrite(t)
  /\ op[t] = "close" \/ dbState[db[t]] = "open"
  /\ writer' = [writer EXCEPT ![db[t]] = t]
  /\ Goto(t, "writing")
  /\ UNCHANGED <<dbState, term, hasCf, leases, readers, pathLock>>
  /\ UNCHANGED <<kidVars, op, db, on, made>>

WriteClosed(t) ==
  /\ CanWrite(t) /\ op[t] # "close" /\ dbState[db[t]] # "open"
  /\ Answer(t, "closed")
  /\ UNCHANGED <<dbVars, kidVars, op, db, on, made>>

CreateCf(t) ==
  /\ pc[t] = "writing" /\ op[t] = "create_cf"
  /\ hasCf' = [hasCf EXCEPT ![db[t]] = TRUE]
  /\ Answer(t, IF hasCf[db[t]] THEN "error" ELSE "ok") /\ DropGuards(t)
  /\ UNCHANGED <<dbState, term, leases, pathLock>>
  /\ UNCHANGED <<phase, held, native, of, owner, snapOwner, lease>>
  /\ UNCHANGED <<op, db, on, made>>

DropCf(t) ==
  /\ pc[t] = "writing" /\ op[t] = "drop_cf"
  /\ hasCf' = [hasCf EXCEPT ![db[t]] = FALSE]
  /\ Answer(t, IF hasCf[db[t]] THEN "ok" ELSE "error") /\ DropGuards(t)
  /\ UNCHANGED <<dbState, term, leases, pathLock>>
  /\ UNCHANGED <<phase, held, native, of, owner, snapOwner, lease>>
  /\ UNCHANGED <<op, db, on, made>>

CloseReply(t, r) ==
  /\ Answer(t, r) /\ DropGuards(t)
  /\ UNCHANGED <<dbState, term, hasCf, leases, pathLock>>
  /\ UNCHANGED <<phase, held, native, of, owner, snapOwner, lease>>
  /\ UNCHANGED <<op, db, on, made>>

CloseNoop(t) ==
  /\ pc[t] = "writing" /\ op[t] = "close" /\ dbState[db[t]] # "open"
  /\ CloseReply(t, "ok")

Leased_ByMoreThanOne(d) == leases[d] > 1
Leased(d) == leases[d] # 0

CloseBusy(t) ==
  /\ pc[t] = "writing" /\ op[t] = "close" /\ dbState[db[t]] = "open"
  /\ Leased(db[t])
  /\ CloseReply(t, "resource_busy")

CloseTake_UnlocksFirst(t) ==
  /\ pc[t] = "writing" /\ op[t] = "close" /\ dbState[db[t]] = "open"
  /\ ~Leased(db[t])
  /\ dbState' = [dbState EXCEPT ![db[t]] = "closing"]
  /\ hasCf' = [hasCf EXCEPT ![db[t]] = FALSE]
  /\ Goto(t, "closing") /\ DropGuards(t)
  /\ UNCHANGED <<term, leases, pathLock, phase, held, native, of, owner>>
  /\ UNCHANGED <<snapOwner, lease, op, db, on, made>>

CloseTake(t) ==
  /\ pc[t] = "writing" /\ op[t] = "close" /\ dbState[db[t]] = "open"
  /\ ~Leased(db[t])
  /\ dbState' = [dbState EXCEPT ![db[t]] = "closing"]
  /\ hasCf' = [hasCf EXCEPT ![db[t]] = FALSE]
  /\ Goto(t, "closing")
  /\ UNCHANGED <<term, leases, readers, writer, pathLock>>
  /\ UNCHANGED <<kidVars, op, db, on, made>>

Unlocked_Never(d) == pathLock
Unlocked(d) == IF pathLock = d THEN None ELSE pathLock

(* drop(db): RocksDB closes its files and gives the path's LOCK back. *)
CloseDrop(t) ==
  /\ pc[t] = "closing"
  /\ dbState' = [dbState EXCEPT ![db[t]] = "closed"]
  /\ pathLock' = Unlocked(db[t])
  /\ Answer(t, "ok") /\ DropGuards(t)
  /\ UNCHANGED <<term, hasCf, leases>>
  /\ UNCHANGED <<phase, held, native, of, owner, snapOwner, lease>>
  /\ UNCHANGED <<op, db, on, made>>

----------------------------------------------------------------------------
(* Opening, and what the Erlang VM does: a refused open changes nothing *)

NewDb(d, cf) ==
  /\ dbState[d] = "none"
  /\ dbState' = [dbState EXCEPT ![d] = "open"]
  /\ term' = [term EXCEPT ![d] = TRUE]
  /\ hasCf' = [hasCf EXCEPT ![d] = cf]
  /\ UNCHANGED <<leases, readers, writer, kidVars, callVars>>

(* open and open_cf: the path must not be locked by another DB. *)
Open(d, cf) ==
  /\ pathLock = None /\ pathLock' = d
  /\ NewDb(d, cf)

(* open_for_read_only and open_cf_for_read_only take no LOCK. *)
OpenReadOnly(d, cf) ==
  /\ UNCHANGED pathLock
  /\ NewDb(d, cf)

(* The last process that has the term drops it, or dies. *)
ReleaseDbTerm(d) ==
  /\ term[d]
  /\ term' = [term EXCEPT ![d] = FALSE]
  /\ UNCHANGED <<dbState, hasCf, leases, readers, writer, pathLock>>
  /\ UNCHANGED <<kidVars, callVars>>

ReleaseChildTerm(c) ==
  /\ held[c]
  /\ held' = [held EXCEPT ![c] = FALSE]
  /\ UNCHANGED <<dbVars, phase, native, of, owner, snapOwner, lease, mutex>>
  /\ UNCHANGED callVars

(* The destructor of an unreferenced child drops its fields in the order
   they are declared: the native handle, _owner, _snapshot_owner, _lease. *)
BeginDrop(c) ==
  /\ phase[c] = "live" /\ ~ChildReferenced(c)
  /\ phase' = [phase EXCEPT ![c] = "dropping"]
  /\ UNCHANGED <<dbVars, held, native, of, owner, snapOwner, lease, mutex>>
  /\ UNCHANGED callVars

DropNative(c) ==
  /\ phase[c] = "dropping" /\ native[c]
  /\ native' = [native EXCEPT ![c] = FALSE]
  /\ UNCHANGED <<dbVars, phase, held, of, owner, snapOwner, lease, mutex>>
  /\ UNCHANGED callVars

DropOwner(c) ==
  /\ phase[c] = "dropping" /\ ~native[c] /\ owner[c] # None
  /\ owner' = [owner EXCEPT ![c] = None]
  /\ UNCHANGED <<dbVars, phase, held, native, of, snapOwner, lease, mutex>>
  /\ UNCHANGED callVars

DropSnapOwner(c) ==
  /\ phase[c] = "dropping" /\ owner[c] = None /\ snapOwner[c] # None
  /\ snapOwner' = [snapOwner EXCEPT ![c] = None]
  /\ UNCHANGED <<dbVars, phase, held, native, of, owner, lease, mutex>>
  /\ UNCHANGED callVars

Released_Never(c) == leases
Released_WithoutLease(c) == [leases EXCEPT ![of[c]] = @ - 1]
Released(c) == IF lease[c] THEN [leases EXCEPT ![of[c]] = @ - 1] ELSE leases

DropLease(c) ==
  /\ phase[c] = "dropping" /\ ~native[c]
  /\ owner[c] = None /\ snapOwner[c] = None
  /\ leases' = Released(c)
  /\ lease' = [lease EXCEPT ![c] = FALSE]
  /\ phase' = [phase EXCEPT ![c] = "none"]
  /\ of' = [of EXCEPT ![c] = None]
  /\ UNCHANGED <<dbState, term, hasCf, readers, writer, pathLock>>
  /\ UNCHANGED <<held, native, owner, snapOwner, mutex, callVars>>

(* The destructor of a DbResource nothing refers to, closed or not. *)
FreeDb(d) ==
  /\ dbState[d] # "none" /\ ~DbReferenced(d)
  /\ dbState' = [dbState EXCEPT ![d] = "none"]
  /\ hasCf' = [hasCf EXCEPT ![d] = FALSE]
  /\ pathLock' = Unlocked(d)
  /\ UNCHANGED <<term, leases, readers, writer, kidVars, callVars>>

----------------------------------------------------------------------------
Init ==
  /\ dbState = [d \in Dbs |-> "none"]
  /\ term = [d \in Dbs |-> FALSE]
  /\ hasCf = [d \in Dbs |-> FALSE]
  /\ leases = [d \in Dbs |-> 0]
  /\ readers = [d \in Dbs |-> {}]
  /\ writer = [d \in Dbs |-> None]
  /\ pathLock = None
  /\ phase = [c \in Children |-> "none"]
  /\ held = [c \in Children |-> FALSE]
  /\ native = [c \in Children |-> FALSE]
  /\ of = [c \in Children |-> None]
  /\ owner = [c \in Children |-> None]
  /\ snapOwner = [c \in Children |-> None]
  /\ lease = [c \in Children |-> FALSE]
  /\ mutex = [c \in Children |-> None]
  /\ pc = [t \in Threads |-> "idle"]
  /\ op = [t \in Threads |-> "none"]
  /\ db = [t \in Threads |-> None]
  /\ on = [t \in Threads |-> None]
  /\ made = [t \in Threads |-> None]
  /\ res = [t \in Threads |-> "none"]

Call(t) ==
  \/ \E d \in Dbs, o \in DataOps : CallData(t, d, o)
  \/ \E d \in Dbs, o \in SpawnOps, c \in Children : CallSpawn(t, d, o, c)
  \/ \E d \in Dbs, o \in WriteOps : CallWrite(t, d, o)
  \/ \E s \in Snaps, o \in SnapOps, new \in Iters \cup {None} : CallSnap(t, s, o, new)
  \/ \E i \in Iters : CallNext(t, i)

ReadStep(t) ==
  \/ AcquireRead(t) \/ ReadClosed(t) \/ LookupCf(t) \/ FinishData(t)
  \/ CreateNative(t) \/ AcquireLease(t) \/ FinishSpawn(t)

ChildStep(t) == AcquireMutex(t) \/ FinishUse(t) \/ CreateSnapIter(t)

WriteStep(t) ==
  \/ AcquireWrite(t) \/ WriteClosed(t) \/ CreateCf(t) \/ DropCf(t)
  \/ CloseNoop(t) \/ CloseBusy(t) \/ CloseTake(t) \/ CloseDrop(t)

Destruct(c) ==
  BeginDrop(c) \/ DropNative(c) \/ DropOwner(c) \/ DropSnapOwner(c) \/ DropLease(c)

OpenStep(d) == \E cf \in BOOLEAN : Open(d, cf) \/ OpenReadOnly(d, cf)

Next ==
  \/ \E t \in Threads : Call(t) \/ ReadStep(t) \/ ChildStep(t) \/ WriteStep(t) \/ Return(t)
  \/ \E d \in Dbs : OpenStep(d) \/ ReleaseDbTerm(d) \/ FreeDb(d)
  \/ \E c \in Children : ReleaseChildTerm(c) \/ Destruct(c)

Spec == Init /\ [][Next]_vars

(* The schedulers run every thread, the standard library's locks do not
   starve a thread for ever, and the VM runs the destructors it owes. *)
Fairness ==
  /\ \A t \in Threads : /\ SF_vars(ReadStep(t)) /\ SF_vars(WriteStep(t))
                         /\ SF_vars(ChildStep(t)) /\ WF_vars(Return(t))
  /\ \A c \in Children : WF_vars(Destruct(c))
  /\ \A d \in Dbs : WF_vars(FreeDb(d))

FairSpec == Spec /\ Fairness

----------------------------------------------------------------------------
(* Safety *)

Labels == {"idle", "wantRead", "reading", "cfHandle", "made", "built",
           "wantMutex", "using", "wantWrite", "writing", "closing", "done"}
Answers == {"none", "ok", "closed", "unknown_cf", "error", "resource_busy"}

(* Every variable has its type; the lease counter, an AtomicUsize, never
   goes below zero (the debug_assert of DbLease::drop). *)
TypeOK ==
  /\ dbState \in [Dbs -> {"none", "open", "closing", "closed"}]
  /\ term \in [Dbs -> BOOLEAN]
  /\ hasCf \in [Dbs -> BOOLEAN]
  /\ leases \in [Dbs -> Nat]
  /\ readers \in [Dbs -> SUBSET Threads]
  /\ writer \in [Dbs -> Threads \cup {None}]
  /\ pathLock \in Dbs \cup {None}
  /\ phase \in [Children -> {"none", "made", "live", "dropping"}]
  /\ held \in [Children -> BOOLEAN]
  /\ native \in [Children -> BOOLEAN]
  /\ of \in [Children -> Dbs \cup {None}]
  /\ owner \in [Children -> Dbs \cup {None}]
  /\ snapOwner \in [Children -> Snaps \cup {None}]
  /\ lease \in [Children -> BOOLEAN]
  /\ mutex \in [Children -> Threads \cup {None}]
  /\ pc \in [Threads -> Labels]
  /\ op \in [Threads -> AllOps \cup {"none"}]
  /\ db \in [Threads -> Dbs \cup {None}]
  /\ on \in [Threads -> Children \cup {None}]
  /\ made \in [Threads -> Children \cup {None}]
  /\ res \in [Threads -> Answers]

LeaseHolders(d) == {c \in Children : lease[c] /\ of[c] = d}

(* The AtomicUsize counts the live DbLease values of its DB, in every
   interleaving of creations, failed creations and field-by-field drops:
   it neither leaks (close would be busy for ever) nor underflows. *)
LeaseCount == \A d \in Dbs : leases[d] = Cardinality(LeaseHolders(d))

(* No native iterator or snapshot outlives the DB it points into: neither
   close nor the destructor of the DbResource gets ahead of it, although
   the 'static handles of a snapshot's iterators have no lease. *)
NoDanglingHandle == \A c \in Children : native[c] => dbState[of[c]] = "open"

UsesDb(t) == pc[t] \in {"reading", "cfHandle", "made", "built"}
UsesCf(t) == pc[t] = "cfHandle" \/ (pc[t] = "using" /\ op[t] \in SnapCfOps)

(* While a call works inside RocksDB its DB is open, the column family it
   looked up by name has not been dropped under it, and the DB is not being
   closed: what the guards of db_read! and db_write! are for. *)
DbStaysOpenInCalls ==
  \A t \in Threads :
    /\ UsesDb(t) => dbState[db[t]] = "open"
    /\ UsesCf(t) => dbState[db[t]] = "open" /\ hasCf[db[t]]
    /\ pc[t] = "writing" /\ op[t] # "close" => dbState[db[t]] = "open"

(* A DBIterator or Snapshot in use exists, is not being dropped, and is in
   use by one thread only (DBIterator is not Sync). *)
HandleUseExclusive ==
  \A t \in Threads : pc[t] = "using" =>
    /\ native[on[t]] /\ phase[on[t]] = "live"
    /\ \A u \in Threads \ {t} : pc[u] = "using" => on[u] # on[t]

(* The path's LOCK belongs to a DB that still has its files open, and a
   close that answered ok has given it back, whichever of several closers
   did the work (ADR002: "before returning"). *)
PathReleasedByClose ==
  /\ pathLock # None => dbState[pathLock] \in {"open", "closing"}
  /\ \A t \in Threads : op[t] = "close" /\ res[t] = "ok" =>
       dbState[db[t]] = "closed" /\ pathLock # db[t]

Busy(t) == pc[t] # "idle"

Blocked(t) ==
  \/ pc[t] = "wantRead" /\ ~CanRead(t)
  \/ pc[t] = "wantWrite" /\ ~CanWrite(t)
  \/ pc[t] = "wantMutex" /\ ~MutexFree(on[t])
  \/ op[t] \in SnapCfOps /\ Ready(t) /\ ~MutexFree(on[t])

(* Not every call in progress waits for another one: the db lock is taken
   before a snapshot's mutex, never after it, and no guard outlives its
   call. *)
NoLockCycle ==
  (\E t \in Threads : Busy(t)) => \E t \in Threads : Busy(t) /\ ~Blocked(t)

----------------------------------------------------------------------------
(* Liveness *)

(* Every NIF call returns: no lock order in the code deadlocks. *)
CallsReturn == \A t \in Threads : pc[t] # "idle" ~> pc[t] = "idle"

(* No Erlang process has a child of d and no call is about d. *)
Quiet(d) ==
  /\ \A c \in Children : of[c] = d => ~held[c]
  /\ \A t \in Threads : db[t] # d /\ (on[t] # None => of[on[t]] # d)

(* Once the processes let go of the children the leases drain, so that a
   caller that retries close is not answered resource_busy for ever. *)
LeasesDrain == \A d \in Dbs : <>[]Quiet(d) => <>[](leases[d] = 0)

(* A DB nobody refers to and nobody closed gives its path back. *)
AbandonedDbReleasesPath ==
  \A d \in Dbs : <>[](Quiet(d) /\ ~Reachable(d)) => <>[](pathLock # d)

----------------------------------------------------------------------------
(* The contract: a child exists while it has a native handle or a lease,
   and a call has taken effect once its fate is sealed. *)

Kind(o) ==
  CASE o \in DataOps -> "use"
    [] o \in SpawnOps -> "spawn"
    [] o \in DeriveOps -> "derive"
    [] o \in {"create_cf", "drop_cf"} -> "meta"
    [] o = "close" -> "close"
    [] o \in {"snap_get", "snap_get_cf", "next"} -> "child"
    [] OTHER -> "none"

Sealed(t) == pc[t] \in {"made", "built", "closing"}

Contract == INSTANCE DbContract WITH
  status <- [d \in Dbs |-> IF dbState[d] = "closing" THEN "closed" ELSE dbState[d]],
  kids   <- [c \in Children |-> IF native[c] \/ lease[c] THEN of[c] ELSE None],
  call   <- [t \in Threads |-> IF pc[t] = "idle" THEN "idle"
               ELSE IF pc[t] = "done" \/ Sealed(t) THEN "answered" ELSE "invoked"],
  kind   <- [t \in Threads |-> Kind(op[t])],
  db     <- [t \in Threads |-> IF on[t] = None THEN db[t] ELSE of[on[t]]],
  new    <- made,
  answer <- [t \in Threads |-> IF Sealed(t) THEN "ok" ELSE res[t]]

(* Every NIF call takes effect at one instant, as the contract has it: a
   close is ok only if no child exists then and busy only if one does, a
   call on a child never finds its DB closed. *)
ImplementsContract == Contract!Spec
=============================================================================
