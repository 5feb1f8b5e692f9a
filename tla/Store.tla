--------------------------------- MODULE Store ---------------------------------
(***************************************************************************)
(* One DB path and the calls on it: open with an option map and names,     *)
(* create_cf, drop_cf, single writes, write_batch, snapshots, destroy, and *)
(* a handle that only reads.  As in RocksDB a write adds versions with a   *)
(* sequence number to a family's id, and a reader looks for the latest     *)
(* version up to its number; names are looked up at every call.            *)
(*                                                                         *)
(* DbLifecycle shows that a call runs as if alone and that the DB stays    *)
(* open meanwhile: here a call is one action.                              *)
(***************************************************************************)
EXTENDS OpenOptions, FiniteSets

CONSTANTS Names,        \* of column families, "default" included
          Keys,         \* 1 .. n, in the order of the store
          Terms,        \* option maps callers give
          Writes,       \* operations of put, merge, delete, delete_range (and _cf)
          Batches,      \* lists of operations given to write_batch, Junk among them
          Snaps,        \* snapshot resources
          Closed,       \* the state of a handle or a snapshot that is not there
          MaxSeq,       \* bound on sequence numbers
          MaxFamilies   \* bound on family ids

ASSUME StoreAssumption ==
  /\ "default" \in Names /\ IsFiniteSet(Names) /\ MaxSeq \in Nat /\ MaxFamilies \in Nat
  /\ Junk \notin Writes
  /\ \A b \in Batches : b \in Seq({b[i] : i \in DOMAIN b})
  /\ \A op \in Writes \cup UNION {{b[i] : i \in DOMAIN b} : b \in Batches} :
       op # Junk /\ op.kind # "delete_range" => op.key \in Keys

VARIABLES
  catalog,    \* families at the path: name -> id; empty without a DB
  lastId,     \* ids are not used twice in a DB
  versions,   \* [family, key, seq, value]
  seq,        \* latest_sequence_number
  db,         \* the open DB: the map it was opened with and its settings
  opened,     \* its families: name -> the map it was given and its settings
  snaps,      \* snapshot -> its number, and what was seen when it was taken
  view,       \* whether there is a handle that only reads
  reply       \* the answer to the last call

vars == <<catalog, lastId, versions, seq, db, opened, snaps, view, reply>>

data == <<catalog, lastId, versions, seq>>

NoKeys == [k \in Keys |-> <<>>]

-----------------------------------------------------------------------------
(* Reading. *)

\* The value of a key of a family up to a sequence number.
Lookup(vs, id, key, at) ==
  LET found == {v \in vs : v.family = id /\ v.key = key /\ v.seq <= at}
  IN  IF found = {} THEN <<>>
      ELSE (CHOOSE v \in found : \A w \in found : w.seq <= v.seq).value

ListCf == DOMAIN catalog

Shown(families, at) ==
  [f \in DOMAIN families |-> [k \in Keys |-> Lookup(versions, families[f], k, at)]]

\* get, multi_get and their _cf variants, for the names that are known.
Contents == Shown(catalog, seq)

\* Flaw: reads as get_cf does.
SnapshotGet_Latest(s, f, key) == Lookup(versions, catalog[f], key, seq)

\* snapshot_get_cf: the name as it is known now, the number of the snapshot.
SnapshotGet(s, f, key) == Lookup(versions, catalog[f], key, snaps[s].at)

-----------------------------------------------------------------------------
Contract == INSTANCE KvStore WITH
              map <- Contents, said <- reply,
              Calls <- {<<op>> : op \in Writes}
                         \cup {b \in Batches : \A i \in DOMAIN b : b[i] # Junk}

Ok(n) == reply' = [tag |-> "ok", n |-> n]
\* Which error it is is told apart where a call is refused, not in the answer.
Error(tag) == tag # "ok" /\ reply' = [tag |-> "error", n |-> 0]
Refuse(tag) == Error(tag) /\ UNCHANGED <<data, db, opened, snaps, view>>

-----------------------------------------------------------------------------
(* Opening. *)

\* The families get the next ids; a DB that is not there yet starts with one.
Added(names) ==
  LET new == names \ ListCf
      ids == CHOOSE ids \in [new -> lastId + 1 .. lastId + Cardinality(new)] :
               \A f, g \in new : f # g => ids[f] # ids[g]
  IN  /\ catalog' = Over(ids, catalog)
      /\ lastId' = lastId + Cardinality(new)

Exists == ListCf # {}

\* rust-rocksdb adds "default" to the names it is given.
Named(names) == names \cup {"default"}

\* open, which takes no names, gives its options to "default" too; open_cf opens
\* all families with RocksDB's own.
FamilyMap(names, term) == IF names = {} THEN term ELSE NothingSet

Family(asked) == [asked |-> asked, settings |-> Part(Applied(asked), FamilyFields)]

OpenError(names, settings) ==
  \/ db # Closed                                     \* the path is locked
  \/ Exists /\ IsOn(settings, "set_error_if_exists")
  \/ ~Exists /\ ~IsOn(settings, "create_if_missing")
  \/ ~(ListCf \subseteq Named(names))
  \/ ~(Named(names) \subseteq ListCf \cup {"default"})
       /\ ~IsOn(settings, "create_missing_column_families")

\* open (names = {}) and open_cf
Open(names, term) ==
  LET settings == Applied(term)
  IN  /\ Refusals(term) = {}
      /\ ~OpenError(names, settings)
      /\ Added(Named(names))
      /\ lastId' <= MaxFamilies
      /\ db' = [asked    |-> term,
                settings |-> Part(settings, DOMAIN settings \ FamilyFields)]
      /\ opened' = [f \in Named(names) |-> Family(FamilyMap(names, term))]
      /\ Ok(0)
      /\ UNCHANGED <<versions, seq, snaps, view>>

\* Families are missed only after the DB has been made, or before.
OpenFails(names, term) ==
  /\ Refusals(term) = {}
  /\ OpenError(names, Applied(term))
  /\ \/ UNCHANGED data
     \/ /\ ~Exists /\ db = Closed /\ IsOn(Applied(term), "create_if_missing")
        /\ Added({"default"}) /\ lastId' <= MaxFamilies
        /\ UNCHANGED <<versions, seq>>
  /\ Error("failed")
  /\ UNCHANGED <<db, opened, snaps, view>>

\* open, open_cf, create_cf, destroy, ... with a map that is not taken.
RefusedOptions(term) == \E r \in Refusals(term) : Refuse(r[1])

\* resource_busy while a snapshot is there; on a closed handle close is ok.
Close ==
  \/ /\ \A s \in Snaps : snaps[s] = Closed
     /\ db' = Closed /\ opened' = NothingSet
     /\ Ok(0)
     /\ UNCHANGED <<data, snaps, view>>
  \/ db # Closed /\ (\E s \in Snaps : snaps[s] # Closed) /\ Refuse("resource_busy")

\* Refused while the path is locked; a handle that only reads takes no lock.
Destroy(term) ==
  /\ Refusals(term) = {}
  /\ IF db # Closed THEN Refuse("failed")
     ELSE /\ catalog' = [f \in {} |-> 0] /\ lastId' = 0 /\ versions' = {} /\ seq' = 0
          /\ Ok(0)
          /\ UNCHANGED <<db, opened, snaps, view>>

-----------------------------------------------------------------------------
(* Column families. *)

CreateCf(f, term) ==
  /\ db # Closed /\ Refusals(term) = {}
  /\ IF f \in ListCf THEN Refuse("failed")
     ELSE /\ Added({f}) /\ lastId' <= MaxFamilies
          /\ opened' = Over([g \in {f} |-> Family(term)], opened)
          /\ Ok(0)
          /\ UNCHANGED <<versions, seq, db, snaps, view>>

DropCf(f) ==
  /\ db # Closed
  /\ IF f \in ListCf \ {"default"}
     THEN /\ catalog' = [g \in ListCf \ {f} |-> catalog[g]]
          /\ opened' = [g \in ListCf \ {f} |-> opened[g]]
          /\ Ok(0)
          /\ UNCHANGED <<lastId, versions, seq, db, snaps, view>>
     ELSE Refuse("failed")

-----------------------------------------------------------------------------
(* Writing. *)

NewVersions(vs, op, n) ==
  LET id == catalog[op.family]
  IN  {[family |-> id, key |-> k, seq |-> n,
        value |-> Contract!Effect(op, Lookup(vs, id, k, n))] : k \in Contract!Touched(op)}

\* Flaw: a batch counts as one write.
Commit_OneNumber(ops) ==
  LET added[i \in 0 .. Len(ops)] ==
        IF i = 0 THEN versions
        ELSE added[i - 1] \cup NewVersions(added[i - 1], ops[i], seq + i)
  IN  /\ versions' = added[Len(ops)]
      /\ seq' = seq + 1 /\ seq' <= MaxSeq
      /\ UNCHANGED <<catalog, lastId, db, opened, snaps, view>>

\* Each operation of a batch has a number of its own; readers get the last.
Commit(ops) ==
  LET added[i \in 0 .. Len(ops)] ==
        IF i = 0 THEN versions
        ELSE added[i - 1] \cup NewVersions(added[i - 1], ops[i], seq + i)
  IN  /\ versions' = added[Len(ops)]
      /\ seq' = seq + Len(ops) /\ seq' <= MaxSeq
      /\ UNCHANGED <<catalog, lastId, db, opened, snaps, view>>

Write(op) ==
  /\ db # Closed
  /\ IF op.family \in ListCf THEN Commit(<<op>>) /\ Ok(1) ELSE Refuse("unknown_cf")

\* The batch is built before anything is written.
Decodable(op) == op # Junk /\ op.family \in ListCf

\* Flaw: what was decoded before the bad operation is written.
WriteBatch_AsItGoes(ops) ==
  LET good == SelectSeq(ops, Decodable)
  IN  /\ db # Closed
      /\ Commit(good)
      /\ IF good = ops THEN Ok(Len(ops)) ELSE Error("badarg")

WriteBatch(ops) ==
  /\ db # Closed
  /\ IF \A i \in DOMAIN ops : Decodable(ops[i])
     THEN Commit(ops) /\ Ok(Len(ops))
     ELSE Refuse("badarg")

-----------------------------------------------------------------------------
(* Snapshots and the read-only handle. *)

Snapshot(s) ==
  /\ db # Closed /\ snaps[s] = Closed
  /\ snaps' = [snaps EXCEPT ![s] = [at |-> seq, families |-> catalog, saw |-> Contents]]
  /\ Ok(0)
  /\ UNCHANGED <<data, db, opened, view>>

Release(s) ==
  /\ snaps[s] # Closed
  /\ snaps' = [snaps EXCEPT ![s] = Closed]
  /\ Ok(0)
  /\ UNCHANGED <<data, db, opened, view>>

\* A second instance on the path, beside a writer or not; some of the families
\* will do.  What it shows beside a writer RocksDB does not say.
OpenReadOnly(names, term) ==
  /\ Refusals(term) = {}
  /\ IF Exists /\ names \subseteq ListCf
     THEN view' = TRUE /\ Ok(0) /\ UNCHANGED <<data, db, opened, snaps>>
     ELSE Refuse("failed")

\* Another may be left.
CloseReadOnly == view /\ view' \in BOOLEAN /\ Ok(0) /\ UNCHANGED <<data, db, opened, snaps>>

WriteReadOnly == view /\ Refuse("read_only")

-----------------------------------------------------------------------------
Init == /\ catalog = [f \in {} |-> 0] /\ lastId = 0 /\ versions = {} /\ seq = 0
        /\ db = Closed /\ opened = NothingSet /\ snaps = [s \in Snaps |-> Closed] /\ view = FALSE
        /\ reply = [tag |-> "ok", n |-> 0]

Next == \/ \E names \in SUBSET Names, t \in Terms :
             Open(names, t) \/ OpenFails(names, t) \/ OpenReadOnly(names, t)
        \/ \E t \in Terms : RefusedOptions(t) \/ Destroy(t)
        \/ Close
        \/ \E f \in Names, t \in Terms : CreateCf(f, t)
        \/ \E f \in Names : DropCf(f)
        \/ \E op \in Writes : Write(op)
        \/ \E ops \in Batches : WriteBatch(ops)
        \/ \E s \in Snaps : Snapshot(s) \/ Release(s)
        \/ CloseReadOnly \/ WriteReadOnly

Spec == Init /\ [][Next]_vars

-----------------------------------------------------------------------------
TypeOK ==
  /\ ListCf \subseteq Names /\ (Exists => "default" \in ListCf)
  /\ lastId \in 0 .. MaxFamilies /\ seq \in 0 .. MaxSeq
  /\ \A f, g \in ListCf : catalog[f] \in 1 .. lastId /\ (f # g => catalog[f] # catalog[g])
  /\ \A v \in versions : v.family \in 1 .. lastId /\ v.key \in Keys /\ v.seq \in 1 .. seq
  /\ \A v, w \in versions :
       v.family = w.family /\ v.key = w.key /\ v.seq = w.seq => v = w
  /\ db # Closed => Exists
  /\ view \in BOOLEAN
  /\ \A s \in Snaps : snaps[s] # Closed => db # Closed /\ snaps[s].at <= seq

(* A snapshot shows of every family what was there when it was taken, and   *)
(* nothing of one that was made since, also under the name of one that was  *)
(* dropped (894).                                                           *)
SnapshotStable ==
  \A s \in Snaps : snaps[s] # Closed =>
    \A f \in ListCf, k \in Keys :
      SnapshotGet(s, f, k) =
        IF f \in DOMAIN snaps[s].saw /\ snaps[s].families[f] = catalog[f]
        THEN snaps[s].saw[f][k] ELSE <<>>

-----------------------------------------------------------------------------
(* What a map asks for, said without the order in which it is gone through. *)

\* Single settings among the keys have the value they were given.
Keeps(asked, keys, settings) ==
  \A k \in keys \ (PresetKeys \cup {MinLevel}) :
    /\ k \in DOMAIN settings
    /\ settings[k] = IF k \in DOMAIN Choices THEN Spelling[asked[k]] ELSE asked[k]

\* A first level to compress comes before the preset, and both before the type
\* alone: a type beside the level preset counts only with a first level.
CompressionAsked(asked, depth) ==
  LET type == IF Given(asked, "set_compression_type")
              THEN Spelling[asked["set_compression_type"]] ELSE DefaultType
  IN  IF Given(asked, MinLevel) /\ asked[MinLevel] >= 0
      THEN IF depth < asked[MinLevel] THEN "none" ELSE type
      ELSE IF Given(asked, "optimize_level_style_compaction")
      THEN IF depth < 2 THEN "none" ELSE PresetType
      ELSE type

(* The DB and each of its families, whether open, open_cf or create_cf      *)
(* brought it and whatever was made and dropped since, have the single      *)
(* settings its own map asked for, whatever presets came with them; each    *)
(* level is compressed as the first level to compress, the level preset and *)
(* the type say, in this order (options.rs 1036-1064, 1301).                *)
SettingsInEffect ==
  db # Closed =>
    /\ Keeps(db.asked, DOMAIN db.asked \ FamilyFields, db.settings)
    /\ DOMAIN opened = ListCf
    /\ \A f \in ListCf :
         LET asked == opened[f].asked
             settings == opened[f].settings
         IN  /\ Keeps(asked, DOMAIN asked \cap FamilyFields, settings)
             /\ \A d \in Depths : CompressionAt(settings, d) = CompressionAsked(asked, d)

(* The store implements the map of KvStore: each call applies all of its    *)
(* operations and says so, or none and answers with an error (408); options *)
(* that are not taken change nothing (OPTIONS.md 5); opening and closing    *)
(* keep families and rows.                                                  *)
ImplementsKvStore == Contract!Spec
===============================================================================
