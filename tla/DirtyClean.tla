------------------------------ MODULE DirtyClean ------------------------------
(***************************************************************************)
(* The checkpoint protocol of ADR002 on top of Durability, as the writer   *)
(* in test/support/durability_writer.exs runs it: a dirty marker with      *)
(* sync, the rows of the group without, a clean marker with sync, then the *)
(* source cursor.  The writer and the DB may stop at any point; after a    *)
(* reopen the writer goes on from what it finds in the DB.                 *)
(***************************************************************************)
EXTENDS Durability

CONSTANTS Groups,        \* number of groups
          RowFamily,     \* the family of each row of a group: a sequence
          MarkerFamily,  \* the family of the markers and the cursor
          MaxFaults      \* bound on stops

NoRole == [kind |-> "other", group |-> 0, row |-> 0]
Rows   == DOMAIN RowFamily
Role(kind, g, r) == [kind |-> kind, group |-> g, row |-> r]
WriterRoles == {Role(k, g, 0) : k \in {"dirty", "clean", "cursor"}, g \in 1 .. Groups}
                 \cup {Role("row", g, r) : g \in 1 .. Groups, r \in Rows}

ASSUME DirtyCleanAssumption ==
  /\ Groups \in Nat \ {0} /\ MaxFaults \in Nat
  /\ RowFamily \in Seq(Families) /\ RowFamily # <<>> /\ MarkerFamily \in Families
  /\ {MarkerFamily} \in Shapes /\ \A r \in Rows : {RowFamily[r]} \in Shapes
  /\ WriterRoles \subseteq Roles

VARIABLES step,     \* where the writer is; "recover" after a stop
          group,    \* the group it works on
          row,      \* the next row
          faults    \* stops so far

wvars == <<step, group, row, faults>>
vars  == <<dvars, wvars>>

-----------------------------------------------------------------------------
(* What the DB shows. *)

Found(role) == {i \in Joined(mem) \cup Joined(files) : hist[i].role = role}
Latest(kinds) ==
  LET all == {i \in Joined(mem) \cup Joined(files) : hist[i].role.kind \in kinds}
  IN  IF all = {} THEN NoRole
      ELSE hist[CHOOSE i \in all : \A j \in all : j <= i].role

Marker == Latest({"dirty", "clean"})
Cursor == Latest({"cursor"}).group

-----------------------------------------------------------------------------
Sync    == [k \in {"sync"} |-> TRUE]
Default == [k \in {} |-> TRUE]

Start(g) == /\ group' = g /\ row' = 1
            /\ step' = IF g > Groups THEN "done" ELSE "dirty"

\* Flaw: the dirty marker is not synced.
MarkDirty_NotSynced ==
  /\ step = "dirty"
  /\ Write({MarkerFamily}, Default, Role("dirty", group, 0))
  /\ step' = "rows"
  /\ UNCHANGED <<group, row, faults>>

MarkDirty ==
  /\ step = "dirty"
  /\ Write({MarkerFamily}, Sync, Role("dirty", group, 0))
  /\ step' = "rows"
  /\ UNCHANGED <<group, row, faults>>

\* Flaw: the cursor follows the last row.
PutRow_SkipsClean ==
  /\ step = "rows"
  /\ Write({RowFamily[row]}, Default, Role("row", group, row))
  /\ step' = IF row = Len(RowFamily) THEN "cursor" ELSE "rows"
  /\ row' = row + 1
  /\ UNCHANGED <<group, faults>>

\* Flaw: one row too many.
PutRow_Unbounded ==
  /\ step = "rows"
  /\ Write({RowFamily[1]}, Default, Role("row", group, 1))
  /\ step' \in {"clean", "rows"}
  /\ row' = row + 1
  /\ UNCHANGED <<group, faults>>

PutRow ==
  /\ step = "rows"
  /\ Write({RowFamily[row]}, Default, Role("row", group, row))
  /\ step' = IF row = Len(RowFamily) THEN "clean" ELSE "rows"
  /\ row' = row + 1
  /\ UNCHANGED <<group, faults>>

MarkClean ==
  /\ step = "clean"
  /\ Write({MarkerFamily}, Sync, Role("clean", group, 0))
  /\ step' = "cursor"
  /\ UNCHANGED <<group, row, faults>>

AdvanceCursor ==
  /\ step = "cursor"
  /\ Write({MarkerFamily}, Sync, Role("cursor", group, 0))
  /\ Start(group + 1)
  /\ UNCHANGED faults

\* Flaw: a clean group is taken for finished, its cursor with it.
Resume_ForgetsCursor ==
  /\ step = "recover" /\ phase = "open"
  /\ CASE Marker.kind = "clean" -> Start(Marker.group + 1)
       [] Marker.kind = "dirty" -> Start(Marker.group)
       [] OTHER -> Start(1)
  /\ UNCHANGED <<dvars, faults>>

(* The recovery table: clean, go on behind it (the cursor first, if it was *)
(* lost); dirty, replay the group; nothing, start.                         *)
Resume ==
  /\ step = "recover" /\ phase = "open"
  /\ CASE Marker.kind = "clean" /\ Cursor < Marker.group ->
            step' = "cursor" /\ group' = Marker.group /\ UNCHANGED row
       [] Marker.kind = "clean" /\ Cursor >= Marker.group -> Start(Marker.group + 1)
       [] Marker.kind = "dirty" -> Start(Marker.group)
       [] OTHER -> Start(1)
  /\ UNCHANGED <<dvars, faults>>

WriterStep == MarkDirty \/ PutRow \/ MarkClean \/ AdvanceCursor \/ Resume

(* Another process asks for a flush of the log, RocksDB flushes memtables. *)
Background ==
  /\ \/ \E b \in BOOLEAN : FlushWal(b)
     \/ \E some \in SUBSET Families, k \in Writes : MemFlush(some, k)
  /\ UNCHANGED wvars

Stopped ==
  /\ faults < MaxFaults /\ faults' = faults + 1
  /\ Close \/ Fail
  /\ step' = "recover"
  /\ UNCHANGED <<group, row>>

Restarted == /\ \E o \in OpenOptions : Reopen(o)
             /\ UNCHANGED wvars

Repaired == Repair /\ UNCHANGED wvars

Init == DurabilityInit /\ step = "dirty" /\ group = 1 /\ row = 1 /\ faults = 0

Next == WriterStep \/ Background \/ Stopped \/ Restarted \/ Repaired

(* The writer goes on, and whoever runs it opens the DB again. *)
Fairness == WF_vars(WriterStep) /\ WF_vars(Restarted)

Spec == Init /\ [][Next]_vars /\ Fairness

-----------------------------------------------------------------------------
WriterTypeOK ==
  /\ step \in {"dirty", "rows", "clean", "cursor", "done", "recover"}
  /\ group \in 1 .. Groups + 1 /\ row \in 1 .. Len(RowFamily) + 1
  /\ faults \in 0 .. MaxFaults

(* A clean marker that is found covers its group and all before it: every  *)
(* row is there, though no row was written with sync (ADR002, recovery     *)
(* table, "After clean write succeeds").                                   *)
CleanCovers ==
  phase = "open" /\ Marker.kind = "clean" =>
    \A g \in 1 .. Marker.group, r \in Rows : Found(Role("row", g, r)) # {}

(* A group of which only something may be there is marked dirty: what is   *)
(* found of it without its clean marker never goes unnoticed.              *)
PartialIsDirty ==
  phase = "open" =>
    \A g \in 1 .. Groups :
      /\ \E r \in Rows : Found(Role("row", g, r)) # {}
      /\ Found(Role("clean", g, 0)) = {}
      => Marker = Role("dirty", g, 0)

(* The cursor that tells the source to go on is never ahead of the clean   *)
(* markers.                                                                *)
CursorBehindClean ==
  phase = "open" => \A g \in 1 .. Groups :
    Found(Role("cursor", g, 0)) # {} => Found(Role("clean", g, 0)) # {}

(* Whatever stops in between, all groups are projected in the end and the  *)
(* cursor stays behind the last.                                           *)
GroupsComplete == <>[](phase = "open" /\ Cursor = Groups)
===============================================================================
