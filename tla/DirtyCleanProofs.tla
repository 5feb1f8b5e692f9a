--------------------------- MODULE DirtyCleanProofs ---------------------------
(***************************************************************************)
(* For any number of groups and rows, any families and any number of       *)
(* stops: the checkpoint protocol keeps its recovery table.  What is found *)
(* in an open DB is what was acknowledged (DurabilityProofs), a stop keeps *)
(* at least what is durable and adds nothing, so it is enough to say of    *)
(* the acknowledged writes what the markers among them vouch for.          *)
(***************************************************************************)
EXTENDS DirtyClean, DurabilityProofs, NumberLemmas

Has(role)        == \E i \in acked : hist[i].role = role
HasDurable(role) == \E i \in durable : hist[i].role = role

IsMarker(i) == hist[i].role.kind \in {"dirty", "clean"}

\* The groups up to g have been projected, for good.
CleanUpTo(g) ==
  \A h \in 1 .. g :
    Has(Role("clean", h, 0)) /\ \A r \in Rows : HasDurable(Role("row", h, r))

\* The writer makes all the writes there are, each in the log.
OnlyWriter == \A i \in Writes : hist[i].logged /\ hist[i].role \in WriterRoles

\* Only a row can be lost.
MarkersDurable == \A i \in acked : hist[i].role.kind # "row" => i \in durable

\* What each kind of write says of the groups before it, and of its own.
Vouches ==
  \A i \in acked :
    /\ hist[i].role.kind = "clean" => CleanUpTo(hist[i].role.group)
    /\ hist[i].role.kind = "cursor" => Has(Role("clean", hist[i].role.group, 0))
    /\ hist[i].role.kind \in {"dirty", "row"} => CleanUpTo(hist[i].role.group - 1)
    /\ hist[i].role.kind = "row" => Has(Role("dirty", hist[i].role.group, 0))

\* Groups are marked one after the other, also when they are replayed.
MarkersInOrder ==
  \A i, j \in acked :
    IsMarker(i) /\ IsMarker(j) /\ i < j => hist[i].role.group <= hist[j].role.group

\* Where the writer is, and what it has behind it
WriterAt ==
  step # "recover" =>
    /\ phase = "open"
    /\ step # "done" => group <= Groups
    /\ CleanUpTo(group - 1)
    /\ \A i \in acked : IsMarker(i) => hist[i].role.group <= group
    /\ step = "dirty" => row = 1
    /\ step \in {"rows", "clean"} => Has(Role("dirty", group, 0))
    /\ step = "rows" => row \in Rows /\ \A r \in 1 .. row - 1 : Has(Role("row", group, r))
    /\ step = "clean" => \A r \in Rows : Has(Role("row", group, r))
    /\ step = "cursor" => Has(Role("clean", group, 0))

WriterIInv ==
  /\ DurabilityIInv /\ WriterTypeOK
  /\ OnlyWriter /\ MarkersDurable /\ Vouches /\ MarkersInOrder /\ WriterAt

-----------------------------------------------------------------------------
(* What the constants and types say of a role, of an entry and of rows. *)
LEMMA RolesTyped ==
  /\ \A role \in WriterRoles :
       /\ role.kind \in {"dirty", "clean", "cursor", "row"}
       /\ role.group \in 1 .. Groups
       /\ role = [kind |-> role.kind, group |-> role.group, row |-> role.row]
       /\ role.kind # "row" => role = Role(role.kind, role.group, 0)
       /\ role.kind = "row" => role.row \in Rows
  /\ Groups \in Nat /\ Groups >= 1
  /\ Len(RowFamily) \in Nat /\ Len(RowFamily) >= 1 /\ Rows = 1 .. Len(RowFamily)
  <1>1. /\ Groups \in Nat /\ Groups >= 1
        /\ Len(RowFamily) \in Nat /\ Len(RowFamily) >= 1 /\ Rows = 1 .. Len(RowFamily)
    BY DirtyCleanAssumption DEF Rows
  <1>2. ASSUME NEW role \in WriterRoles
        PROVE  /\ role.kind \in {"dirty", "clean", "cursor", "row"}
               /\ role.group \in 1 .. Groups
               /\ role = [kind |-> role.kind, group |-> role.group, row |-> role.row]
               /\ role.kind # "row" => role = Role(role.kind, role.group, 0)
               /\ role.kind = "row" => role.row \in Rows
    BY DEF WriterRoles, Role
  <1>3. QED
    BY <1>1, <1>2

LEMMA WriterTyped ==
  ASSUME WriterIInv
  PROVE  /\ acked \subseteq Writes /\ durable \subseteq acked
         /\ \A i \in Writes : /\ i \in Nat /\ i \in 1 .. Len(hist)
                              /\ hist[i].logged /\ hist[i].role \in WriterRoles
         /\ Len(hist) \in Nat
         /\ phase = "open" => Joined(mem) \cup Joined(files) = acked
  <1>1. DurabilityIInv /\ OnlyWriter
    BY DEF WriterIInv
  <1>2. acked \subseteq Writes /\ durable \subseteq acked /\ \A i \in Writes : i \in Nat
    BY <1>1, Places
  <1>3. Len(hist) \in Nat /\ Writes = 1 .. Len(hist)
    <2>1. PICK E : hist \in Seq(E)
      BY <1>1 DEF DurabilityIInv, DurabilityTypeOK
    <2>2. QED
      BY <2>1 DEF Writes
  <1>4. phase = "open" => Joined(mem) \cup Joined(files) = acked
    BY <1>1 DEF DurabilityIInv, Known, StoreShowsAcked, Joined, Visible
  <1>5. QED
    BY <1>1, <1>2, <1>3, <1>4 DEF OnlyWriter

-----------------------------------------------------------------------------
(* What a write of the writer does, with sync or without: one more entry,
   later than all others, and with sync all that there is is durable. *)
LEMMA Written ==
  ASSUME WriterIInv, NEW shape \in Shapes, NEW term, NEW role \in WriterRoles,
         term \in {Sync, Default}, Write(shape, term, role)
  PROVE  /\ phase = "open" /\ phase' = "open" /\ DurabilityIInv'
         /\ \E n \in Nat :
              /\ Writes' = Writes \cup {n} /\ acked' = acked \cup {n}
              /\ \A i \in Writes : i < n /\ hist'[i] = hist[i]
              /\ hist'[n].role = role /\ hist'[n].logged
              /\ term = Sync => durable' = acked'
              /\ term = Default => durable' = durable
  <1>1. DurabilityIInv /\ DurabilityTypeOK /\ role \in Roles
    BY DirtyCleanAssumption DEF WriterIInv, DurabilityIInv
  <1>2. DurabilityIInv'
    BY <1>1, WriteStep
  <1>3. /\ ~Flag(term, "disable_wal")
        /\ term = Sync => Flag(term, "sync")
        /\ term = Default => ~Flag(term, "sync")
    BY DEF Flag, Sync, Default
  <1>4. \A i \in acked : hist[i].logged
    BY WriterTyped
  <1>5. PICK n : n = Len(hist) + 1
    OBVIOUS
  <1>6. /\ n \in Nat /\ Writes' = Writes \cup {n}
        /\ \A i \in Writes : i < n /\ hist'[i] = hist[i]
        /\ hist'[n].role = role /\ hist'[n].logged = ~Flag(term, "disable_wal")
    BY <1>1, <1>5, OneMoreWrite
  <1>7. /\ phase = "open" /\ phase' = "open" /\ acked' = acked \cup {n}
        /\ durable' = IF Flag(term, "sync")
                      THEN durable \cup {i \in acked \cup {n} : i = n \/ hist[i].logged}
                      ELSE durable
    BY <1>5 DEF Write
  <1>8. durable \subseteq acked
    BY WriterTyped
  <1>9. QED
    BY <1>2, <1>3, <1>4, <1>6, <1>7, <1>8

(* What is written stays written: nothing that was vouched for is lost as
   long as no acknowledged or durable write is. *)
LEMMA Lasting ==
  ASSUME WriterIInv, durable \subseteq durable',
         \A i \in acked : hist'[i] = hist[i],
         \A i \in acked : hist[i].role.kind # "row" => i \in acked'
  PROVE  /\ \A role : role.kind # "row" /\ Has(role) => Has(role)'
         /\ acked \subseteq acked' => \A role : Has(role) => Has(role)'
         /\ \A role : HasDurable(role) => HasDurable(role)'
         /\ \A g : CleanUpTo(g) => CleanUpTo(g)'
  <1>1. ASSUME NEW role, Has(role), role.kind # "row" PROVE Has(role)'
    BY <1>1 DEF Has
  <1>2. ASSUME NEW role, Has(role), acked \subseteq acked' PROVE Has(role)'
    BY <1>2 DEF Has
  <1>3. ASSUME NEW role, HasDurable(role) PROVE HasDurable(role)'
    BY <1>3, WriterTyped DEF HasDurable
  <1>4. ASSUME NEW g, CleanUpTo(g) PROVE CleanUpTo(g)'
    <2>1. \A h \in 1 .. g :
            Has(Role("clean", h, 0)) /\ \A r \in Rows : HasDurable(Role("row", h, r))
      BY <1>4 DEF CleanUpTo
    <2>2. \A h : Role("clean", h, 0).kind # "row"
      BY DEF Role
    <2>3. ASSUME NEW h \in 1 .. g PROVE Has(Role("clean", h, 0))'
      BY <1>1, <2>1, <2>2
    <2>4. ASSUME NEW h \in 1 .. g, NEW r \in Rows PROVE HasDurable(Role("row", h, r))'
      BY <1>3, <2>1
    <2>5. QED
      BY <2>3, <2>4 DEF CleanUpTo
  <1>5. QED
    BY <1>1, <1>2, <1>3, <1>4

(* A write whose own claim is true, made with sync unless it is a row, keeps
   what the writes say of each other. *)
LEMMA WrittenKeeps ==
  ASSUME WriterIInv, NEW n \in Nat, NEW role \in WriterRoles,
         Writes' = Writes \cup {n}, acked' = acked \cup {n},
         \A i \in Writes : i < n /\ hist'[i] = hist[i],
         hist'[n].role = role, hist'[n].logged,
         durable' = acked' \/ (durable' = durable /\ role.kind = "row"),
         role.kind = "clean" => CleanUpTo(role.group)',
         role.kind = "cursor" => Has(Role("clean", role.group, 0)),
         role.kind \in {"dirty", "row"} => CleanUpTo(role.group - 1),
         role.kind = "row" => Has(Role("dirty", role.group, 0)),
         role.kind \in {"dirty", "clean"} =>
           \A i \in acked : IsMarker(i) => hist[i].role.group <= role.group
  PROVE  OnlyWriter' /\ MarkersDurable' /\ Vouches' /\ MarkersInOrder'
  <1> USE WriterTyped, RolesTyped
  <1>1. OnlyWriter'
    BY DEF WriterIInv, OnlyWriter
  <1>2. MarkersDurable'
    BY DEF WriterIInv, MarkersDurable
  <1>3. /\ \A g : CleanUpTo(g) => CleanUpTo(g)'
        /\ \A r : Has(r) => Has(r)'
    BY Lasting
  <1>4. ASSUME NEW i \in acked', NEW r, r = hist'[i].role
        PROVE  /\ r.kind = "clean" => CleanUpTo(r.group)'
               /\ r.kind = "cursor" => Has(Role("clean", r.group, 0))'
               /\ r.kind \in {"dirty", "row"} => CleanUpTo(r.group - 1)'
               /\ r.kind = "row" => Has(Role("dirty", r.group, 0))'
    <2>1. CASE i = n
      BY <1>3, <1>4, <2>1
    <2>2. CASE i # n
      <3>1. i \in acked /\ r = hist[i].role
        BY <1>4, <2>2
      <3>2. /\ r.kind = "clean" => CleanUpTo(r.group)
            /\ r.kind = "cursor" => Has(Role("clean", r.group, 0))
            /\ r.kind \in {"dirty", "row"} => CleanUpTo(r.group - 1)
            /\ r.kind = "row" => Has(Role("dirty", r.group, 0))
        BY <3>1 DEF WriterIInv, Vouches
      <3>3. QED
        BY <1>3, <3>2
    <2>3. QED
      BY <2>1, <2>2
  <1>5. Vouches'
    <2>1. ASSUME NEW i \in acked'
          PROVE  (/\ hist[i].role.kind = "clean" => CleanUpTo(hist[i].role.group)
                  /\ hist[i].role.kind = "cursor" => Has(Role("clean", hist[i].role.group, 0))
                  /\ hist[i].role.kind \in {"dirty", "row"} => CleanUpTo(hist[i].role.group - 1)
                  /\ hist[i].role.kind = "row" => Has(Role("dirty", hist[i].role.group, 0)))'
      <3>1. PICK r : r = hist'[i].role
        OBVIOUS
      <3>2. /\ r.kind = "clean" => CleanUpTo(r.group)'
            /\ r.kind = "cursor" => Has(Role("clean", r.group, 0))'
            /\ r.kind \in {"dirty", "row"} => CleanUpTo(r.group - 1)'
            /\ r.kind = "row" => Has(Role("dirty", r.group, 0))'
        BY <1>4, <3>1
      <3>3. QED
        BY <3>1, <3>2 DEF CleanUpTo, Has, HasDurable
    <2>2. QED
      BY <2>1 DEF Vouches
  <1>6. MarkersInOrder'
    <2> SUFFICES ASSUME NEW i \in acked', NEW j \in acked', IsMarker(i)', IsMarker(j)', i < j
                 PROVE  hist'[i].role.group <= hist'[j].role.group
      BY DEF MarkersInOrder
    <2>1. i \in acked /\ i # n /\ IsMarker(i) /\ hist'[i] = hist[i]
      BY DEF IsMarker
    <2>2. CASE j = n
      BY <2>1, <2>2 DEF IsMarker
    <2>3. CASE j # n
      BY <2>1, <2>3 DEF WriterIInv, MarkersInOrder, IsMarker
    <2>4. QED
      BY <2>2, <2>3
  <1>7. QED
    BY <1>1, <1>2, <1>5, <1>6

-----------------------------------------------------------------------------
(* The steps of the writer. *)

LEMMA MarkDirtyStep == ASSUME WriterIInv, MarkDirty PROVE WriterIInv'
  <1> USE WriterTyped, RolesTyped
  <1> DEFINE role == Role("dirty", group, 0)
  <1>1. /\ step = "dirty" /\ step' = "rows" /\ UNCHANGED <<group, row, faults>>
        /\ Write({MarkerFamily}, Sync, role)
    BY DEF MarkDirty
  <1>2. PICK r : r = role
    OBVIOUS
  <1>3. /\ phase = "open" /\ group <= Groups /\ group \in 1 .. Groups
        /\ CleanUpTo(group - 1) /\ row = 1
        /\ \A i \in acked : IsMarker(i) => hist[i].role.group <= group
    BY <1>1 DEF WriterIInv, WriterAt, WriterTypeOK
  <1>4. r \in WriterRoles /\ r.kind = "dirty" /\ r.group = group
    BY <1>2, <1>3 DEF WriterRoles, Role
  <1>5. /\ phase' = "open" /\ DurabilityIInv'
        /\ \E n \in Nat :
              /\ Writes' = Writes \cup {n} /\ acked' = acked \cup {n}
              /\ \A i \in Writes : i < n /\ hist'[i] = hist[i]
              /\ hist'[n].role = r /\ hist'[n].logged
              /\ durable' = acked'
    BY <1>1, <1>2, <1>4, Written, DirtyCleanAssumption
  <1>6. PICK n \in Nat :
              /\ Writes' = Writes \cup {n} /\ acked' = acked \cup {n}
              /\ \A i \in Writes : i < n /\ hist'[i] = hist[i]
              /\ hist'[n].role = r /\ hist'[n].logged
              /\ durable' = acked'
    BY <1>5
  <1>7. OnlyWriter' /\ MarkersDurable' /\ Vouches' /\ MarkersInOrder'
    BY <1>3, <1>4, <1>6, WrittenKeeps
  <1>8. \A g : CleanUpTo(g) => CleanUpTo(g)'
    BY <1>6, Lasting
  <1>9. WriterAt'
    <2>1. CleanUpTo(group - 1)'
      BY <1>1, <1>3, <1>8
    <2>2. Has(role)'
      BY <1>1, <1>2, <1>6 DEF Has
    <2>3. \A i \in acked' : IsMarker(i)' => hist'[i].role.group <= group'
      BY <1>1, <1>3, <1>4, <1>6 DEF IsMarker
    <2>4. row' \in Rows /\ \A k \in 1 .. row' - 1 : FALSE
      BY <1>1, <1>3
    <2>5. QED
      BY <1>1, <1>3, <1>5, <2>1, <2>2, <2>3, <2>4 DEF WriterAt
  <1>10. WriterTypeOK'
    BY <1>1 DEF WriterIInv, WriterTypeOK
  <1>11. QED
    BY <1>5, <1>7, <1>9, <1>10 DEF WriterIInv

LEMMA PutRowStep == ASSUME WriterIInv, PutRow PROVE WriterIInv'
  <1> USE WriterTyped, RolesTyped
  <1>1. /\ step = "rows" /\ UNCHANGED <<group, faults>> /\ row' = row + 1
        /\ step' = IF row = Len(RowFamily) THEN "clean" ELSE "rows"
        /\ Write({RowFamily[row]}, Default, Role("row", group, row))
    BY DEF PutRow
  <1>2. PICK r : r = Role("row", group, row)
    OBVIOUS
  <1>3. /\ phase = "open" /\ group <= Groups /\ group \in 1 .. Groups
        /\ CleanUpTo(group - 1) /\ Has(Role("dirty", group, 0))
        /\ row \in Rows /\ \A k \in 1 .. row - 1 : Has(Role("row", group, k))
        /\ \A i \in acked : IsMarker(i) => hist[i].role.group <= group
    BY <1>1 DEF WriterIInv, WriterAt, WriterTypeOK
  <1>4. r \in WriterRoles /\ r.kind = "row" /\ r.group = group
    BY <1>2, <1>3 DEF WriterRoles, Role
  <1>5. /\ phase' = "open" /\ DurabilityIInv'
        /\ \E n \in Nat :
              /\ Writes' = Writes \cup {n} /\ acked' = acked \cup {n}
              /\ \A i \in Writes : i < n /\ hist'[i] = hist[i]
              /\ hist'[n].role = r /\ hist'[n].logged
              /\ durable' = durable
    <2>1. PICK f : f = RowFamily[row]
      OBVIOUS
    <2>2. {f} \in Shapes
      BY <1>3, <2>1, DirtyCleanAssumption
    <2>3. Write({f}, Default, r)
      BY <1>1, <1>2, <2>1
    <2>4. Default \in {Sync, Default}
      OBVIOUS
    <2>5. QED
      BY <1>4, <2>2, <2>3, <2>4, Written
  <1>6. PICK n \in Nat :
              /\ Writes' = Writes \cup {n} /\ acked' = acked \cup {n}
              /\ \A i \in Writes : i < n /\ hist'[i] = hist[i]
              /\ hist'[n].role = r /\ hist'[n].logged
              /\ durable' = durable
    BY <1>5
  <1>7. OnlyWriter' /\ MarkersDurable' /\ Vouches' /\ MarkersInOrder'
    BY <1>3, <1>4, <1>6, WrittenKeeps
  <1>8. (\A g : CleanUpTo(g) => CleanUpTo(g)') /\ (\A q : Has(q) => Has(q)')
    BY <1>6, Lasting
  <1>9. WriterAt'
    <2>1. CleanUpTo(group - 1)' /\ Has(Role("dirty", group, 0))'
      BY <1>1, <1>3, <1>8
    <2>2. Has(r)'
      BY <1>6 DEF Has
    <2>3. \A i \in acked' : IsMarker(i)' => hist'[i].role.group <= group'
      BY <1>1, <1>3, <1>4, <1>6 DEF IsMarker
    <2>4. ASSUME NEW k \in 1 .. row PROVE Has(Role("row", group, k))'
      <3>1. CASE k = row
        BY <1>1, <1>2, <2>2, <3>1
      <3>2. CASE k # row
        <4>1. Has(Role("row", group, k))
          BY <1>3, <3>2
        <4>2. QED
          BY <1>1, <1>8, <4>1
      <3>3. QED
        BY <3>1, <3>2
    <2>5. CASE row = Len(RowFamily)
      <3>1. step' = "clean" /\ \A k \in Rows : Has(Role("row", group, k))'
        BY <1>1, <2>4, <2>5
      <3>2. QED
        BY <1>1, <1>3, <1>5, <2>1, <2>3, <3>1 DEF WriterAt
    <2>6. CASE row # Len(RowFamily)
      <3>1. step' = "rows" /\ row' \in Rows /\ row' - 1 = row
        BY <1>1, <1>3, <2>6
      <3>2. \A k \in 1 .. row' - 1 : Has(Role("row", group, k))'
        BY <2>4, <3>1
      <3>3. QED
        BY <1>1, <1>3, <1>5, <2>1, <2>3, <3>1, <3>2 DEF WriterAt
    <2>7. QED
      BY <2>5, <2>6
  <1>10. WriterTypeOK'
    BY <1>1, <1>3 DEF WriterIInv, WriterTypeOK
  <1>11. QED
    BY <1>5, <1>7, <1>9, <1>10 DEF WriterIInv

LEMMA MarkCleanStep == ASSUME WriterIInv, MarkClean PROVE WriterIInv'
  <1> USE WriterTyped, RolesTyped
  <1>1. /\ step = "clean" /\ step' = "cursor" /\ UNCHANGED <<group, row, faults>>
        /\ Write({MarkerFamily}, Sync, Role("clean", group, 0))
    BY DEF MarkClean
  <1>2. PICK r : r = Role("clean", group, 0)
    OBVIOUS
  <1>3. /\ phase = "open" /\ group <= Groups /\ group \in 1 .. Groups
        /\ CleanUpTo(group - 1) /\ \A k \in Rows : Has(Role("row", group, k))
        /\ \A i \in acked : IsMarker(i) => hist[i].role.group <= group
    BY <1>1 DEF WriterIInv, WriterAt, WriterTypeOK
  <1>4. r \in WriterRoles /\ r.kind = "clean" /\ r.group = group
    BY <1>2, <1>3 DEF WriterRoles, Role
  <1>5. /\ phase' = "open" /\ DurabilityIInv'
        /\ \E n \in Nat :
              /\ Writes' = Writes \cup {n} /\ acked' = acked \cup {n}
              /\ \A i \in Writes : i < n /\ hist'[i] = hist[i]
              /\ hist'[n].role = r /\ hist'[n].logged
              /\ durable' = acked'
    BY <1>1, <1>2, <1>4, Written, DirtyCleanAssumption
  <1>6. PICK n \in Nat :
              /\ Writes' = Writes \cup {n} /\ acked' = acked \cup {n}
              /\ \A i \in Writes : i < n /\ hist'[i] = hist[i]
              /\ hist'[n].role = r /\ hist'[n].logged
              /\ durable' = acked'
    BY <1>5
  <1>7. (\A g : CleanUpTo(g) => CleanUpTo(g)') /\ (\A q : Has(q) => Has(q)')
    BY <1>6, Lasting
  <1>8. CleanUpTo(group - 1)' /\ Has(r)'
    BY <1>1, <1>3, <1>6, <1>7 DEF Has
  <1>9. CleanUpTo(r.group)'
    <2>1. \A q : Has(q)' => HasDurable(q)'
      BY <1>6 DEF Has, HasDurable
    <2>2. ASSUME NEW h \in 1 .. r.group
          PROVE  Has(Role("clean", h, 0))' /\ \A k \in Rows : HasDurable(Role("row", h, k))'
      <3>1. CASE h = r.group
        <4>1. \A k \in Rows : Has(Role("row", h, k))
          BY <1>3, <1>4, <3>1
        <4>2. QED
          BY <1>2, <1>4, <1>7, <1>8, <2>1, <3>1, <4>1
      <3>2. CASE h # r.group
        <4>1. h \in 1 .. group' - 1
          BY <1>1, <1>3, <1>4, <3>2
        <4>2. QED
          BY <1>8, <4>1 DEF CleanUpTo
      <3>3. QED
        BY <3>1, <3>2
    <2>3. QED
      BY <2>2 DEF CleanUpTo
  <1>10. OnlyWriter' /\ MarkersDurable' /\ Vouches' /\ MarkersInOrder'
    BY <1>3, <1>4, <1>6, <1>9, WrittenKeeps
  <1>11. WriterAt'
    <2>1. \A i \in acked' : IsMarker(i)' => hist'[i].role.group <= group'
      BY <1>1, <1>3, <1>4, <1>6 DEF IsMarker
    <2>2. QED
      BY <1>1, <1>2, <1>3, <1>5, <1>8, <2>1 DEF WriterAt
  <1>12. WriterTypeOK'
    BY <1>1 DEF WriterIInv, WriterTypeOK
  <1>13. QED
    BY <1>5, <1>10, <1>11, <1>12 DEF WriterIInv

LEMMA AdvanceCursorStep == ASSUME WriterIInv, AdvanceCursor PROVE WriterIInv'
  <1> USE WriterTyped, RolesTyped
  <1>1. /\ step = "cursor" /\ UNCHANGED faults
        /\ group' = group + 1 /\ row' = 1
        /\ step' = IF group + 1 > Groups THEN "done" ELSE "dirty"
        /\ Write({MarkerFamily}, Sync, Role("cursor", group, 0))
    BY DEF AdvanceCursor, Start
  <1>2. PICK r : r = Role("cursor", group, 0)
    OBVIOUS
  <1>3. /\ phase = "open" /\ group <= Groups /\ group \in 1 .. Groups
        /\ Has(Role("clean", group, 0))
        /\ \A i \in acked : IsMarker(i) => hist[i].role.group <= group
    BY <1>1 DEF WriterIInv, WriterAt, WriterTypeOK
  <1>4. r \in WriterRoles /\ r.kind = "cursor" /\ r.group = group
    BY <1>2, <1>3 DEF WriterRoles, Role
  <1>5. /\ phase' = "open" /\ DurabilityIInv'
        /\ \E n \in Nat :
              /\ Writes' = Writes \cup {n} /\ acked' = acked \cup {n}
              /\ \A i \in Writes : i < n /\ hist'[i] = hist[i]
              /\ hist'[n].role = r /\ hist'[n].logged
              /\ durable' = acked'
    BY <1>1, <1>2, <1>4, Written, DirtyCleanAssumption
  <1>6. PICK n \in Nat :
              /\ Writes' = Writes \cup {n} /\ acked' = acked \cup {n}
              /\ \A i \in Writes : i < n /\ hist'[i] = hist[i]
              /\ hist'[n].role = r /\ hist'[n].logged
              /\ durable' = acked'
    BY <1>5
  <1>7. OnlyWriter' /\ MarkersDurable' /\ Vouches' /\ MarkersInOrder'
    BY <1>3, <1>4, <1>6, WrittenKeeps
  <1>8. CleanUpTo(group)
    <2>1. PICK i \in acked : hist[i].role = Role("clean", group, 0)
      BY <1>3 DEF Has
    <2>2. hist[i].role.kind = "clean" /\ hist[i].role.group = group
      BY <2>1 DEF Role
    <2>3. QED
      BY <2>1, <2>2 DEF WriterIInv, Vouches
  <1>9. WriterAt'
    <2>1. \A g : CleanUpTo(g) => CleanUpTo(g)'
      BY <1>6, Lasting
    <2>2. CleanUpTo(group - 1)'
      <3>1. group' - 1 = group
        BY <1>1, <1>3
      <3>2. \A g : g = group => CleanUpTo(g)'
        BY <1>8, <2>1
      <3>3. QED
        BY <3>1, <3>2 DEF CleanUpTo
    <2>3. \A i \in acked' : IsMarker(i)' => hist'[i].role.group <= group'
      <3> SUFFICES ASSUME NEW i \in acked', IsMarker(i)' PROVE hist'[i].role.group <= group + 1
        BY <1>1
      <3>1. CASE i = n
        BY <1>3, <1>4, <1>6, <3>1
      <3>2. CASE i # n
        <4>1. i \in acked /\ hist'[i] = hist[i] /\ IsMarker(i)
          BY <1>6, <3>2 DEF IsMarker
        <4>2. hist[i].role.group <= group /\ hist[i].role.group \in Nat
          BY <1>3, <4>1
        <4>3. QED
          BY <1>3, <4>1, <4>2
      <3>3. QED
        BY <3>1, <3>2
    <2>4. step' = "done" \/ (step' = "dirty" /\ group' <= Groups /\ row' = 1)
      BY <1>1, <1>3
    <2>5. QED
      BY <1>5, <2>2, <2>3, <2>4 DEF WriterAt
  <1>10. WriterTypeOK'
    BY <1>1, <1>3 DEF WriterIInv, WriterTypeOK
  <1>11. QED
    BY <1>5, <1>7, <1>9, <1>10 DEF WriterIInv

-----------------------------------------------------------------------------
(* The steps of others. *)

(* What is durable is still there, and nothing was added: what the writes
   say of each other is still true. *)
LEMMA Survives ==
  ASSUME WriterIInv, UNCHANGED hist,
         durable \subseteq durable', durable \subseteq acked', acked' \subseteq acked
  PROVE  OnlyWriter' /\ MarkersDurable' /\ Vouches' /\ MarkersInOrder'
  <1> USE WriterTyped, SameWrites
  <1>1. OnlyWriter' /\ MarkersDurable'
    BY DEF WriterIInv, OnlyWriter, MarkersDurable
  <1>2. \A i \in acked : hist[i].role.kind # "row" => i \in acked'
    BY DEF WriterIInv, MarkersDurable
  <1>3. /\ \A g : CleanUpTo(g) => CleanUpTo(g)'
        /\ \A r : r.kind # "row" /\ Has(r) => Has(r)'
    BY <1>2, Lasting
  <1>4. Vouches'
    <2>1. ASSUME NEW i \in acked'
          PROVE  (/\ hist[i].role.kind = "clean" => CleanUpTo(hist[i].role.group)
                  /\ hist[i].role.kind = "cursor" => Has(Role("clean", hist[i].role.group, 0))
                  /\ hist[i].role.kind \in {"dirty", "row"} => CleanUpTo(hist[i].role.group - 1)
                  /\ hist[i].role.kind = "row" => Has(Role("dirty", hist[i].role.group, 0)))'
      <3>1. PICK r : r = hist[i].role /\ r = hist'[i].role
        OBVIOUS
      <3>2. /\ r.kind = "clean" => CleanUpTo(r.group)
            /\ r.kind = "cursor" => Has(Role("clean", r.group, 0))
            /\ r.kind \in {"dirty", "row"} => CleanUpTo(r.group - 1)
            /\ r.kind = "row" => Has(Role("dirty", r.group, 0))
        BY <3>1 DEF WriterIInv, Vouches
      <3>3. \A g : Role("clean", g, 0).kind # "row" /\ Role("dirty", g, 0).kind # "row"
        BY DEF Role
      <3>4. /\ r.kind = "clean" => CleanUpTo(r.group)'
            /\ r.kind = "cursor" => Has(Role("clean", r.group, 0))'
            /\ r.kind \in {"dirty", "row"} => CleanUpTo(r.group - 1)'
            /\ r.kind = "row" => Has(Role("dirty", r.group, 0))'
        BY <1>3, <3>2, <3>3
      <3>5. QED
        BY <3>1, <3>4 DEF CleanUpTo, Has, HasDurable
    <2>2. QED
      BY <2>1 DEF Vouches
  <1>5. MarkersInOrder'
    BY DEF WriterIInv, MarkersInOrder, IsMarker
  <1>6. QED
    BY <1>1, <1>4, <1>5

(* A flush neither adds nor loses a write. *)
LEMMA BackgroundStep == ASSUME WriterIInv, Background PROVE WriterIInv'
  <1> USE WriterTyped
  <1>1. UNCHANGED <<step, group, row, faults>>
    BY DEF Background, wvars
  <1>2. /\ DurabilityIInv' /\ UNCHANGED <<phase, hist, acked>> /\ phase = "open"
        /\ durable \subseteq durable'
    <2>1. DurabilityIInv
      BY DEF WriterIInv
    <2>2. ASSUME NEW b \in BOOLEAN, FlushWal(b)
          PROVE  /\ DurabilityIInv' /\ UNCHANGED <<phase, hist, acked>> /\ phase = "open"
                 /\ durable \subseteq durable'
      <3>1. DurabilityIInv'
        BY <2>1, <2>2, FlushWalStep
      <3>2. QED
        BY <2>2, <3>1 DEF FlushWal
    <2>3. ASSUME NEW some \in SUBSET Families, NEW k \in Writes, MemFlush(some, k)
          PROVE  /\ DurabilityIInv' /\ UNCHANGED <<phase, hist, acked>> /\ phase = "open"
                 /\ durable \subseteq durable'
      <3>1. DurabilityIInv'
        BY <2>1, <2>3, MemFlushStep
      <3>2. QED
        BY <2>3, <3>1 DEF MemFlush, told
    <2>4. QED
      BY <2>2, <2>3 DEF Background
  <1>3. OnlyWriter' /\ MarkersDurable' /\ Vouches' /\ MarkersInOrder'
    BY <1>2, Survives
  <1>4. (\A g : CleanUpTo(g) => CleanUpTo(g)') /\ (\A q : Has(q) => Has(q)')
    BY <1>2, Lasting
  <1>5. WriterAt'
    <2> SUFFICES ASSUME step # "recover" PROVE WriterAt'
      BY <1>1 DEF WriterAt
    <2>1. /\ step # "done" => group <= Groups
          /\ CleanUpTo(group - 1)
          /\ \A i \in acked : IsMarker(i) => hist[i].role.group <= group
          /\ step = "dirty" => row = 1
          /\ step \in {"rows", "clean"} => Has(Role("dirty", group, 0))
          /\ step = "rows" => row \in Rows /\ \A r \in 1 .. row - 1 : Has(Role("row", group, r))
          /\ step = "clean" => \A r \in Rows : Has(Role("row", group, r))
          /\ step = "cursor" => Has(Role("clean", group, 0))
      BY DEF WriterIInv, WriterAt
    <2>2. /\ CleanUpTo(group - 1)'
          /\ \A q : Has(q) => Has(q)'
      BY <1>1, <1>4, <2>1
    <2>3. \A i \in acked' : IsMarker(i)' => hist'[i].role.group <= group'
      BY <1>1, <1>2, <2>1 DEF IsMarker
    <2>4. /\ step \in {"rows", "clean"} => Has(Role("dirty", group, 0))'
          /\ step = "rows" => \A r \in 1 .. row - 1 : Has(Role("row", group, r))'
          /\ step = "clean" => \A r \in Rows : Has(Role("row", group, r))'
          /\ step = "cursor" => Has(Role("clean", group, 0))'
      BY <1>1, <2>1, <2>2
    <2>5. QED
      BY <1>1, <1>2, <2>1, <2>2, <2>3, <2>4 DEF WriterAt
  <1>6. WriterTypeOK'
    BY <1>1 DEF WriterIInv, WriterTypeOK
  <1>7. QED
    BY <1>2, <1>3, <1>5, <1>6 DEF WriterIInv

(* A stop, and repair, leave the promises as they are. *)
LEMMA StoppedStep == ASSUME WriterIInv, Stopped \/ Repaired PROVE WriterIInv'
  <1> USE WriterTyped
  <1>1. DurabilityIInv
    BY DEF WriterIInv
  <1>2. DurabilityIInv'
    <2>1. \A c \in 0 .. Len(hist) : c \in Nat
      OBVIOUS
    <2>2. QED
      BY <1>1, <2>1, CloseStep, HaltStep, PowerLossStep, RepairStep DEF Stopped, Fail, Repaired
  <1>3. UNCHANGED <<hist, acked, durable>>
    BY DEF Stopped, Fail, Close, Halt, PowerLoss, Repaired, Repair, told
  <1>4. OnlyWriter' /\ MarkersDurable' /\ Vouches' /\ MarkersInOrder'
    BY <1>3, Survives
  <1>5. step' = "recover"
    BY DEF Stopped, Repaired, Repair, WriterIInv, WriterAt, wvars
  <1>6. WriterTypeOK'
    BY <1>5, DirtyCleanAssumption DEF Stopped, Repaired, wvars, WriterIInv, WriterTypeOK
  <1>7. QED
    BY <1>2, <1>4, <1>5, <1>6 DEF WriterIInv, WriterAt

(* A recovery finds at least what was durable, and takes nothing for
   acknowledged that was not. *)
LEMMA RestartedStep == ASSUME WriterIInv, Restarted PROVE WriterIInv'
  <1> USE WriterTyped
  <1>1. PICK o \in OpenOptions : Reopen(o)
    BY DEF Restarted
  <1>2. DurabilityIInv /\ DurabilityIInv'
    BY <1>1, ReopenStep DEF WriterIInv
  <1>3. PICK R : R = Replayed(o.mode)
    OBVIOUS
  <1>4. /\ Readable \subseteq R /\ R \subseteq wal /\ Joined(Recovered(R)) = InFiles \cup R
    BY <1>2, <1>3, ReplayedBounds, RecoveredFiles
  <1>5. /\ phase # "open" /\ files' = Recovered(R) /\ UNCHANGED hist
        /\ acked' = Joined(files') /\ durable' = acked'
    BY <1>1, <1>3 DEF Reopen
  <1>6. acked' = InFiles \cup R
    BY <1>4, <1>5 DEF Joined
  <1>7. durable \subseteq acked' /\ acked' \subseteq acked
    BY <1>2, <1>4, <1>6, Places DEF DurabilityIInv, Kept, Known
  <1>8. OnlyWriter' /\ MarkersDurable' /\ Vouches' /\ MarkersInOrder'
    BY <1>5, <1>7, Survives
  <1>9. step' = "recover" /\ UNCHANGED wvars
    BY <1>5 DEF Restarted, WriterIInv, WriterAt, wvars
  <1>10. WriterTypeOK'
    BY <1>9 DEF wvars, WriterIInv, WriterTypeOK
  <1>11. QED
    BY <1>2, <1>8, <1>9, <1>10 DEF WriterIInv, WriterAt

-----------------------------------------------------------------------------
(* What the writer reads after a reopen: in an open DB the latest write of
   some kinds is there, unless there is none. *)
LEMMA LatestIs ==
  ASSUME WriterIInv, phase = "open", NEW kinds
  PROVE  \/ /\ \A i \in acked : hist[i].role.kind \notin kinds
            /\ Latest(kinds) = NoRole
         \/ \E i \in acked : /\ hist[i].role.kind \in kinds
                             /\ \A j \in acked : hist[j].role.kind \in kinds => j <= i
                             /\ Latest(kinds) = hist[i].role
  <1> USE WriterTyped
  <1> DEFINE all == {i \in Joined(mem) \cup Joined(files) : hist[i].role.kind \in kinds}
  <1>1. all = {i \in acked : hist[i].role.kind \in kinds}
    OBVIOUS
  <1>2. CASE all = {}
    BY <1>1, <1>2 DEF Latest
  <1>3. CASE all # {}
    <2>1. all \in SUBSET Nat /\ \A i \in all : i <= Len(hist)
      BY <1>1
    <2>2. \E i \in all : \A j \in all : j <= i
      BY <1>3, <2>1, GreatestNumber
    <2>3. PICK i : i = CHOOSE m \in all : \A j \in all : j <= m
      OBVIOUS
    <2>4. i \in all /\ \A j \in all : j <= i
      BY <2>2, <2>3
    <2>5. Latest(kinds) = hist[i].role
      BY <1>3, <2>3 DEF Latest
    <2>6. QED
      BY <1>1, <2>4, <2>5
  <1>4. QED
    BY <1>2, <1>3

(* The marker is the last of the markers, and none has a later group. *)
LEMMA MarkerIs ==
  ASSUME WriterIInv, phase = "open"
  PROVE  \/ Marker = NoRole /\ \A i \in acked : ~IsMarker(i)
         \/ /\ Marker \in WriterRoles /\ Marker.kind \in {"dirty", "clean"}
            /\ \A i \in acked : IsMarker(i) => hist[i].role.group <= Marker.group
            /\ Marker.kind = "clean" => CleanUpTo(Marker.group) /\ Has(Marker)
            /\ Marker.kind = "dirty" => CleanUpTo(Marker.group - 1)
  <1> USE WriterTyped, RolesTyped
  <1>1. CASE \A i \in acked : hist[i].role.kind \notin {"dirty", "clean"}
    BY <1>1, LatestIs DEF Marker, IsMarker
  <1>2. ASSUME NEW i \in acked, IsMarker(i), Marker = hist[i].role,
               \A j \in acked : IsMarker(j) => j <= i
        PROVE  /\ Marker \in WriterRoles /\ Marker.kind \in {"dirty", "clean"}
               /\ \A j \in acked : IsMarker(j) => hist[j].role.group <= Marker.group
               /\ Marker.kind = "clean" => CleanUpTo(Marker.group) /\ Has(Marker)
               /\ Marker.kind = "dirty" => CleanUpTo(Marker.group - 1)
    <2>1. Marker \in WriterRoles /\ Marker.kind \in {"dirty", "clean"}
      BY <1>2 DEF IsMarker
    <2>2. ASSUME NEW j \in acked, IsMarker(j) PROVE hist[j].role.group <= Marker.group
      <3>1. CASE j = i
        BY <1>2, <2>1, <3>1
      <3>2. CASE j # i
        <4>1. j < i
          BY <1>2, <2>2, <3>2
        <4>2. QED
          BY <1>2, <2>2, <4>1 DEF WriterIInv, MarkersInOrder
      <3>3. QED
        BY <3>1, <3>2
    <2>3. /\ Marker.kind = "clean" => CleanUpTo(Marker.group) /\ Has(Marker)
          /\ Marker.kind = "dirty" => CleanUpTo(Marker.group - 1)
      BY <1>2 DEF WriterIInv, Vouches, Has
    <2>4. QED
      BY <2>1, <2>2, <2>3
  <1>3. QED
    BY <1>1, <1>2, LatestIs DEF Marker, IsMarker

LEMMA ResumeStep == ASSUME WriterIInv, Resume PROVE WriterIInv'
  <1> USE RolesTyped
  <1>1. phase = "open" /\ UNCHANGED <<dvars, faults>>
    BY DEF Resume
  <1>2. DurabilityIInv'
    BY <1>1, DurabilityStutter DEF WriterIInv
  <1>3. UNCHANGED <<phase, hist, acked, durable>>
    BY <1>1 DEF dvars, engine, told
  <1>4. OnlyWriter' /\ MarkersDurable' /\ Vouches' /\ MarkersInOrder'
    BY <1>3, WriterTyped, Survives
  <1>5. (\A g : CleanUpTo(g) => CleanUpTo(g)') /\ (\A q : Has(q) => Has(q)')
    BY <1>3, WriterTyped, Lasting
  <1>6. Cursor \in Nat
    <2>1. Cursor = 0 \/ \E i \in acked : Cursor = hist[i].role.group
      BY <1>1, LatestIs DEF Cursor, NoRole
    <2>2. QED
      BY <2>1, WriterTyped
  <1>7. ASSUME NEW g \in 1 .. Groups + 1, Start(g), CleanUpTo(g - 1),
               \A i \in acked : IsMarker(i) => hist[i].role.group <= g
        PROVE  WriterAt' /\ WriterTypeOK'
    <2>1. group' = g /\ row' = 1 /\ step' = IF g > Groups THEN "done" ELSE "dirty"
      BY <1>7 DEF Start
    <2>2. CleanUpTo(group - 1)'
      <3>1. CleanUpTo(g - 1)'
        BY <1>5, <1>7
      <3>2. QED
        BY <2>1, <3>1 DEF CleanUpTo
    <2>3. \A i \in acked' : IsMarker(i)' => hist'[i].role.group <= group'
      BY <1>3, <1>7, <2>1 DEF IsMarker
    <2>4. step' = "done" \/ (step' = "dirty" /\ group' <= Groups)
      BY <2>1
    <2>5. WriterTypeOK'
      BY <1>1, <1>7, <2>1, <2>4 DEF WriterIInv, WriterTypeOK
    <2>6. QED
      BY <1>1, <1>3, <2>1, <2>2, <2>3, <2>4, <2>5 DEF WriterAt
  <1>8. PICK m : m = Marker
    OBVIOUS
  <1>9. CASE m = NoRole /\ \A i \in acked : ~IsMarker(i)
    <2>1. m.kind = "other"
      BY <1>9 DEF NoRole
    <2>2. Start(1)
      BY <1>8, <2>1 DEF Resume
    <2>3. CleanUpTo(1 - 1)
      BY DEF CleanUpTo
    <2>4. QED
      BY <1>2, <1>4, <1>7, <1>9, <2>2, <2>3 DEF WriterIInv
  <1>10. CASE /\ m \in WriterRoles /\ m.kind \in {"dirty", "clean"}
              /\ \A i \in acked : IsMarker(i) => hist[i].role.group <= m.group
              /\ m.kind = "clean" => CleanUpTo(m.group) /\ Has(m)
              /\ m.kind = "dirty" => CleanUpTo(m.group - 1)
    <2>1. m.group \in 1 .. Groups
      BY <1>10
    <2>2. CASE m.kind = "clean" /\ Cursor < m.group
      <3>1. step' = "cursor" /\ group' = m.group /\ UNCHANGED row
        BY <1>6, <1>8, <2>1, <2>2 DEF Resume
      <3>2. CleanUpTo(group - 1)'
        <4>1. CleanUpTo(m.group)'
          BY <1>5, <1>10, <2>2
        <4>2. QED
          BY <2>1, <3>1, <4>1 DEF CleanUpTo
      <3>3. Has(Role("clean", group, 0))'
        <4>1. m = Role("clean", m.group, 0)
          BY <1>10, <2>2
        <4>2. Has(m)'
          BY <1>5, <1>10, <2>2
        <4>3. QED
          BY <3>1, <4>1, <4>2
      <3>4. \A i \in acked' : IsMarker(i)' => hist'[i].role.group <= group'
        BY <1>3, <1>10, <3>1 DEF IsMarker
      <3>5. WriterAt'
        BY <1>1, <1>3, <2>1, <3>1, <3>2, <3>3, <3>4 DEF WriterAt
      <3>6. WriterTypeOK'
        BY <1>1, <2>1, <3>1 DEF WriterIInv, WriterTypeOK
      <3>7. QED
        BY <1>2, <1>4, <3>5, <3>6 DEF WriterIInv
    <2>3. CASE m.kind = "clean" /\ Cursor >= m.group
      <3>1. PICK g : g = m.group + 1
        OBVIOUS
      <3>2. Start(g) /\ g \in 1 .. Groups + 1 /\ g - 1 = m.group
        <4>1. ~(Cursor < m.group)
          BY <1>6, <2>1, <2>3
        <4>2. QED
          BY <1>8, <2>1, <2>3, <3>1, <4>1 DEF Resume
      <3>3. \A i \in acked : IsMarker(i) => hist[i].role.group <= g
        <4>1. \A i \in acked : hist[i].role.group \in Nat
          BY WriterTyped
        <4>2. QED
          BY <1>10, <2>1, <3>1, <4>1
      <3>4. QED
        BY <1>2, <1>4, <1>7, <1>10, <2>3, <3>2, <3>3 DEF WriterIInv
    <2>4. CASE m.kind = "dirty"
      <3>1. Start(m.group) /\ m.group \in 1 .. Groups + 1
        BY <1>8, <2>1, <2>4 DEF Resume
      <3>2. QED
        BY <1>2, <1>4, <1>7, <1>10, <2>4, <3>1 DEF WriterIInv
    <2>5. QED
      BY <1>6, <1>10, <2>1, <2>2, <2>3, <2>4
  <1>11. QED
    BY <1>1, <1>8, <1>9, <1>10, MarkerIs

-----------------------------------------------------------------------------
LEMMA WriterInit == Init => WriterIInv
  <1> SUFFICES ASSUME Init PROVE WriterIInv
    OBVIOUS
  <1> USE RolesTyped
  <1>1. DurabilityIInv
    BY DurabilityInitIInv DEF Init
  <1>2. /\ phase = "open" /\ acked = {} /\ Writes = {}
        /\ step = "dirty" /\ group = 1 /\ row = 1 /\ faults = 0
    BY DEF Init, DurabilityInit, Writes
  <1>3. WriterTypeOK
    BY <1>2, DirtyCleanAssumption DEF WriterTypeOK
  <1>4. CleanUpTo(group - 1)
    BY <1>2 DEF CleanUpTo
  <1>5. WriterAt
    BY <1>2, <1>4 DEF WriterAt
  <1>6. QED
    BY <1>1, <1>2, <1>3, <1>5
    DEF WriterIInv, OnlyWriter, MarkersDurable, Vouches, MarkersInOrder

(* The invariant is inductive. *)
LEMMA WriterNext == WriterIInv /\ [Next]_vars => WriterIInv'
  <1> SUFFICES ASSUME WriterIInv, [Next]_vars PROVE WriterIInv'
    OBVIOUS
  <1>1. CASE WriterStep
    BY <1>1, MarkDirtyStep, PutRowStep, MarkCleanStep, AdvanceCursorStep, ResumeStep
    DEF WriterStep
  <1>2. CASE Background \/ Stopped \/ Restarted \/ Repaired
    BY <1>2, BackgroundStep, StoppedStep, RestartedStep
  <1>3. CASE UNCHANGED vars
    <2>1. UNCHANGED <<phase, hist, acked, durable, step, group, row, faults>>
      BY <1>3 DEF vars, dvars, engine, told, wvars
    <2>2. DurabilityIInv'
      BY <1>3, DurabilityStutter DEF WriterIInv, vars
    <2>3. OnlyWriter' /\ MarkersDurable' /\ Vouches' /\ MarkersInOrder'
      BY <2>1, WriterTyped, Survives
    <2>4. WriterTypeOK'
      BY <2>1 DEF WriterIInv, WriterTypeOK
    <2>5. WriterAt'
      BY <2>1 DEF WriterIInv, WriterAt, CleanUpTo, Has, HasDurable, IsMarker
    <2>6. QED
      BY <2>2, <2>3, <2>4, <2>5 DEF WriterIInv
  <1>4. QED
    BY <1>1, <1>2, <1>3 DEF Next

(* For any number of groups, rows and stops, whatever the settings: the
   markers keep their order and what they vouch for.  Fairness is not used. *)
THEOREM WriterInvariant == Spec => []WriterIInv
  BY WriterInit, WriterNext, PTL DEF Spec

(* The writer stays within its groups and rows. *)
THEOREM WriterTypes == Spec => []WriterTypeOK
  <1>1. WriterIInv => WriterTypeOK
    BY DEF WriterIInv
  <1>2. QED
    BY <1>1, WriterInvariant, PTL

(* ADR002's recovery table, first line: who finds a clean marker after a
   stop finds every row of its group and of all groups before it. *)
THEOREM CleanMarkerCovers == Spec => []CleanCovers
  <1>1. ASSUME WriterIInv PROVE CleanCovers
    <2> SUFFICES ASSUME phase = "open", Marker.kind = "clean",
                        NEW g \in 1 .. Marker.group, NEW r \in Rows
                 PROVE  Found(Role("row", g, r)) # {}
      BY DEF CleanCovers
    <2>1. CleanUpTo(Marker.group)
      BY <1>1, MarkerIs DEF NoRole
    <2>2. PICK i \in durable : hist[i].role = Role("row", g, r)
      BY <2>1 DEF CleanUpTo, HasDurable
    <2>3. QED
      BY <1>1, <2>2, WriterTyped DEF Found
  <1>2. QED
    BY <1>1, WriterInvariant, PTL

(* A group that a stop left half written is marked dirty, for whoever opens
   the DB next. *)
THEOREM PartialGroupIsDirty == Spec => []PartialIsDirty
  <1>1. ASSUME WriterIInv PROVE PartialIsDirty
    <2> SUFFICES ASSUME phase = "open", NEW g \in 1 .. Groups, NEW r \in Rows,
                        Found(Role("row", g, r)) # {}, Found(Role("clean", g, 0)) = {}
                 PROVE  Marker = Role("dirty", g, 0)
      BY DEF PartialIsDirty
    <2> USE RolesTyped
    <2>1. \A q : Found(q) # {} <=> Has(q)
      BY <1>1, WriterTyped DEF Found, Has
    <2>2. Has(Role("row", g, r)) /\ ~Has(Role("clean", g, 0))
      BY <2>1
    <2>3. Has(Role("dirty", g, 0))
      <3>1. PICK i \in acked : hist[i].role = Role("row", g, r)
        BY <2>2 DEF Has
      <3>2. hist[i].role.kind = "row" /\ hist[i].role.group = g
        BY <3>1 DEF Role
      <3>3. QED
        BY <1>1, <3>1, <3>2 DEF WriterIInv, Vouches
    <2>4. PICK i \in acked : IsMarker(i) /\ hist[i].role.group = g
      BY <2>3 DEF Has, IsMarker, Role
    <2>5. \A h : g \in 1 .. h => ~CleanUpTo(h)
      BY <2>2 DEF CleanUpTo
    <2>6. PICK m : m = Marker
      OBVIOUS
    <2>7. /\ m \in WriterRoles /\ m.kind \in {"dirty", "clean"} /\ g <= m.group
          /\ m.kind = "clean" => CleanUpTo(m.group)
          /\ m.kind = "dirty" => CleanUpTo(m.group - 1)
      BY <1>1, <2>4, <2>6, MarkerIs
    <2>8. m.kind = "dirty" /\ m.group = g
      <3>1. m.group \in Nat
        BY <2>7
      <3>2. m.kind # "clean"
        BY <2>5, <2>7, <3>1
      <3>3. ~(g <= m.group - 1)
        BY <2>5, <2>7, <3>1, <3>2
      <3>4. QED
        BY <2>7, <3>1, <3>2, <3>3
    <2>9. QED
      BY <2>6, <2>7, <2>8
  <1>2. QED
    BY <1>1, WriterInvariant, PTL

(* The cursor never tells the source to go on behind a group that is not
   marked clean. *)
THEOREM CursorStaysBehind == Spec => []CursorBehindClean
  <1>1. ASSUME WriterIInv PROVE CursorBehindClean
    <2> SUFFICES ASSUME phase = "open", NEW g \in 1 .. Groups,
                        NEW i, i \in Found(Role("cursor", g, 0))
                 PROVE  Found(Role("clean", g, 0)) # {}
      BY DEF CursorBehindClean
    <2>1. i \in acked /\ hist[i].role.kind = "cursor" /\ hist[i].role.group = g
      BY <1>1, WriterTyped DEF Found, Role
    <2>2. Has(Role("clean", g, 0))
      BY <1>1, <2>1 DEF WriterIInv, Vouches
    <2>3. QED
      BY <1>1, <2>2, WriterTyped DEF Has, Found
  <1>2. QED
    BY <1>1, WriterInvariant, PTL
===============================================================================
