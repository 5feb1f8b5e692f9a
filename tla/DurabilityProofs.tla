--------------------------- MODULE DurabilityProofs ---------------------------
(***************************************************************************)
(* For any families, batches, option maps and settings: DurabilityIInv is  *)
(* inductive, batches stay whole, readers find what was acknowledged, and  *)
(* Durability implements CrashStore.  There is one lemma for each action,  *)
(* with one step for each part of the invariant.                           *)
(***************************************************************************)
EXTENDS DurabilityInv, TLAPS

(* A write is in the union of memtables or files if a family has it. *)
LEMMA JoinedMember ==
  ASSUME NEW m, NEW i
  PROVE  i \in Joined(m) <=> \E f \in Families : i \in m[f]
  BY DEF Joined

(* Each write is about families of the DB, at least one. *)
LEMMA EntryTyped ==
  ASSUME DurabilityTypeOK, NEW i \in Writes
  PROVE  /\ hist[i].families \subseteq Families /\ hist[i].families # {}
         /\ hist[i].logged \in BOOLEAN /\ hist[i].whole \in BOOLEAN
         /\ i \in Nat /\ i <= Len(hist)
  <1> DEFINE Entries == [families : Shapes, logged : BOOLEAN, whole : BOOLEAN, role : Roles]
  <1>1. hist \in Seq(Entries)
    BY DEF DurabilityTypeOK
  <1> HIDE DEF Entries
  <1>2. hist[i] \in Entries /\ i \in Nat /\ i <= Len(hist)
    BY <1>1 DEF Writes
  <1>3. hist[i].families \in Shapes /\ hist[i].logged \in BOOLEAN /\ hist[i].whole \in BOOLEAN
    BY <1>2 DEF Entries
  <1>4. QED
    BY <1>2, <1>3, DurabilityAssumption

(* At the start nothing was written. *)
LEMMA DurabilityInitIInv == DurabilityInit => DurabilityIInv
  <1> SUFFICES ASSUME DurabilityInit PROVE DurabilityIInv
    OBVIOUS
  <1> USE DurabilityAssumption DEF DurabilityInit
  <1>1. Joined(Empty) = {} /\ Writes = {} /\ Len(hist) = 0
    BY DEF Joined, Empty, Writes
  <1>2. DurabilityTypeOK
    <2>1. hist \in Seq([families : Shapes, logged : BOOLEAN, whole : BOOLEAN, role : Roles])
      OBVIOUS
    <2>2. Logged = {}
      BY <1>1 DEF Logged
    <2>3. mem \in [Families -> SUBSET Writes] /\ files \in [Families -> SUBSET Writes]
      BY DEF Empty
    <2>4. Len(hist) <= MaxWrites
      BY <1>1
    <2>5. QED
      BY <2>1, <2>2, <2>3, <2>4 DEF DurabilityTypeOK
  <1>3. InItsFamilies /\ AtRest /\ Known /\ MemLogged
    <2>1. UNION {Visible(f) : f \in Families} = {}
      BY DEF Visible, Empty
    <2>2. QED
      BY <1>1, <2>1 DEF InItsFamilies, AtRest, Known, MemLogged, InFiles, StoreShowsAcked, Empty
  <1>4. Tails /\ FilesCovered /\ Kept /\ StoppedNoHole /\ HalfLogged /\ BatchWhole
    BY <1>1 DEF Tails, FilesCovered, Kept, StoppedNoHole, HalfLogged, BatchWhole, InFiles
  <1>5. QED
    BY <1>2, <1>3, <1>4 DEF DurabilityIInv

-----------------------------------------------------------------------------
(* What write_batch does to the list of writes: one more at its end. *)
LEMMA OneMoreWrite ==
  ASSUME DurabilityTypeOK, NEW shape \in Shapes, NEW term, NEW role \in Roles,
         Write(shape, term, role)
  PROVE  LET n == Len(hist) + 1
         IN  /\ n \in Nat /\ n \in Ids /\ n \notin Writes
             /\ \A i \in Writes : i \in Nat /\ i < n
             /\ Writes' = Writes \cup {n}
             /\ \A i \in Writes : hist'[i] = hist[i]
             /\ hist'[n].families = shape /\ hist'[n].role = role
             /\ hist'[n].logged = ~Flag(term, "disable_wal")
             /\ hist'[n].whole = (~Flag(term, "disable_wal") \/ opts.atomic)
             /\ hist' \in Seq([families : Shapes, logged : BOOLEAN,
                               whole : BOOLEAN, role : Roles])
             /\ Len(hist') <= MaxWrites
             /\ Flag(term, "sync") => ~Flag(term, "disable_wal")
             /\ Logged' = IF Flag(term, "disable_wal") THEN Logged ELSE Logged \cup {n}
  <1> DEFINE n == Len(hist) + 1
             logged == ~Flag(term, "disable_wal")
             entry == [families |-> shape, logged |-> logged,
                       whole |-> (logged \/ opts.atomic), role |-> role]
             Entries == [families : Shapes, logged : BOOLEAN, whole : BOOLEAN, role : Roles]
  <1>1. hist \in Seq(Entries) /\ Len(hist) \in Nat /\ Writes = 1 .. Len(hist)
    BY DEF DurabilityTypeOK, Writes
  <1>2. logged \in BOOLEAN /\ (logged \/ opts.atomic) \in BOOLEAN
    BY DurabilityAssumption DEF DurabilityTypeOK, Flag
  <1>3. entry \in Entries
    BY <1>2
  <1>4. hist' = Append(hist, entry) /\ n <= MaxWrites /\ AcceptsWriteOptions(term)
    BY DEF Write
  <1> HIDE DEF entry, Entries
  <1>5. /\ hist' \in Seq(Entries) /\ Len(hist') = n /\ hist'[n] = entry
        /\ \A i \in 1 .. Len(hist) : hist'[i] = hist[i]
        /\ DOMAIN hist' = 1 .. n
    BY <1>1, <1>3, <1>4
  <1>6. n \in Nat /\ n \in Ids /\ n \notin Writes /\ Writes' = Writes \cup {n}
        /\ \A i \in Writes : i \in Nat /\ i < n
    BY <1>1, <1>4, <1>5, DurabilityAssumption DEF Writes, Ids
  <1>7. /\ entry.families = shape /\ entry.role = role /\ entry.logged = logged
        /\ entry.whole = (logged \/ opts.atomic)
    BY DEF entry
  <1>8. Logged' = IF logged THEN Logged \cup {n} ELSE Logged
    <2>1. \A i : i \in Logged' <=> i \in Writes' /\ hist'[i].logged
      BY DEF Logged
    <2>2. \A i : i \in Logged <=> i \in Writes /\ hist[i].logged
      BY DEF Logged
    <2>3. QED
      BY <1>1, <1>2, <1>5, <1>6, <1>7, <2>1, <2>2
  <1>9. QED
    BY <1>1, <1>4, <1>5, <1>6, <1>7, <1>8 DEF AcceptsWriteOptions, Entries

LEMMA WriteStep ==
  ASSUME DurabilityIInv, NEW shape \in Shapes, NEW term, NEW role \in Roles,
         Write(shape, term, role)
  PROVE  DurabilityIInv'
  <1> DEFINE n == Len(hist) + 1
             sync == Flag(term, "sync")
             logged == ~Flag(term, "disable_wal")
             before == {i \in acked \cup {n} : i = n \/ hist[i].logged}
  <1>1. /\ n \in Nat /\ n \in Ids /\ n \notin Writes
        /\ \A i \in Writes : i \in Nat /\ i < n
        /\ Writes' = Writes \cup {n}
        /\ \A i \in Writes : hist'[i] = hist[i]
        /\ hist'[n].families = shape
        /\ hist'[n].logged = logged
        /\ hist'[n].whole = (logged \/ opts.atomic)
        /\ hist' \in Seq([families : Shapes, logged : BOOLEAN, whole : BOOLEAN, role : Roles])
        /\ Len(hist') <= MaxWrites
        /\ sync => logged
        /\ Logged' = IF logged THEN Logged \cup {n} ELSE Logged
        /\ Logged \subseteq Writes
    BY OneMoreWrite DEF DurabilityIInv, Logged
  <1>2. /\ phase = "open" /\ UNCHANGED <<phase, opts, files, torn, salvaged>>
        /\ mem' = [f \in Families |-> IF f \in shape THEN mem[f] \cup {n} ELSE mem[f]]
        /\ acked' = acked \cup {n}
        /\ handed' = IF logged /\ (sync \/ ~opts.manual) THEN handed \cup before ELSE handed
        /\ durable' = IF sync THEN durable \cup before ELSE durable
        /\ IF logged
           THEN /\ wal' = wal \cup {n}
                /\ buffered' = IF sync \/ ~opts.manual THEN {} ELSE buffered \cup {n}
                /\ unsynced' = IF sync THEN {} ELSE unsynced \cup {n}
           ELSE UNCHANGED <<wal, buffered, unsynced>>
    BY DEF Write, LogWrite
  <1>3. /\ wal \subseteq Logged /\ torn = {} /\ buffered \subseteq unsynced
        /\ unsynced \subseteq wal /\ acked \subseteq Writes /\ handed \subseteq acked
        /\ durable \subseteq handed
        /\ mem \in [Families -> SUBSET Writes] /\ files \in [Families -> SUBSET Writes]
    BY <1>2 DEF DurabilityIInv, DurabilityTypeOK, AtRest
  <1>4. shape \subseteq Families
    BY DurabilityAssumption
  <1> HIDE DEF n, sync, logged, before
  <1>5. InFiles' = InFiles
    BY <1>2 DEF InFiles, Joined
  <1>6. InFiles \subseteq Writes
    BY <1>3 DEF InFiles, Joined
  <1>7. DurabilityTypeOK'
    <2>1. before \subseteq acked' /\ before \subseteq Writes'
      BY <1>1, <1>2, <1>3 DEF before
    <2>2. handed' \subseteq acked' /\ durable' \subseteq handed' /\ acked' \subseteq Writes'
      BY <1>1, <1>2, <1>3, <2>1
    <2>3. /\ wal' \subseteq Logged' /\ torn' \subseteq Logged'
          /\ buffered' \subseteq unsynced' /\ unsynced' \subseteq wal'
      BY <1>1, <1>2, <1>3
    <2>4. mem' \in [Families -> SUBSET Writes'] /\ files' \in [Families -> SUBSET Writes']
      BY <1>1, <1>2, <1>3
    <2>5. QED
      BY <1>1, <1>2, <2>2, <2>3, <2>4 DEF DurabilityIInv, DurabilityTypeOK
  <1>8. InItsFamilies'
    BY <1>1, <1>2, <1>3, <1>4 DEF DurabilityIInv, InItsFamilies
  <1>9. AtRest'
    BY <1>2 DEF DurabilityIInv, AtRest
  <1>10. Known'
    <2>1. shape # {}
      BY DurabilityAssumption
    <2>2. \A i : i \in acked <=> \E f \in Families : i \in Visible(f)
      BY <1>2 DEF DurabilityIInv, Known, StoreShowsAcked
    <2>3. \A f \in Families : Visible(f)' = IF f \in shape THEN Visible(f) \cup {n} ELSE Visible(f)
      BY <1>2, <1>3 DEF Visible
    <2>4. \A i : i \in acked' <=> \E f \in Families : i \in Visible(f)'
      BY <1>2, <1>4, <2>1, <2>2, <2>3
    <2>5. InFiles' \cup wal' \subseteq acked'
      BY <1>2, <1>5 DEF DurabilityIInv, Known
    <2>6. QED
      BY <2>4, <2>5 DEF Known, StoreShowsAcked
  <1>11. MemLogged'
    BY <1>1, <1>2, <1>3 DEF DurabilityIInv, MemLogged
  <1>12. Tails'
    <2>1. wal \subseteq Writes
      BY <1>1, <1>3
    <2>2. QED
      BY <1>1, <1>2, <1>3, <2>1 DEF DurabilityIInv, Tails
  <1>13. FilesCovered'
    BY <1>1, <1>2, <1>3, <1>5, <1>6 DEF DurabilityIInv, FilesCovered
  <1>14. Kept'
    <2>1. \A i \in acked : hist[i].logged => i \in InFiles \cup wal
      BY <1>2 DEF DurabilityIInv, Known, StoreShowsAcked, MemLogged, Visible, InFiles, Joined
    <2>2. before \subseteq InFiles \cup wal \cup {n}
      BY <2>1 DEF before
    <2>3. durable' \subseteq InFiles' \cup (wal' \ unsynced')
      BY <1>1, <1>2, <1>3, <1>5, <2>2 DEF DurabilityIInv, Kept
    <2>4. handed' \subseteq InFiles' \cup (wal' \ buffered')
      BY <1>1, <1>2, <1>3, <1>5, <2>2 DEF DurabilityIInv, Kept
    <2>5. QED
      BY <1>2, <2>3, <2>4 DEF Kept
  <1>15. StoppedNoHole'
    BY <1>2 DEF StoppedNoHole
  <1>16. HalfLogged' /\ BatchWhole'
    <2>1. Readable = wal /\ Readable' = wal'
      BY <1>2, <1>3 DEF Readable
    <2>2. \A i \in Writes : Half(files, i)' <=> Half(files, i)
      BY <1>1, <1>2 DEF Half
    <2>3. \A i \in Writes' : i = n => ~ Half(files, i)'
      <3>1. \A f \in Families : n \notin files'[f]
        BY <1>1, <1>2, <1>3
      <3>2. QED
        BY <1>1, <1>4, <3>1 DEF Half
    <2>4. HalfLogged'
      <3> SUFFICES ASSUME NEW i \in Writes', hist'[i].whole, Half(files, i)'
                   PROVE  i \in (Readable \ unsynced)'
        BY DEF HalfLogged
      <3>1. i \in Writes /\ i # n /\ hist[i].whole /\ Half(files, i)
        BY <1>1, <2>2, <2>3
      <3>2. i \in wal \ unsynced
        BY <2>1, <3>1 DEF DurabilityIInv, HalfLogged
      <3>3. QED
        BY <1>2, <2>1, <3>1, <3>2
    <2>5. \A f \in Families : Visible(f)' = IF f \in shape THEN Visible(f) \cup {n} ELSE Visible(f)
      BY <1>2, <1>3 DEF Visible
    <2>6. \A i \in Writes : hist[i].families \subseteq Families
      BY EntryTyped DEF DurabilityIInv
    <2>7. BatchWhole'
      BY <1>1, <1>2, <1>4, <2>5, <2>6 DEF DurabilityIInv, BatchWhole
    <2>8. QED
      BY <2>4, <2>7
  <1>17. QED
    BY <1>7, <1>8, <1>9, <1>10, <1>11, <1>12, <1>13, <1>14, <1>15, <1>16 DEF DurabilityIInv

-----------------------------------------------------------------------------
(* As long as no write is added, the list of writes says the same. *)
LEMMA SameWrites ==
  ASSUME UNCHANGED hist
  PROVE  /\ Writes' = Writes /\ Logged' = Logged
         /\ \A dir, i : Half(dir, i)' <=> Half(dir, i)
  BY DEF Writes, Logged, Half

(* What types and the invariant say of where writes are. *)
LEMMA Places ==
  ASSUME DurabilityIInv
  PROVE  /\ InFiles \subseteq Writes /\ Readable \subseteq wal
         /\ wal \subseteq Logged /\ Logged \subseteq Writes /\ torn \subseteq Logged
         /\ buffered \subseteq unsynced /\ unsynced \subseteq wal
         /\ durable \subseteq handed /\ handed \subseteq acked /\ acked \subseteq Writes
         /\ mem \in [Families -> SUBSET Writes] /\ files \in [Families -> SUBSET Writes]
         /\ \A i \in Writes : i \in Nat
         /\ \A i : i \in InFiles <=> \E f \in Families : i \in files[f]
         /\ phase # "lost" => torn = {} /\ Readable = wal
         /\ phase = "open" =>
              /\ \A i : i \in acked <=> \E f \in Families : i \in Visible(f)
              /\ \A i \in acked : hist[i].logged => i \in InFiles \cup wal
  <1>1. /\ wal \subseteq Logged /\ Logged \subseteq Writes /\ torn \subseteq Logged
        /\ buffered \subseteq unsynced /\ unsynced \subseteq wal
        /\ durable \subseteq handed /\ handed \subseteq acked /\ acked \subseteq Writes
        /\ mem \in [Families -> SUBSET Writes] /\ files \in [Families -> SUBSET Writes]
    BY DEF DurabilityIInv, DurabilityTypeOK, Logged
  <1>2. \A i : i \in InFiles <=> \E f \in Families : i \in files[f]
    BY JoinedMember DEF InFiles
  <1>3. InFiles \subseteq Writes
    BY <1>1, <1>2
  <1>4. \A i \in Writes : i \in Nat
    BY EntryTyped DEF DurabilityIInv
  <1>5. Readable \subseteq wal /\ (phase # "lost" => torn = {} /\ Readable = wal)
    BY DEF DurabilityIInv, AtRest, Readable
  <1>6. ASSUME phase = "open"
        PROVE  /\ \A i : i \in acked <=> \E f \in Families : i \in Visible(f)
               /\ \A i \in acked : hist[i].logged => i \in InFiles \cup wal
    <2>1. \A i : i \in acked <=> \E f \in Families : i \in Visible(f)
      BY <1>6 DEF DurabilityIInv, Known, StoreShowsAcked
    <2>2. ASSUME NEW i \in acked, hist[i].logged PROVE i \in InFiles \cup wal
      BY <1>2, <2>1, <2>2 DEF DurabilityIInv, MemLogged, Visible
    <2>3. QED
      BY <2>1, <2>2
  <1>7. QED
    BY <1>1, <1>2, <1>3, <1>4, <1>5, <1>6

-----------------------------------------------------------------------------
(* The log goes to the system, and perhaps to the medium: flush_wal, and
   what else reads the log of an open DB. *)
LEMMA LogHandedOver ==
  ASSUME DurabilityIInv, phase = "open",
         UNCHANGED <<phase, opts, hist, mem, files, wal, torn, salvaged, acked>>,
         buffered' = {}, unsynced' \in {unsynced, {}},
         handed' \subseteq acked, handed \subseteq handed' ,
         handed' \subseteq handed \cup Logged,
         durable' \subseteq handed',
         durable' \subseteq durable \/ unsynced' = {}
  PROVE  DurabilityIInv'
  <1> USE Places, SameWrites
  <1>1. InFiles' = InFiles /\ Readable' = Readable
        /\ \A f : Visible(f)' = Visible(f)
    BY DEF InFiles, Readable, Joined, Visible
  <1>2. \A i \in handed' : i \in InFiles \cup wal
    BY DEF DurabilityIInv, Kept, Logged
  <1>3. DurabilityTypeOK'
    BY DEF DurabilityIInv, DurabilityTypeOK
  <1>4. InItsFamilies' /\ AtRest' /\ MemLogged' /\ StoppedNoHole'
    BY DEF DurabilityIInv, InItsFamilies, AtRest, MemLogged, StoppedNoHole
  <1>5. Known'
    BY <1>1 DEF DurabilityIInv, Known, StoreShowsAcked
  <1>6. Tails' /\ FilesCovered'
    BY <1>1 DEF DurabilityIInv, Tails, FilesCovered
  <1>7. Kept'
    BY <1>1, <1>2 DEF DurabilityIInv, Kept
  <1>8. HalfLogged'
    BY <1>1 DEF DurabilityIInv, HalfLogged
  <1>9. BatchWhole'
    BY <1>1 DEF DurabilityIInv, BatchWhole
  <1>10. QED
    BY <1>3, <1>4, <1>5, <1>6, <1>7, <1>8, <1>9 DEF DurabilityIInv

LEMMA FlushWalStep ==
  ASSUME DurabilityIInv, NEW sync \in BOOLEAN, FlushWal(sync)
  PROVE  DurabilityIInv'
  <1>1. /\ handed' = handed \cup (acked \cap Logged)
        /\ durable' = IF sync THEN durable \cup (acked \cap Logged) ELSE durable
        /\ unsynced' = IF sync THEN {} ELSE unsynced
        /\ phase = "open" /\ buffered' = {}
        /\ UNCHANGED <<phase, opts, hist, mem, files, wal, torn, salvaged, acked>>
    BY DEF FlushWal
  <1>2. /\ handed' \subseteq acked /\ durable' \subseteq handed'
        /\ handed' \subseteq handed \cup Logged
    BY <1>1, Places
  <1>3. QED
    BY <1>1, <1>2, LogHandedOver

-----------------------------------------------------------------------------
(* With one family, a flush of it takes every write up to k along; with
   several, what is left unsynced comes after k. *)
LEMMA FlushedStep ==
  ASSUME DurabilityIInv, phase = "open", NEW some \in SUBSET Families, NEW k \in Nat,
         some = Families \/ (~opts.atomic /\ \E f \in Families : some = {f}),
         Flushed(some, k)
  PROVE  DurabilityIInv'
  <1> USE Places, SameWrites
  <1>1. UNCHANGED <<phase, opts, hist, wal, torn, salvaged, acked, handed, durable>>
    BY DEF Flushed, told
  <1>2. \A f \in Families : \A i :
          /\ i \in files'[f] <=> i \in files[f] \/ (f \in some /\ i \in mem[f] /\ i <= k)
          /\ i \in mem'[f] <=> i \in mem[f] /\ ~(f \in some /\ i <= k)
    BY DEF Flushed
  <1>3. \A f \in Families : Visible(f)' = Visible(f)
    BY <1>2 DEF Visible
  <1>4. \A i : i \in InFiles' <=> \E f \in Families : i \in files'[f]
    BY DEF InFiles, Joined
  <1>5. /\ InFiles \subseteq InFiles' /\ InFiles' \subseteq acked
        /\ \A i \in InFiles' : i \in InFiles \/ i <= k
    BY <1>2, <1>4 DEF Visible
  <1>6. /\ buffered' \subseteq buffered /\ unsynced' \subseteq unsynced
        /\ buffered' \subseteq unsynced'
        /\ Several => /\ \A j \in unsynced' : ~(j <= k)
                      /\ \A j \in unsynced \ unsynced' : j <= k
                      /\ \A j \in buffered \ buffered' : j <= k
        /\ ~Several => UNCHANGED <<buffered, unsynced>>
    BY DEF Flushed
  <1>7. ASSUME ~Several, NEW j \in unsynced, j <= k PROVE j \in InFiles'
    <2>1. PICK f \in Families : j \in Visible(f)
      BY DEF DurabilityIInv, Known
    <2>2. f \in some
      BY <1>7 DEF Several
    <2>3. QED
      BY <1>2, <1>4, <1>7, <2>1, <2>2 DEF Visible
  <1>8. Readable' = Readable
    BY <1>1 DEF Readable
  <1>9. DurabilityTypeOK'
    <2>1. mem' \in [Families -> SUBSET Writes] /\ files' \in [Families -> SUBSET Writes]
      BY DEF Flushed
    <2>2. QED
      BY <1>1, <1>6, <2>1 DEF DurabilityIInv, DurabilityTypeOK
  <1>10. InItsFamilies'
    BY <1>1, <1>2 DEF DurabilityIInv, InItsFamilies
  <1>11. AtRest' /\ StoppedNoHole'
    BY <1>1 DEF DurabilityIInv, AtRest, StoppedNoHole
  <1>12. Known'
    BY <1>1, <1>3, <1>5 DEF DurabilityIInv, Known, StoreShowsAcked
  <1>13. MemLogged'
    BY <1>1, <1>2 DEF DurabilityIInv, MemLogged
  <1>14. Tails'
    <2>1. \A i \in wal \ buffered', j \in buffered' : i < j
      <3> SUFFICES ASSUME NEW i \in wal \ buffered', NEW j \in buffered' PROVE i < j
        OBVIOUS
      <3>1. i \in Nat /\ j \in Nat /\ j \in unsynced'
        BY <1>6
      <3>2. CASE i \notin buffered
        BY <1>6, <3>2 DEF DurabilityIInv, Tails
      <3>3. CASE i \in buffered
        BY <1>6, <3>1, <3>3
      <3>4. QED
        BY <3>2, <3>3
    <2>2. \A i \in wal \ unsynced', j \in unsynced' : i < j
      <3> SUFFICES ASSUME NEW i \in wal \ unsynced', NEW j \in unsynced' PROVE i < j
        OBVIOUS
      <3>1. i \in Nat /\ j \in Nat
        BY <1>6
      <3>2. CASE i \notin unsynced
        BY <1>6, <3>2 DEF DurabilityIInv, Tails
      <3>3. CASE i \in unsynced
        BY <1>6, <3>1, <3>3
      <3>4. QED
        BY <3>2, <3>3
    <2>3. QED
      BY <1>1, <2>1, <2>2 DEF Tails
  <1>15. FilesCovered'
    <2> SUFFICES ASSUME NEW i \in InFiles', NEW j \in unsynced', hist[i].logged, j < i
                 PROVE  j \in InFiles'
      BY <1>1 DEF FilesCovered
    <2>1. i \in Nat /\ j \in Nat /\ j \in unsynced
      BY <1>5, <1>6
    <2>2. CASE i \in InFiles
      BY <1>5, <2>1, <2>2 DEF DurabilityIInv, FilesCovered
    <2>3. CASE i <= k
      <3>1. j <= k
        BY <2>1, <2>3
      <3>2. QED
        BY <1>6, <1>7, <2>1, <3>1
    <2>4. QED
      BY <1>5, <2>2, <2>3
  <1>16. Kept'
    BY <1>1, <1>5, <1>6 DEF DurabilityIInv, Kept
  <1>17. HalfLogged'
    <2> SUFFICES ASSUME NEW i \in Writes, hist[i].whole, Half(files, i)'
                 PROVE  i \in Readable /\ i \notin unsynced'
      BY <1>1, <1>8 DEF HalfLogged
    <2>1. PICK f \in hist[i].families, g \in hist[i].families :
            i \in files'[f] /\ i \notin files'[g]
      BY <1>1 DEF Half
    <2>2. f \in Families /\ g \in Families /\ f # g
      BY <2>1, EntryTyped DEF DurabilityIInv
    <2>3. CASE i \in files[f]
      <3>1. Half(files, i)
        BY <1>2, <2>1, <2>2, <2>3 DEF Half
      <3>2. QED
        BY <1>6, <3>1 DEF DurabilityIInv, HalfLogged
    <2>4. CASE i \notin files[f]
      <3>1. f \in some /\ i \in mem[f] /\ i <= k
        BY <1>2, <2>1, <2>2, <2>4
      <3>2. i \in mem[g] /\ g \notin some
        BY <1>2, <2>1, <2>2, <3>1 DEF DurabilityIInv, BatchWhole, Visible
      <3>3. hist[i].logged /\ i \in wal
        BY <2>2, <3>1, <3>2 DEF DurabilityIInv, MemLogged
      <3>4. Several
        BY <2>2 DEF Several
      <3>5. QED
        BY <1>6, <3>1, <3>3, <3>4
    <2>5. QED
      BY <2>3, <2>4
  <1>18. BatchWhole'
    <2>1. \A i \in Writes : hist[i].families \subseteq Families
      BY EntryTyped DEF DurabilityIInv
    <2>2. QED
      BY <1>1, <1>3, <2>1 DEF DurabilityIInv, BatchWhole
  <1>19. QED
    BY <1>9, <1>10, <1>11, <1>12, <1>13, <1>14, <1>15, <1>16, <1>17, <1>18 DEF DurabilityIInv

LEMMA MemFlushStep ==
  ASSUME DurabilityIInv, NEW some \in SUBSET Families, NEW k \in Writes, MemFlush(some, k)
  PROVE  DurabilityIInv'
  <1>1. k \in Nat
    BY Places
  <1>2. Flushed(some, k) /\ phase = "open"
        /\ (some = Families \/ (~opts.atomic /\ \E f \in Families : some = {f}))
    BY DEF MemFlush, Flushed
  <1>3. QED
    BY <1>1, <1>2, FlushedStep

-----------------------------------------------------------------------------
(* A close keeps everything: in files if some of it had no log. *)
LEMMA CloseStep == ASSUME DurabilityIInv, Close PROVE DurabilityIInv'
  <1> USE Places, SameWrites
  <1> DEFINE unlogged == ~(Joined(mem) \subseteq Logged)
  <1>1. /\ phase = "open" /\ phase' = "closed"
        /\ files' = IF unlogged THEN [f \in Families |-> Visible(f)] ELSE files
        /\ unsynced' = IF unlogged /\ Several THEN {} ELSE unsynced
        /\ mem' = Empty /\ buffered' = {} /\ salvaged' = FALSE
        /\ UNCHANGED <<opts, hist, wal, torn, acked, handed, durable>>
    BY DEF Close, told
  <1>2. mem' \in [Families -> SUBSET Writes] /\ \A f \in Families : mem'[f] = {}
    BY <1>1 DEF Empty
  <1>3. files' \in [Families -> SUBSET Writes]
    BY <1>1 DEF Visible
  <1>4. \A i : i \in InFiles' <=> \E f \in Families : i \in files'[f]
    BY DEF InFiles, Joined
  <1>5. InFiles \subseteq InFiles' /\ InFiles' \subseteq acked
    BY <1>1, <1>4 DEF Visible
  <1>6. acked \subseteq InFiles' \cup wal /\ (unlogged => InFiles' = acked)
    <2>1. CASE unlogged
      BY <1>1, <1>4, <2>1
    <2>2. CASE ~unlogged
      <3>1. \A i : i \in Joined(mem) <=> \E f \in Families : i \in mem[f]
        BY JoinedMember
      <3>2. \A i \in acked : i \in InFiles \/ hist[i].logged
        BY <1>1, <2>2, <3>1 DEF Visible, Logged
      <3>3. QED
        BY <1>1, <1>5, <2>2, <3>2
    <2>3. QED
      BY <2>1, <2>2
  <1>7. Readable' = wal' /\ Readable = wal
    BY <1>1 DEF Readable, DurabilityIInv, AtRest
  <1> HIDE DEF unlogged
  <1>8. DurabilityTypeOK'
    BY <1>1, <1>2, <1>3 DEF DurabilityIInv, DurabilityTypeOK
  <1>9. InItsFamilies'
    BY <1>1, <1>2 DEF DurabilityIInv, InItsFamilies, Visible
  <1>10. AtRest' /\ MemLogged'
    BY <1>1, <1>2 DEF DurabilityIInv, AtRest, MemLogged, Empty
  <1>11. Known'
    BY <1>1, <1>5 DEF DurabilityIInv, Known, StoreShowsAcked
  <1>12. Tails'
    BY <1>1 DEF DurabilityIInv, Tails
  <1>13. FilesCovered'
    BY <1>1, <1>5, <1>6 DEF DurabilityIInv, FilesCovered, Known, InFiles, Joined
  <1>14. Kept'
    BY <1>1, <1>5, <1>6 DEF DurabilityIInv, Kept
  <1>15. StoppedNoHole'
    BY <1>1, <1>6, <1>7 DEF StoppedNoHole
  <1>16. HalfLogged'
    <2> SUFFICES ASSUME NEW i \in Writes, hist[i].whole, Half(files, i)'
                 PROVE  i \in Readable' /\ i \notin unsynced'
      BY <1>1 DEF HalfLogged
    <2>1. CASE unlogged
      <3>1. PICK f \in hist[i].families, g \in hist[i].families :
              i \in files'[f] /\ i \notin files'[g]
        BY <1>1 DEF Half
      <3>2. f \in Families /\ g \in Families
        BY EntryTyped DEF DurabilityIInv
      <3>3. i \in Visible(f) /\ i \notin Visible(g)
        BY <1>1, <2>1, <3>1, <3>2
      <3>4. QED
        BY <1>1, <3>3 DEF DurabilityIInv, BatchWhole
    <2>2. CASE ~unlogged
      BY <1>1, <1>7, <2>2 DEF DurabilityIInv, HalfLogged, Half
    <2>3. QED
      BY <2>1, <2>2
  <1>17. BatchWhole'
    BY <1>1 DEF BatchWhole
  <1>18. QED
    BY <1>8, <1>9, <1>10, <1>11, <1>12, <1>13, <1>14, <1>15, <1>16, <1>17 DEF DurabilityIInv

(* The end of the process takes the end of the log. *)
LEMMA HaltStep == ASSUME DurabilityIInv, Halt PROVE DurabilityIInv'
  <1> USE Places, SameWrites
  <1>1. /\ phase = "open" /\ phase' = "halted"
        /\ mem' = Empty /\ wal' = wal \ buffered /\ unsynced' = unsynced \ buffered
        /\ buffered' = {} /\ salvaged' = FALSE
        /\ UNCHANGED <<opts, hist, files, torn, acked, handed, durable>>
    BY DEF Halt, told
  <1>2. mem' \in [Families -> SUBSET Writes] /\ \A f \in Families : mem'[f] = {}
    BY <1>1 DEF Empty
  <1>3. InFiles' = InFiles /\ Readable' = wal'
    BY <1>1 DEF InFiles, Joined, Readable, DurabilityIInv, AtRest
  <1>4. DurabilityTypeOK'
    BY <1>1, <1>2 DEF DurabilityIInv, DurabilityTypeOK
  <1>5. InItsFamilies' /\ AtRest' /\ MemLogged'
    BY <1>1, <1>2 DEF DurabilityIInv, InItsFamilies, AtRest, MemLogged, Empty
  <1>6. Known' /\ BatchWhole'
    BY <1>1, <1>3 DEF DurabilityIInv, Known, StoreShowsAcked, BatchWhole
  <1>7. Tails' /\ FilesCovered'
    BY <1>1, <1>3 DEF DurabilityIInv, Tails, FilesCovered
  <1>8. Kept'
    BY <1>1, <1>3 DEF DurabilityIInv, Kept
  <1>9. StoppedNoHole'
    <2> SUFFICES ASSUME NEW i \in InFiles \cup wal', NEW j \in acked,
                        hist[i].logged, hist[j].logged, j < i
                 PROVE  j \in InFiles \cup wal'
      BY <1>1, <1>3 DEF StoppedNoHole
    <2>1. i \in Nat /\ j \in Nat /\ j \in InFiles \cup wal
      BY <1>1
    <2>2. CASE j \in buffered /\ i \in InFiles
      BY <2>2 DEF DurabilityIInv, FilesCovered
    <2>3. CASE j \in buffered /\ i \in wal'
      <3>1. i < j
        BY <1>1, <2>3 DEF DurabilityIInv, Tails
      <3>2. QED
        BY <2>1, <3>1
    <2>4. QED
      BY <1>1, <2>1, <2>2, <2>3
  <1>10. HalfLogged'
    BY <1>1, <1>3 DEF DurabilityIInv, HalfLogged, Half
  <1>11. QED
    BY <1>4, <1>5, <1>6, <1>7, <1>8, <1>9, <1>10 DEF DurabilityIInv

(* A loss of power cuts the unsynced end of the log and garbles some of it. *)
LEMMA PowerLossStep ==
  ASSUME DurabilityIInv, NEW cut \in Nat, NEW garbled, PowerLoss(cut, garbled)
  PROVE  DurabilityIInv'
  <1> USE Places, SameWrites
  <1> DEFINE onDisk == {i \in wal \ buffered : i <= cut \/ i \notin unsynced}
  <1>1. /\ phase \in {"open", "closed", "halted"} /\ phase' = "lost"
        /\ garbled \subseteq onDisk \cap unsynced
        /\ wal' = onDisk \ garbled /\ torn' = garbled /\ mem' = Empty
        /\ buffered' = {} /\ unsynced' = {}
        /\ salvaged' = (phase # "open" /\ salvaged)
        /\ UNCHANGED <<opts, hist, files, acked, handed, durable>>
    BY DEF PowerLoss, told
  <1>2. mem' \in [Families -> SUBSET Writes] /\ \A f \in Families : mem'[f] = {}
    BY <1>1 DEF Empty
  <1>3. InFiles' = InFiles
    BY <1>1 DEF InFiles, Joined
  <1>4. \A i : i \in Readable' <=> /\ i \in wal \ buffered /\ i \notin garbled
                                   /\ i <= cut \/ i \notin unsynced
                                   /\ \A g \in garbled : i < g
    BY <1>1 DEF Readable
  <1>5. wal \ unsynced \subseteq Readable'
    <2> SUFFICES ASSUME NEW i \in wal \ unsynced PROVE i \in Readable'
      OBVIOUS
    <2>1. \A g \in garbled : i < g
      BY <1>1 DEF DurabilityIInv, Tails
    <2>2. QED
      BY <1>1, <1>4, <2>1
  <1>6. wal' \subseteq wal /\ garbled \subseteq wal /\ garbled \subseteq unsynced
    BY <1>1
  <1>7. DurabilityTypeOK'
    BY <1>1, <1>2, <1>6 DEF DurabilityIInv, DurabilityTypeOK
  <1>8. InItsFamilies' /\ AtRest' /\ MemLogged'
    BY <1>1, <1>2 DEF DurabilityIInv, InItsFamilies, AtRest, MemLogged, Empty
  <1>9. Known' /\ BatchWhole' /\ Tails' /\ FilesCovered'
    BY <1>1, <1>3, <1>6
    DEF DurabilityIInv, Known, StoreShowsAcked, BatchWhole, Tails, FilesCovered
  <1>10. Kept'
    BY <1>1, <1>3, <1>5 DEF DurabilityIInv, Kept
  <1> HIDE DEF onDisk
  <1>11. StoppedNoHole'
    <2> SUFFICES ASSUME NEW i \in InFiles \cup Readable', NEW j \in acked, ~salvaged',
                        hist[i].logged, hist[j].logged, j < i
                 PROVE  j \in InFiles \cup Readable'
      BY <1>1, <1>3 DEF StoppedNoHole
    <2>1. i \in InFiles \cup wal /\ i \in Nat /\ j \in Nat
      BY <1>4
    <2>2. j \in InFiles \cup wal
      BY <1>1, <2>1 DEF DurabilityIInv, StoppedNoHole
    <2>3. CASE j \in wal \ unsynced
      BY <1>5, <2>3
    <2>4. CASE j \in unsynced /\ i \in InFiles
      BY <2>4 DEF DurabilityIInv, FilesCovered
    <2>5. CASE j \in unsynced /\ i \in Readable'
      <3>1. i \in wal \ buffered /\ (i <= cut \/ i \notin unsynced) /\ \A g \in garbled : i < g
        BY <1>4, <2>5
      <3>2. i \in unsynced /\ i <= cut
        <4>1. i \notin unsynced => i < j
          BY <2>5, <3>1 DEF DurabilityIInv, Tails
        <4>2. QED
          BY <2>1, <3>1, <4>1
      <3>3. j \notin buffered
        <4>1. j \in buffered => i < j
          BY <3>1 DEF DurabilityIInv, Tails
        <4>2. QED
          BY <2>1, <4>1
      <3>4. ASSUME NEW g \in garbled PROVE g \in Nat /\ j < g
        <4>1. g \in Nat
          BY <1>6
        <4>2. i < g
          BY <3>1
        <4>3. QED
          BY <2>1, <4>1, <4>2
      <3>5. j \notin garbled /\ j <= cut
        BY <2>1, <3>2, <3>4
      <3>6. QED
        BY <1>4, <2>5, <3>3, <3>4, <3>5
    <2>6. QED
      BY <2>2, <2>3, <2>4, <2>5
  <1>12. HalfLogged'
    BY <1>1, <1>5 DEF DurabilityIInv, HalfLogged, Half
  <1>13. QED
    BY <1>7, <1>8, <1>9, <1>10, <1>11, <1>12 DEF DurabilityIInv

-----------------------------------------------------------------------------
(* Files after a replay: what was in files and what was replayed, with every
   whole batch whole. *)
LEMMA RecoveredFiles ==
  ASSUME DurabilityIInv, NEW R, Readable \subseteq R, R \subseteq wal
  PROVE  /\ Recovered(R) \in [Families -> SUBSET Writes]
         /\ Joined(Recovered(R)) = InFiles \cup R
         /\ \A f \in Families : \A i \in Recovered(R)[f] : f \in hist[i].families
         /\ \A i \in Writes : hist[i].whole => ~Half(Recovered(R), i)
  <1> USE Places
  <1>1. \A f \in Families : \A i :
          i \in Recovered(R)[f] <=> i \in files[f] \/ (i \in R /\ f \in hist[i].families)
    BY DEF Recovered
  <1>2. Recovered(R) \in [Families -> SUBSET Writes]
    BY DEF Recovered
  <1>3. \A i \in Writes : hist[i].families \subseteq Families /\ hist[i].families # {}
    BY EntryTyped DEF DurabilityIInv
  <1>4. Joined(Recovered(R)) = InFiles \cup R
    <2>1. \A i : i \in Joined(Recovered(R)) <=> \E f \in Families : i \in Recovered(R)[f]
      BY JoinedMember
    <2>2. ASSUME NEW i \in R PROVE \E f \in Families : i \in Recovered(R)[f]
      <3>1. i \in Writes
        OBVIOUS
      <3>2. PICK f \in hist[i].families : f \in Families
        BY <1>3, <3>1
      <3>3. QED
        BY <1>1, <3>2
    <2>3. QED
      BY <1>1, <2>1, <2>2
  <1>5. \A f \in Families : \A i \in Recovered(R)[f] : f \in hist[i].families
    BY <1>1 DEF DurabilityIInv, InItsFamilies
  <1>6. ASSUME NEW i \in Writes, hist[i].whole, Half(Recovered(R), i) PROVE FALSE
    <2>1. PICK f \in hist[i].families, g \in hist[i].families :
            i \in Recovered(R)[f] /\ i \notin Recovered(R)[g]
      BY <1>6 DEF Half
    <2>2. f \in Families /\ g \in Families
      BY <1>3, <2>1
    <2>3. i \notin R /\ i \in files[f] /\ i \notin files[g]
      BY <1>1, <2>1, <2>2
    <2>4. Half(files, i)
      BY <2>1, <2>3 DEF Half
    <2>5. i \in Readable
      BY <1>6, <2>4 DEF DurabilityIInv, HalfLogged
    <2>6. QED
      BY <2>3, <2>5
  <1>7. QED
    BY <1>2, <1>4, <1>5, <1>6

(* Every mode replays what can be read up to the first damage. *)
LEMMA ReplayedBounds ==
  ASSUME DurabilityIInv, NEW o \in OpenOptions
  PROVE  /\ Readable \subseteq Replayed(o.mode) /\ Replayed(o.mode) \subseteq wal
         /\ o.mode # "skipanycorruptedrecord" => Replayed(o.mode) = Readable
  BY Places DEF Replayed, Readable

LEMMA ReopenStep ==
  ASSUME DurabilityIInv, NEW o \in OpenOptions, Reopen(o)
  PROVE  DurabilityIInv'
  <1> USE Places, SameWrites
  <1> DEFINE R == Replayed(o.mode)
  <1>1. /\ phase # "open" /\ phase' = "open" /\ opts' = o
        /\ files' = Recovered(R)
        /\ wal' = {} /\ torn' = {} /\ buffered' = {} /\ unsynced' = {}
        /\ acked' = Joined(files') /\ handed' = acked' /\ durable' = acked'
        /\ UNCHANGED <<hist, mem, salvaged>>
    BY DEF Reopen
  <1>2. Readable \subseteq R /\ R \subseteq wal
    BY ReplayedBounds
  <1> HIDE DEF R
  <1>3. /\ files' \in [Families -> SUBSET Writes]
        /\ Joined(files') = InFiles \cup R
        /\ \A f \in Families : \A i \in files'[f] : f \in hist[i].families
        /\ \A i \in Writes : hist[i].whole => ~Half(files', i)
    BY <1>1, <1>2, RecoveredFiles
  <1>4. InFiles' = InFiles \cup R /\ InFiles' = acked' /\ acked' \subseteq Writes
    BY <1>1, <1>2, <1>3 DEF InFiles, Joined
  <1>5. \A f \in Families : mem[f] = {} /\ mem'[f] = {} /\ Visible(f)' = files'[f]
    BY <1>1 DEF DurabilityIInv, AtRest, Empty, Visible
  <1>6. DurabilityTypeOK'
    BY <1>1, <1>3, <1>4 DEF DurabilityIInv, DurabilityTypeOK
  <1>7. InItsFamilies' /\ AtRest' /\ MemLogged'
    BY <1>1, <1>3, <1>5 DEF DurabilityIInv, InItsFamilies, AtRest, MemLogged
  <1>8. Known'
    <2>1. StoreShowsAcked'
      BY <1>1, <1>5 DEF StoreShowsAcked, Joined
    <2>2. QED
      BY <1>1, <1>4, <2>1 DEF Known
  <1>9. Tails' /\ FilesCovered' /\ Kept' /\ StoppedNoHole'
    BY <1>1, <1>4 DEF Tails, FilesCovered, Kept, StoppedNoHole
  <1>10. HalfLogged' /\ BatchWhole'
    <2>1. \A i \in Writes : hist[i].whole =>
            \A f, g \in hist[i].families : i \in files'[f] => i \in files'[g]
      BY <1>3 DEF Half
    <2>2. \A i \in Writes : hist[i].families \subseteq Families
      BY EntryTyped DEF DurabilityIInv
    <2>3. HalfLogged'
      BY <1>1, <2>1 DEF HalfLogged, Half
    <2>4. BatchWhole'
      BY <1>1, <1>5, <2>1, <2>2 DEF BatchWhole
    <2>5. QED
      BY <2>3, <2>4
  <1>11. QED
    BY <1>6, <1>7, <1>8, <1>9, <1>10 DEF DurabilityIInv

LEMMA RepairStep == ASSUME DurabilityIInv, Repair PROVE DurabilityIInv'
  <1> USE Places, SameWrites
  <1>1. /\ phase # "open" /\ files' = Recovered(wal)
        /\ wal' = {} /\ torn' = {} /\ unsynced' = {} /\ salvaged' = TRUE
        /\ UNCHANGED <<phase, opts, hist, mem, buffered, acked, handed, durable>>
    BY DEF Repair, told
  <1>2. /\ files' \in [Families -> SUBSET Writes]
        /\ Joined(files') = InFiles \cup wal
        /\ \A f \in Families : \A i \in files'[f] : f \in hist[i].families
        /\ \A i \in Writes : hist[i].whole => ~Half(files', i)
    BY <1>1, RecoveredFiles
  <1>3. InFiles' = InFiles \cup wal
    BY <1>2 DEF InFiles, Joined
  <1>4. mem = Empty /\ buffered = {} /\ \A f \in Families : mem[f] = {}
    BY <1>1 DEF DurabilityIInv, AtRest, Empty
  <1>5. DurabilityTypeOK'
    BY <1>1, <1>2, <1>4 DEF DurabilityIInv, DurabilityTypeOK
  <1>6. InItsFamilies' /\ AtRest' /\ MemLogged'
    BY <1>1, <1>2, <1>4 DEF InItsFamilies, AtRest, MemLogged, Empty
  <1>7. Known'
    BY <1>1, <1>3 DEF DurabilityIInv, Known, StoreShowsAcked
  <1>8. Tails' /\ FilesCovered' /\ StoppedNoHole'
    BY <1>1, <1>4 DEF Tails, FilesCovered, StoppedNoHole
  <1>9. Kept'
    BY <1>1, <1>3 DEF DurabilityIInv, Kept
  <1>10. HalfLogged' /\ BatchWhole'
    BY <1>1, <1>2 DEF HalfLogged, BatchWhole, Half
  <1>11. QED
    BY <1>5, <1>6, <1>7, <1>8, <1>9, <1>10 DEF DurabilityIInv

(* Another directory in the place of the DB's, with whole batches. *)
LEMMA InstallStep ==
  ASSUME DurabilityIInv, NEW dirFiles \in [Families -> SUBSET Writes],
         NEW dirLog \in SUBSET Logged,
         \A f \in Families : \A i \in dirFiles[f] : f \in hist[i].families,
         \A i \in Writes : hist[i].whole /\ Half(dirFiles, i) => i \in dirLog,
         Install(dirFiles, dirLog)
  PROVE  DurabilityIInv'
  <1> USE Places, SameWrites
  <1>1. /\ phase # "open" /\ phase' = "closed"
        /\ files' = dirFiles /\ wal' = dirLog
        /\ torn' = {} /\ unsynced' = {} /\ salvaged' = FALSE
        /\ acked' = Joined(dirFiles) \cup dirLog /\ handed' = acked' /\ durable' = acked'
        /\ UNCHANGED <<opts, hist, mem, buffered>>
    BY DEF Install
  <1>2. mem = Empty /\ buffered = {} /\ \A f \in Families : mem[f] = {}
    BY <1>1 DEF DurabilityIInv, AtRest, Empty
  <1>3. InFiles' = Joined(dirFiles) /\ Readable' = dirLog
    BY <1>1 DEF InFiles, Joined, Readable
  <1>4. acked' \subseteq Writes
    BY <1>1, JoinedMember
  <1>5. DurabilityTypeOK'
    BY <1>1, <1>2, <1>4 DEF DurabilityIInv, DurabilityTypeOK
  <1>6. InItsFamilies' /\ AtRest' /\ MemLogged'
    BY <1>1, <1>2 DEF InItsFamilies, AtRest, MemLogged, Empty
  <1>7. Known' /\ Tails' /\ FilesCovered' /\ Kept' /\ StoppedNoHole'
    BY <1>1, <1>2, <1>3
    DEF Known, StoreShowsAcked, Tails, FilesCovered, Kept, StoppedNoHole
  <1>8. HalfLogged' /\ BatchWhole'
    BY <1>1, <1>3 DEF HalfLogged, BatchWhole, Half
  <1>9. QED
    BY <1>5, <1>6, <1>7, <1>8 DEF DurabilityIInv

LEMMA DestroyStep == ASSUME DurabilityIInv, Destroy PROVE DurabilityIInv'
  <1>1. Empty \in [Families -> SUBSET Writes] /\ \A f \in Families : Empty[f] = {}
    BY DEF Empty
  <1>2. \A i \in Writes : ~Half(Empty, i)
    BY <1>1, EntryTyped DEF Half, DurabilityIInv
  <1>3. QED
    BY <1>1, <1>2, InstallStep DEF Destroy

-----------------------------------------------------------------------------
(* Nothing happens to the DB. *)
LEMMA DurabilityStutter == ASSUME DurabilityIInv, UNCHANGED dvars PROVE DurabilityIInv'
  <1> USE SameWrites DEF dvars, engine, told
  <1>1. UNCHANGED <<InFiles, Readable>> /\ \A f : Visible(f)' = Visible(f)
    BY DEF InFiles, Joined, Readable, Visible
  <1>2. DurabilityTypeOK'
    BY DEF DurabilityIInv, DurabilityTypeOK
  <1>3. InItsFamilies' /\ AtRest' /\ Known' /\ MemLogged'
    BY <1>1 DEF DurabilityIInv, InItsFamilies, AtRest, Known, StoreShowsAcked, MemLogged
  <1>4. Tails' /\ FilesCovered' /\ Kept' /\ StoppedNoHole'
    BY <1>1 DEF DurabilityIInv, Tails, FilesCovered, Kept, StoppedNoHole
  <1>5. HalfLogged' /\ BatchWhole'
    BY <1>1 DEF DurabilityIInv, HalfLogged, BatchWhole
  <1>6. QED
    BY <1>2, <1>3, <1>4, <1>5 DEF DurabilityIInv

(* The invariant is inductive. *)
LEMMA DurabilityNextIInv == DurabilityIInv /\ [DurabilityNext]_dvars => DurabilityIInv'
  <1> SUFFICES ASSUME DurabilityIInv, [DurabilityNext]_dvars PROVE DurabilityIInv'
    OBVIOUS
  <1>1. CASE Serve
    BY <1>1, WriteStep, FlushWalStep, MemFlushStep DEF Serve
  <1>2. CASE Close
    BY <1>2, CloseStep
  <1>3. CASE Fail
    <2>1. \A c \in 0 .. Len(hist) : c \in Nat
      OBVIOUS
    <2>2. QED
      BY <1>3, <2>1, HaltStep, PowerLossStep DEF Fail
  <1>4. CASE Offline
    BY <1>4, ReopenStep, RepairStep, DestroyStep DEF Offline
  <1>5. QED
    BY <1>1, <1>2, <1>3, <1>4, DurabilityStutter DEF DurabilityNext

(* For any instance the invariant holds throughout: every variable keeps its
   type, and the batches, the log and the files relate as it says. *)
THEOREM DurabilityInvariant == DurabilitySpec => []DurabilityIInv
  BY DurabilityInitIInv, DurabilityNextIInv, PTL DEF DurabilitySpec

-----------------------------------------------------------------------------
(* The refinement of CrashStore, one lemma for each of its actions. *)

Strict == ~(salvaged \/ opts.mode = "skipanycorruptedrecord")

LEMMA WriteIsWrite ==
  ASSUME DurabilityIInv, NEW shape \in Shapes, NEW term, NEW role \in Roles,
         Write(shape, term, role)
  PROVE  Contract!Write
  <1> USE Places
  <1> DEFINE n == Len(hist) + 1
             before == {i \in acked \cup {n} : i = n \/ hist[i].logged}
  <1>1. /\ n \in Ids /\ \A i \in acked : i < n
        /\ Logged' \in {Logged, Logged \cup {n}}
        /\ Flag(term, "sync") => ~Flag(term, "disable_wal")
    BY OneMoreWrite DEF DurabilityIInv
  <1>2. /\ phase = "open" /\ phase' = "open" /\ acked' = acked \cup {n}
        /\ handed' = IF ~Flag(term, "disable_wal") /\ (Flag(term, "sync") \/ ~opts.manual)
                     THEN handed \cup before ELSE handed
        /\ durable' = IF Flag(term, "sync") THEN durable \cup before ELSE durable
    BY DEF Write
  <1>3. before \subseteq acked'
    BY <1>2
  <1> HIDE DEF n, before
  <1>4. Contract!Promise
    BY <1>1, <1>2, <1>3 DEF Contract!Promise
  <1>5. QED
    BY <1>1, <1>2, <1>4 DEF Contract!Write

LEMMA FlushWalIsPersist ==
  ASSUME DurabilityIInv, NEW sync \in BOOLEAN, FlushWal(sync)
  PROVE  Contract!Persist
  BY Places, SameWrites DEF FlushWal, Contract!Persist, Contract!Promise

LEMMA StopIsStop ==
  ASSUME DurabilityIInv,
         \/ Close \/ Halt
         \/ \E cut \in Nat, g \in SUBSET unsynced : PowerLoss(cut, g)
  PROVE  Contract!Stop
  BY SameWrites DEF Close, Halt, PowerLoss, told, Contract!Stop, Contract!Phases

(* A recovery finds what the stop guaranteed and, if it is strict, no logged
   write behind one that it lost. *)
LEMMA ReopenIsRecover ==
  ASSUME DurabilityIInv, NEW o \in OpenOptions, Reopen(o)
  PROVE  Contract!Recover
  <1> USE Places, SameWrites
  <1> DEFINE R == Replayed(o.mode)
  <1>1. /\ phase # "open" /\ phase' = "open" /\ opts' = o /\ salvaged' = salvaged
        /\ files' = Recovered(R) /\ hist' = hist
        /\ acked' = Joined(files') /\ handed' = acked' /\ durable' = acked'
    BY DEF Reopen
  <1>2. /\ Readable \subseteq R /\ R \subseteq wal
        /\ o.mode # "skipanycorruptedrecord" => R = Readable
    BY ReplayedBounds
  <1> HIDE DEF R
  <1>3. acked' = InFiles \cup R
    BY <1>1, <1>2, RecoveredFiles
  <1>4. acked' \subseteq acked
    BY <1>2, <1>3 DEF DurabilityIInv, Known
  <1>5. Contract!Guaranteed \subseteq acked'
    BY <1>1, <1>2, <1>3
    DEF Contract!Guaranteed, DurabilityIInv, DurabilityTypeOK, Kept
  <1>6. ASSUME Strict' PROVE Contract!NoHole(acked')
    <2>1. ~salvaged /\ R = Readable
      BY <1>1, <1>2, <1>6 DEF Strict
    <2>2. QED
      BY <1>1, <1>3, <1>4, <2>1 DEF Contract!NoHole, Logged, DurabilityIInv, StoppedNoHole
  <1>7. QED
    BY <1>1, <1>4, <1>5, <1>6 DEF Contract!Recover, Strict

LEMMA InstallIsReplace ==
  ASSUME DurabilityIInv, NEW dirFiles \in [Families -> SUBSET Writes],
         NEW dirLog \in SUBSET Logged, Install(dirFiles, dirLog)
  PROVE  Contract!Replace
  <1>1. Joined(dirFiles) \cup dirLog \subseteq Writes
    BY JoinedMember, Places
  <1>2. Writes \subseteq Ids
    BY DurabilityAssumption DEF DurabilityIInv, DurabilityTypeOK, Writes, Ids
  <1>3. QED
    BY <1>1, <1>2, SameWrites DEF Install, Contract!Replace

(* Every step of a DB is one the contract allows. *)
LEMMA DurabilityStepAllowed ==
  DurabilityIInv /\ [DurabilityNext]_dvars => [Contract!Next]_Contract!vars
  <1> SUFFICES ASSUME DurabilityIInv, [DurabilityNext]_dvars
               PROVE  [Contract!Next]_Contract!vars
    OBVIOUS
  <1> USE DEF Contract!Next
  <1>1. ASSUME NEW s \in Shapes, NEW t \in WriteTerms, NEW r \in Roles, Write(s, t, r)
        PROVE  Contract!Next
    BY <1>1, WriteIsWrite
  <1>2. ASSUME NEW b \in BOOLEAN, FlushWal(b) PROVE Contract!Next
    BY <1>2, FlushWalIsPersist
  <1>3. ASSUME NEW some \in SUBSET Families, NEW k \in Writes, MemFlush(some, k)
        PROVE  UNCHANGED Contract!vars
    BY <1>3, SameWrites DEF MemFlush, told, Contract!vars
  <1>4. CASE Close \/ Fail
    <2>1. \A c \in 0 .. Len(hist) : c \in Nat
      OBVIOUS
    <2>2. QED
      BY <1>4, <2>1, StopIsStop DEF Fail
  <1>5. ASSUME NEW o \in OpenOptions, Reopen(o) PROVE Contract!Next
    BY <1>5, ReopenIsRecover
  <1>6. CASE Repair
    BY <1>6, SameWrites DEF Repair, told, Contract!Mark
  <1>7. CASE Destroy
    <2>1. Empty \in [Families -> SUBSET Writes] /\ {} \in SUBSET Logged
      BY DEF Empty
    <2>2. QED
      BY <1>7, <2>1, InstallIsReplace DEF Destroy
  <1>8. CASE UNCHANGED dvars
    BY <1>8, SameWrites DEF dvars, engine, told, Contract!vars
  <1>9. QED
    BY <1>1, <1>2, <1>3, <1>4, <1>5, <1>6, <1>7, <1>8
    DEF DurabilityNext, Serve, Offline

LEMMA DurabilityInitAllowed == DurabilityInit => Contract!Init
  <1>1. ASSUME DurabilityInit PROVE Logged = {}
    BY <1>1 DEF DurabilityInit, Logged, Writes
  <1>2. QED
    BY <1>1 DEF DurabilityInit, Contract!Init

(* Durability implements CrashStore, for any families, batches, option maps,
   settings and number of writes: what a sync covered survives everything,
   what the system has survives the process, a close keeps all, and only a
   recovery that skips damage finds a logged write behind one it lost. *)
THEOREM CrashSafety == DurabilitySpec => ImplementsCrashStore
  <1>1. DurabilityIInv /\ [DurabilityNext]_dvars => [Contract!Next]_Contract!vars
    BY DurabilityStepAllowed
  <1>2. QED
    BY <1>1, DurabilityInvariant, DurabilityInitAllowed, PTL
    DEF DurabilitySpec, ImplementsCrashStore, Contract!Spec
===============================================================================
