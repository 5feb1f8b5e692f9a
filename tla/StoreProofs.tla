------------------------------ MODULE StoreProofs ------------------------------
(***************************************************************************)
(* For any names, keys, option maps, operations and batches: a snapshot    *)
(* shows what it saw, an open DB and its families have the settings their  *)
(* maps asked for, and Store implements KvStore.  What a batch adds is a   *)
(* recursion over its operations, so what it adds is proved by induction   *)
(* over them.                                                              *)
(***************************************************************************)
EXTENDS Store, NumberLemmas

\* What a snapshot saw is there still, and families made since have nothing
\* as old as it.
SnapsKept ==
  /\ DOMAIN snaps = Snaps
  /\ \A s \in Snaps : snaps[s] # Closed =>
       /\ snaps[s].at \in Nat /\ DOMAIN snaps[s].saw = DOMAIN snaps[s].families
       /\ \A f \in DOMAIN snaps[s].families, k \in Keys :
            snaps[s].saw[f][k] = Lookup(versions, snaps[s].families[f], k, snaps[s].at)
       /\ \A f \in ListCf :
            \/ f \in DOMAIN snaps[s].families /\ snaps[s].families[f] = catalog[f]
            \/ \A v \in versions : v.family = catalog[f] => v.seq > snaps[s].at

\* The settings of the open DB and of its families are made from maps that were
\* not refused, and each family has some.
OpenedWith ==
  db # Closed =>
    /\ Refusals(db.asked) = {}
    /\ db.settings = Part(Applied(db.asked), DOMAIN Applied(db.asked) \ FamilyFields)
    /\ DOMAIN opened = ListCf
    /\ \A f \in ListCf : /\ Refusals(opened[f].asked) = {}
                         /\ opened[f] = Family(opened[f].asked)

StoreIInv == TypeOK /\ SnapsKept /\ OpenedWith

-----------------------------------------------------------------------------
(* Families that are added get ids of their own, later than all others. *)
LEMMA AddedIds ==
  ASSUME TypeOK, NEW names \in SUBSET Names, Added(names)
  PROVE  /\ DOMAIN catalog' = ListCf \cup names
         /\ lastId' \in Nat /\ lastId <= lastId'
         /\ \A f \in ListCf : catalog'[f] = catalog[f]
         /\ \A f \in names \ ListCf : catalog'[f] \in lastId + 1 .. lastId'
         /\ \A f, g \in names \ ListCf : f # g => catalog'[f] # catalog'[g]
  <1> DEFINE new == names \ ListCf
             Fit(m) == \A f, g \in new : f # g => m[f] # m[g]
             c == Cardinality(new)
             ids == CHOOSE m \in [new -> lastId + 1 .. lastId + c] : Fit(m)
  <1>1. lastId \in Nat
    BY DEF TypeOK
  <1>2. IsFiniteSet(new) /\ c \in Nat
    BY StoreAssumption, FS_Subset, FS_CardinalityType
  <1>3. catalog' = Over(ids, catalog) /\ lastId' = lastId + c
    BY DEF Added
  <1>4. \E m \in [new -> lastId + 1 .. lastId + c] : Fit(m)
    BY <1>1, <1>2, Numbered
  <1> HIDE DEF c, new
  <1>5. ids \in [new -> lastId + 1 .. lastId + c] /\ Fit(ids)
    BY <1>4
  <1> HIDE DEF ids
  <1>6. new \cap ListCf = {} /\ ListCf \cup new = ListCf \cup names
    BY DEF new
  <1>7. /\ DOMAIN catalog' = ListCf \cup new
        /\ \A f \in new : catalog'[f] = ids[f]
        /\ \A f \in ListCf : catalog'[f] = catalog[f]
    BY <1>3, <1>5, <1>6 DEF Over, ListCf
  <1>8. QED
    BY <1>1, <1>2, <1>3, <1>5, <1>6, <1>7 DEF new

-----------------------------------------------------------------------------
(* What a list of operations adds to the versions, operation by operation. *)

\* The operations callers give, one by one and in batches.
Lists == {<<op>> : op \in Writes} \cup Batches

IsAdded(added, ops) ==
  added = [i \in 0 .. Len(ops) |->
             IF i = 0 THEN versions
             ELSE added[i - 1] \cup NewVersions(added[i - 1], ops[i], seq + i)]

LEMMA ListTyped ==
  ASSUME NEW ops \in Lists
  PROVE  /\ Len(ops) \in Nat /\ DOMAIN ops = 1 .. Len(ops)
         /\ \A i \in 1 .. Len(ops) :
              ops[i] # Junk /\ ops[i].kind # "delete_range" => ops[i].key \in Keys
  <1>1. CASE \E op \in Writes : ops = <<op>>
    <2>1. PICK op \in Writes : ops = <<op>>
      BY <1>1
    <2>2. Len(ops) = 1 /\ DOMAIN ops = 1 .. 1 /\ ops[1] = op
      BY <2>1
    <2>3. op # Junk /\ op.kind # "delete_range" => op.key \in Keys
      BY StoreAssumption
    <2>4. QED
      BY <2>2, <2>3
  <1>2. CASE ops \in Batches
    <2>1. ops \in Seq({ops[i] : i \in DOMAIN ops})
      BY <1>2, StoreAssumption
    <2>2. Len(ops) \in Nat /\ DOMAIN ops = 1 .. Len(ops)
      BY <2>1
    <2>3. \A i \in DOMAIN ops : ops[i] \in UNION {{b[j] : j \in DOMAIN b} : b \in Batches}
      BY <1>2
    <2>4. QED
      BY <2>2, <2>3, StoreAssumption
  <1>3. QED
    BY <1>1, <1>2 DEF Lists

(* The recursion defines a function: it is built up one operation at a time. *)
LEMMA AddedExists ==
  ASSUME NEW ops, Len(ops) \in Nat
  PROVE  \E added : IsAdded(added, ops)
  <1> DEFINE Upto(m, g) ==
               g = [i \in 0 .. m |->
                      IF i = 0 THEN versions
                      ELSE g[i - 1] \cup NewVersions(g[i - 1], ops[i], seq + i)]
             Defined == {m \in Nat : \E g : Upto(m, g)}
  <1>1. 0 \in Defined
    <2> DEFINE g == [i \in 0 .. 0 |-> versions]
    <2>1. g = [i \in 0 .. 0 |->
                 IF i = 0 THEN versions
                 ELSE g[i - 1] \cup NewVersions(g[i - 1], ops[i], seq + i)]
      OBVIOUS
    <2>2. QED
      BY <2>1
  <1>2. ASSUME NEW m \in Nat, m \in Defined PROVE m + 1 \in Defined
    <2>1. PICK g : Upto(m, g)
      BY <1>2
    <2> DEFINE D(j) == g[j - 1] \cup NewVersions(g[j - 1], ops[j], seq + j)
               h == [i \in 0 .. m + 1 |-> IF i = m + 1 THEN D(i) ELSE g[i]]
    <2>2. \A i \in 0 .. m : g[i] = IF i = 0 THEN versions ELSE D(i)
      BY <2>1
    <2> HIDE DEF D
    <2>3. \A i \in 0 .. m : h[i] = g[i]
      OBVIOUS
    <2>4. \A i \in 0 .. m + 1 : h[i] = IF i = 0 THEN versions ELSE D(i)
      BY <2>2, <2>3
    <2>5. \A i \in 0 .. m + 1 :
            i # 0 => D(i) = h[i - 1] \cup NewVersions(h[i - 1], ops[i], seq + i)
      <3> SUFFICES ASSUME NEW i \in 0 .. m + 1, i # 0
                   PROVE  D(i) = h[i - 1] \cup NewVersions(h[i - 1], ops[i], seq + i)
        OBVIOUS
      <3>1. h[i - 1] = g[i - 1]
        BY <2>3
      <3>2. QED
        BY <3>1 DEF D
    <2> DEFINE E(i) == IF i = 0 THEN versions
                       ELSE h[i - 1] \cup NewVersions(h[i - 1], ops[i], seq + i)
    <2>6. h = [i \in 0 .. m + 1 |-> h[i]]
      OBVIOUS
    <2>7. \A i \in 0 .. m + 1 : h[i] = E(i)
      BY <2>4, <2>5
    <2> HIDE DEF h, E
    <2>8. h = [i \in 0 .. m + 1 |-> E(i)]
      BY <2>6, <2>7
    <2>9. Upto(m + 1, h)
      BY <2>8 DEF E
    <2>10. QED
      BY <2>9
  <1> HIDE DEF Defined
  <1>3. Nat \subseteq Defined
    BY <1>1, <1>2, InductionSet
  <1>4. QED
    BY <1>3 DEF Defined, IsAdded

(* What commit does, with the recursion in hand. *)
LEMMA Committed ==
  ASSUME NEW ops, Len(ops) \in Nat, Commit(ops)
  PROVE  /\ \E added : /\ added[0] = versions /\ versions' = added[Len(ops)]
                       /\ \A i \in 1 .. Len(ops) :
                            added[i] = added[i - 1]
                                         \cup NewVersions(added[i - 1], ops[i], seq + i)
         /\ seq' = seq + Len(ops) /\ seq' <= MaxSeq
         /\ UNCHANGED <<catalog, lastId, db, opened, snaps, view>>
  <1>1. PICK added : added = (CHOOSE a : IsAdded(a, ops)) /\ versions' = added[Len(ops)]
    BY DEF Commit, IsAdded
  <1>2. IsAdded(added, ops)
    BY <1>1, AddedExists
  <1>3. \A i \in 0 .. Len(ops) :
          added[i] = IF i = 0 THEN versions
                     ELSE added[i - 1] \cup NewVersions(added[i - 1], ops[i], seq + i)
    BY <1>2 DEF IsAdded
  <1>4. added[0] = versions
    <2>1. 0 \in 0 .. Len(ops)
      OBVIOUS
    <2>2. QED
      BY <1>3, <2>1, Zenon
  <1>5. ASSUME NEW i \in 1 .. Len(ops)
        PROVE  added[i] = added[i - 1] \cup NewVersions(added[i - 1], ops[i], seq + i)
    <2>1. i \in 0 .. Len(ops) /\ i # 0
      OBVIOUS
    <2>2. QED
      BY <1>3, <2>1
  <1>6. /\ seq' = seq + Len(ops) /\ seq' <= MaxSeq
        /\ UNCHANGED <<catalog, lastId, db, opened, snaps, view>>
    BY DEF Commit
  <1>7. QED
    BY <1>1, <1>4, <1>5, <1>6
-----------------------------------------------------------------------------
(* What one operation does to what readers find. *)

\* Versions of families there have been, numbered up to n, one of each number.
Filed(vs, n) ==
  /\ \A v \in vs : v.family \in 1 .. lastId /\ v.key \in Keys /\ v.seq \in 1 .. n
  /\ \A v, w \in vs : v.family = w.family /\ v.key = w.key /\ v.seq = w.seq => v = w

\* An operation that was decoded and names a family that is there.
Sound(op) == op.family \in ListCf /\ (op.kind # "delete_range" => op.key \in Keys)

LEMMA TouchesKeys == ASSUME NEW op, Sound(op) PROVE Contract!Touched(op) \subseteq Keys
  BY DEF Sound, Contract!Touched

(* A reader finds the same in two sets of versions that agree on the key. *)
LEMMA SameLookup ==
  ASSUME NEW vs, NEW ws, NEW id, NEW k, NEW n, NEW m,
         \A v : v \in vs /\ v.family = id /\ v.key = k /\ v.seq <= n
                  <=> v \in ws /\ v.family = id /\ v.key = k /\ v.seq <= m
  PROVE  Lookup(vs, id, k, n) = Lookup(ws, id, k, m)
  <1> DEFINE A == {v \in vs : v.family = id /\ v.key = k /\ v.seq <= n}
             B == {v \in ws : v.family = id /\ v.key = k /\ v.seq <= m}
             Value(found) ==
               IF found = {} THEN <<>>
               ELSE (CHOOSE v \in found : \A w \in found : w.seq <= v.seq).value
  <1>1. A = B
    OBVIOUS
  <1>2. Lookup(vs, id, k, n) = Value(A) /\ Lookup(ws, id, k, m) = Value(B)
    BY DEF Lookup
  <1> HIDE DEF A, B, Value
  <1>3. QED
    BY <1>1, <1>2

(* The version with the highest number counts. *)
LEMMA LookupLatest ==
  ASSUME NEW vs, NEW id, NEW k, NEW n \in Nat,
         \A v \in vs : v.seq \in Nat,
         NEW v \in vs, v.family = id, v.key = k, v.seq = n,
         \A w \in vs : w.family = id /\ w.key = k /\ w.seq = n => w = v
  PROVE  Lookup(vs, id, k, n) = v.value
  <1> DEFINE found == {w \in vs : w.family = id /\ w.key = k /\ w.seq <= n}
             last == CHOOSE u \in found : \A w \in found : w.seq <= u.seq
  <1>1. v \in found /\ \A w \in found : w.seq <= v.seq
    OBVIOUS
  <1>2. last \in found /\ \A w \in found : w.seq <= last.seq
    BY <1>1
  <1>3. last \in vs /\ last.family = id /\ last.key = k /\ last.seq = n
    BY <1>1, <1>2
  <1>4. last = v
    BY <1>3
  <1>5. Lookup(vs, id, k, n) = last.value
    BY <1>1 DEF Lookup
  <1>6. QED
    BY <1>4, <1>5

LEMMA OneOperation ==
  ASSUME NEW vs, NEW n \in Nat, Filed(vs, n), NEW op, Sound(op),
         catalog[op.family] \in 1 .. lastId, lastId \in Nat,
         NEW new, new = vs \cup NewVersions(vs, op, n + 1)
  PROVE  /\ Filed(new, n + 1)
         /\ \A v \in new \ vs : v.seq = n + 1
         /\ \A id : \A k \in Keys :
              Lookup(new, id, k, n + 1) =
                IF id = catalog[op.family] /\ k \in Contract!Touched(op)
                THEN Contract!Effect(op, Lookup(vs, id, k, n)) ELSE Lookup(vs, id, k, n)
  <1> DEFINE own == catalog[op.family]
             touched == Contract!Touched(op)
             value(k) == Contract!Effect(op, Lookup(vs, own, k, n + 1))
             entry(k) == [family |-> own, key |-> k, seq |-> n + 1, value |-> value(k)]
  <1>1. touched \subseteq Keys
    BY TouchesKeys
  <1>2. new = vs \cup {entry(k) : k \in touched}
    BY DEF NewVersions
  <1>3. \A id, k : Lookup(vs, id, k, n + 1) = Lookup(vs, id, k, n)
    <2> TAKE id, k
    <2>1. \A v \in vs : v.seq <= n + 1 <=> v.seq <= n
      BY DEF Filed
    <2>2. QED
      BY <2>1, SameLookup
  <1> HIDE DEF own, touched, value
  <1>4. \A k : /\ entry(k).family = own /\ entry(k).key = k
               /\ entry(k).seq = n + 1 /\ entry(k).value = value(k)
    OBVIOUS
  <1> HIDE DEF entry
  <1>5. \A v \in new : v \in vs \/ \E k \in touched : v = entry(k)
    BY <1>2
  <1>6. own \in 1 .. lastId
    BY DEF own
  <1>7. Filed(new, n + 1)
    <2>1. ASSUME NEW v \in new
          PROVE  v.family \in 1 .. lastId /\ v.key \in Keys /\ v.seq \in 1 .. n + 1
      <3>1. CASE v \in vs
        <4>1. v.family \in 1 .. lastId /\ v.key \in Keys /\ v.seq \in 1 .. n
          BY <3>1 DEF Filed
        <4>2. QED
          BY <4>1
      <3>2. CASE v \notin vs
        <4>1. PICK k \in touched : v = entry(k)
          BY <1>5, <3>2
        <4>2. QED
          BY <1>1, <1>4, <1>6, <4>1
      <3>3. QED
        BY <3>1, <3>2
    <2>2. ASSUME NEW v \in new, NEW w \in new,
                 v.family = w.family, v.key = w.key, v.seq = w.seq
          PROVE  v = w
      <3>1. \A u \in vs : u.seq # n + 1
        BY DEF Filed
      <3>2. CASE v \in vs /\ w \in vs
        BY <2>2, <3>2 DEF Filed
      <3>3. CASE v \notin vs \/ w \notin vs
        <4>1. v \notin vs /\ w \notin vs
          BY <1>4, <1>5, <2>2, <3>1, <3>3
        <4>2. QED
          BY <1>4, <1>5, <2>2, <4>1
      <3>4. QED
        BY <3>2, <3>3
    <2>3. QED
      BY <2>1, <2>2 DEF Filed
  <1>8. \A v \in new \ vs : v.seq = n + 1
    BY <1>4, <1>5
  <1>9. ASSUME NEW id, NEW k \in Keys
        PROVE  Lookup(new, id, k, n + 1) =
                 IF id = own /\ k \in touched
                 THEN Contract!Effect(op, Lookup(vs, id, k, n)) ELSE Lookup(vs, id, k, n)
    <2>1. CASE id = own /\ k \in touched
      <3>1. entry(k) \in new
        BY <1>2, <2>1
      <3>2. \A w \in new : w.seq \in Nat
        BY <1>7 DEF Filed
      <3>3. \A w \in new : w.family = id /\ w.key = k /\ w.seq = n + 1 => w = entry(k)
        BY <1>4, <1>7, <2>1, <3>1 DEF Filed
      <3>4. Lookup(new, id, k, n + 1) = entry(k).value
        BY <1>4, <2>1, <3>1, <3>2, <3>3, LookupLatest
      <3>5. QED
        BY <1>3, <1>4, <2>1, <3>4 DEF value
    <2>2. CASE ~(id = own /\ k \in touched)
      <3>1. \A v : v \in new /\ v.family = id /\ v.key = k <=> v \in vs /\ v.family = id /\ v.key = k
        BY <1>2, <1>4, <1>5, <2>2
      <3>2. Lookup(new, id, k, n + 1) = Lookup(vs, id, k, n + 1)
        BY <3>1, SameLookup
      <3>3. QED
        BY <1>3, <2>2, <3>2
    <2>3. QED
      BY <2>1, <2>2
  <1>10. QED
    BY <1>7, <1>8, <1>9 DEF own, touched

\* The map a reader with number n finds in vs.
MapOf(vs, n) == [f \in ListCf |-> [k \in Keys |-> Lookup(vs, catalog[f], k, n)]]

LEMMA ContentsIs == Contents = MapOf(versions, seq)
  BY DEF Contents, Shown, MapOf, ListCf

(* One operation on the versions is one on the map. *)
LEMMA OperationOnMap ==
  ASSUME TypeOK, NEW vs, NEW n \in Nat, Filed(vs, n), NEW op, Sound(op),
         NEW new, new = vs \cup NewVersions(vs, op, n + 1)
  PROVE  MapOf(new, n + 1) = Contract!Step(MapOf(vs, n), op)
  <1> DEFINE Row(f) == [k \in Keys |-> Lookup(vs, catalog[f], k, n)]
             After(f) == [k \in Keys |->
                            IF k \in Contract!Touched(op)
                            THEN Contract!Effect(op, Row(f)[k]) ELSE Row(f)[k]]
  <1>1. op.family \in ListCf /\ lastId \in Nat
        /\ \A f \in ListCf : catalog[f] \in 1 .. lastId
                             /\ (f # op.family => catalog[f] # catalog[op.family])
    BY DEF TypeOK, Sound
  <1>2. \A id : \A k \in Keys :
          Lookup(new, id, k, n + 1) =
            IF id = catalog[op.family] /\ k \in Contract!Touched(op)
            THEN Contract!Effect(op, Lookup(vs, id, k, n)) ELSE Lookup(vs, id, k, n)
    BY <1>1, OneOperation
  <1>3. \A f : \A k \in Keys : Row(f)[k] = Lookup(vs, catalog[f], k, n)
    OBVIOUS
  <1>4. MapOf(vs, n) = [f \in ListCf |-> Row(f)]
    BY DEF MapOf
  <1>5. Contract!Step(MapOf(vs, n), op)
          = [f \in ListCf |-> IF f = op.family THEN After(f) ELSE Row(f)]
    BY <1>1, <1>4 DEF Contract!Step
  <1>6. ASSUME NEW f \in ListCf
        PROVE  [k \in Keys |-> Lookup(new, catalog[f], k, n + 1)]
                 = IF f = op.family THEN After(f) ELSE Row(f)
    <2>1. CASE f = op.family
      <3>1. \A k \in Keys : Lookup(new, catalog[f], k, n + 1) =
              IF k \in Contract!Touched(op) THEN Contract!Effect(op, Row(f)[k]) ELSE Row(f)[k]
        BY <1>2, <1>3, <2>1
      <3> HIDE DEF Row
      <3>2. QED
        BY <2>1, <3>1
    <2>2. CASE f # op.family
      <3>1. \A k \in Keys : Lookup(new, catalog[f], k, n + 1) = Lookup(vs, catalog[f], k, n)
        BY <1>1, <1>2, <2>2
      <3>2. QED
        BY <2>2, <3>1
    <2>3. QED
      BY <2>1, <2>2
  <1> HIDE DEF Row, After
  <1>7. QED
    BY <1>5, <1>6 DEF MapOf

LEMMA VersionsFiled == ASSUME TypeOK PROVE Filed(versions, seq) /\ seq \in Nat /\ lastId \in Nat
  BY StoreAssumption DEF TypeOK, Filed

(* A commit adds versions with later numbers, leaves those that there are,
   and has on the map the effect of its operations in their order. *)
LEMMA CommitAdds ==
  ASSUME TypeOK, NEW ops \in Lists, \A i \in DOMAIN ops : Decodable(ops[i]), Commit(ops)
  PROVE  /\ Filed(versions', seq + Len(ops))
         /\ versions \subseteq versions'
         /\ \A v \in versions' \ versions : v.seq > seq
         /\ MapOf(versions', seq + Len(ops)) = Contract!After(ops)
  <1>1. Len(ops) \in Nat /\ DOMAIN ops = 1 .. Len(ops) /\ \A i \in 1 .. Len(ops) : Sound(ops[i])
    BY ListTyped DEF Decodable, Sound
  <1>2. seq \in Nat /\ lastId \in Nat /\ Filed(versions, seq)
        /\ \A f \in ListCf : catalog[f] \in 1 .. lastId
    BY VersionsFiled DEF TypeOK
  <1>3. PICK added :
          /\ added[0] = versions /\ versions' = added[Len(ops)]
          /\ \A i \in 1 .. Len(ops) :
               added[i] = added[i - 1] \cup NewVersions(added[i - 1], ops[i], seq + i)
    BY <1>1, Committed
  <1> DEFINE Good(i) == /\ Filed(added[i], seq + i)
                        /\ versions \subseteq added[i]
                        /\ \A v \in added[i] \ versions : v.seq > seq
             All == {i \in Nat : i <= Len(ops) => Good(i)}
  <1>4. 0 \in All
    BY <1>2, <1>3
  <1>5. ASSUME NEW i \in Nat, i \in All, i + 1 <= Len(ops)
        PROVE  /\ Good(i) /\ Good(i + 1) /\ Sound(ops[i + 1])
               /\ added[i + 1] = added[i] \cup NewVersions(added[i], ops[i + 1], (seq + i) + 1)
    <2>1. Good(i)
      BY <1>1, <1>5
    <2>2. i + 1 \in 1 .. Len(ops) /\ (i + 1) - 1 = i /\ seq + (i + 1) = (seq + i) + 1
          /\ seq + i \in Nat
      BY <1>1, <1>2, <1>5
    <2>3. added[i + 1] = added[i] \cup NewVersions(added[i], ops[i + 1], (seq + i) + 1)
      BY <1>3, <2>2
    <2>4. Sound(ops[i + 1]) /\ catalog[ops[i + 1].family] \in 1 .. lastId
      BY <1>1, <1>2, <2>2 DEF Sound
    <2>5. /\ Filed(added[i + 1], (seq + i) + 1)
          /\ \A v \in added[i + 1] \ added[i] : v.seq = (seq + i) + 1
      <3>1. PICK op, n, vs, new :
              op = ops[i + 1] /\ n = seq + i /\ vs = added[i] /\ new = added[i + 1]
        OBVIOUS
      <3>2. n \in Nat /\ lastId \in Nat /\ Filed(vs, n) /\ Sound(op)
        BY <1>2, <2>1, <2>2, <2>4, <3>1
      <3>3. catalog[op.family] \in 1 .. lastId /\ new = vs \cup NewVersions(vs, op, n + 1)
        BY <2>3, <2>4, <3>1
      <3>4. Filed(new, n + 1) /\ \A v \in new \ vs : v.seq = n + 1
        BY <3>2, <3>3, OneOperation
      <3>5. QED
        BY <3>1, <3>4
    <2>6. added[i] \subseteq added[i + 1]
      BY <2>3
    <2>7. \A v \in added[i + 1] \ versions : v.seq > seq
      BY <1>2, <2>1, <2>5
    <2>8. QED
      BY <2>1, <2>2, <2>3, <2>4, <2>5, <2>6, <2>7
  <1>6. \A i \in Nat : i \in All => i + 1 \in All
    BY <1>5
  <1>7. Nat \subseteq All
    <2> HIDE DEF All
    <2>1. QED
      BY <1>4, <1>6, InductionSet
  <1>8. \A i \in 0 .. Len(ops) : Good(i)
    BY <1>1, <1>7
  <1> DEFINE Rec(d) == d = [i \in 0 .. Len(ops) |->
                              IF i = 0 THEN Contents ELSE Contract!Step(d[i - 1], ops[i])]
             map(i) == MapOf(added[i], seq + i)
  <1>9. ASSUME NEW i \in 1 .. Len(ops) PROVE map(i) = Contract!Step(map(i - 1), ops[i])
    <2>1. i - 1 \in Nat /\ (i - 1) + 1 = i /\ i - 1 \in 0 .. Len(ops)
      BY <1>1
    <2>2. /\ Filed(added[i - 1], seq + (i - 1)) /\ Sound(ops[i])
          /\ added[i] = added[i - 1] \cup NewVersions(added[i - 1], ops[i], seq + i)
      BY <1>1, <1>3, <1>8, <2>1
    <2>3. seq + (i - 1) \in Nat /\ (seq + (i - 1)) + 1 = seq + i
      BY <1>2, <2>1
    <2>4. QED
      BY <2>2, <2>3, OperationOnMap
  <1>10. map(0) = Contents
    BY <1>2, <1>3, ContentsIs
  <1> HIDE DEF map, Good, All
  <1>11. Rec([i \in 0 .. Len(ops) |-> map(i)])
    <2> DEFINE d == [i \in 0 .. Len(ops) |-> map(i)]
               E(i) == IF i = 0 THEN Contents ELSE Contract!Step(d[i - 1], ops[i])
    <2>1. ASSUME NEW i \in 0 .. Len(ops) PROVE map(i) = E(i)
      <3>1. CASE i = 0
        BY <1>10, <3>1
      <3>2. CASE i # 0
        <4>1. i \in 1 .. Len(ops) /\ i - 1 \in 0 .. Len(ops)
          BY <1>1, <3>2
        <4>2. d[i - 1] = map(i - 1)
          BY <4>1
        <4>3. QED
          BY <1>9, <3>2, <4>1, <4>2
      <3>3. QED
        BY <3>1, <3>2
    <2> HIDE DEF E
    <2>2. d = [i \in 0 .. Len(ops) |-> E(i)]
      BY <2>1
    <2>3. QED
      BY <2>2 DEF E
  <1>12. PICK done : done = (CHOOSE d : Rec(d)) /\ Contract!After(ops) = done[Len(ops)]
    BY DEF Contract!After
  <1>13. Rec(done)
    BY <1>11, <1>12
  <1> DEFINE Same == {i \in Nat : i <= Len(ops) => done[i] = map(i)}
  <1>14. 0 \in Same
    <2>1. 0 \in 0 .. Len(ops)
      BY <1>1
    <2>2. done[0] = Contents
      BY <1>13, <2>1, Zenon
    <2>3. QED
      BY <1>10, <2>2
  <1>15. ASSUME NEW i \in Nat, i \in Same PROVE i + 1 \in Same
    <2> SUFFICES ASSUME i + 1 <= Len(ops) PROVE done[i + 1] = map(i + 1)
      OBVIOUS
    <2>1. i + 1 \in 0 .. Len(ops) /\ i + 1 # 0 /\ i + 1 \in 1 .. Len(ops) /\ (i + 1) - 1 = i
          /\ i <= Len(ops)
      BY <1>1
    <2>2. done[i + 1] = Contract!Step(done[i], ops[i + 1])
      BY <1>13, <2>1
    <2>3. map(i + 1) = Contract!Step(map(i), ops[i + 1])
      BY <1>9, <2>1
    <2>4. QED
      BY <1>15, <2>1, <2>2, <2>3
  <1>16. Nat \subseteq Same
    <2> HIDE DEF Same
    <2>1. QED
      BY <1>14, <1>15, InductionSet
  <1>17. done[Len(ops)] = map(Len(ops))
    BY <1>1, <1>16
  <1>18. Len(ops) \in 0 .. Len(ops)
    BY <1>1
  <1>19. MapOf(versions', seq + Len(ops)) = Contract!After(ops)
    BY <1>3, <1>12, <1>17 DEF map
  <1>20. QED
    BY <1>3, <1>8, <1>18, <1>19 DEF Good
-----------------------------------------------------------------------------
(* The invariant, one lemma for each kind of step. *)

LEMMA CommitStep ==
  ASSUME StoreIInv, NEW ops \in Lists, \A i \in DOMAIN ops : Decodable(ops[i]), Commit(ops)
  PROVE  StoreIInv'
  <1>1. TypeOK /\ SnapsKept /\ OpenedWith
    BY DEF StoreIInv
  <1>2. /\ seq' = seq + Len(ops) /\ seq' <= MaxSeq /\ Len(ops) \in Nat /\ seq \in Nat
        /\ UNCHANGED <<catalog, lastId, db, opened, snaps, view>>
    BY <1>1, ListTyped, Committed, VersionsFiled
  <1>3. /\ Filed(versions', seq') /\ versions \subseteq versions'
        /\ \A v \in versions' \ versions : v.seq > seq
    BY <1>1, <1>2, CommitAdds
  <1>4. \A v \in versions' : v.seq \in Nat
    BY <1>3 DEF Filed
  <1>5. ASSUME NEW id, NEW k, NEW n \in Nat, n <= seq
        PROVE  Lookup(versions', id, k, n) = Lookup(versions, id, k, n)
    <2>1. \A v : v \in versions' /\ v.seq <= n => v \in versions
      BY <1>2, <1>3, <1>4, <1>5
    <2>2. QED
      BY <1>3, <2>1, SameLookup
  <1>6. TypeOK'
    <2>1. seq' \in 0 .. MaxSeq /\ seq <= seq'
      BY <1>2, StoreAssumption
    <2>2. \A s \in Snaps : snaps'[s] # Closed => db' # Closed /\ snaps'[s].at <= seq'
      <3>1. \A s \in Snaps : snaps[s] # Closed =>
              db # Closed /\ snaps[s].at <= seq /\ snaps[s].at \in Nat
        BY <1>1 DEF TypeOK, SnapsKept
      <3>2. QED
        BY <1>2, <2>1, <3>1
    <2>3. QED
      BY <1>1, <1>2, <1>3, <2>1, <2>2 DEF TypeOK, Filed, ListCf, Exists
  <1>7. SnapsKept'
    <2>1. DOMAIN snaps' = Snaps
      BY <1>1, <1>2 DEF SnapsKept
    <2>2. ASSUME NEW s \in Snaps, snaps[s] # Closed
          PROVE  /\ snaps[s].at \in Nat /\ DOMAIN snaps[s].saw = DOMAIN snaps[s].families
                 /\ \A f \in DOMAIN snaps[s].families, k \in Keys :
                      snaps[s].saw[f][k]
                        = Lookup(versions', snaps[s].families[f], k, snaps[s].at)
                 /\ \A f \in ListCf :
                      \/ f \in DOMAIN snaps[s].families /\ snaps[s].families[f] = catalog[f]
                      \/ \A v \in versions' : v.family = catalog[f] => v.seq > snaps[s].at
      <3>1. /\ snaps[s].at \in Nat /\ snaps[s].at <= seq
            /\ DOMAIN snaps[s].saw = DOMAIN snaps[s].families
            /\ \A f \in DOMAIN snaps[s].families, k \in Keys :
                 snaps[s].saw[f][k] = Lookup(versions, snaps[s].families[f], k, snaps[s].at)
            /\ \A f \in ListCf :
                 \/ f \in DOMAIN snaps[s].families /\ snaps[s].families[f] = catalog[f]
                 \/ \A v \in versions : v.family = catalog[f] => v.seq > snaps[s].at
        BY <1>1, <2>2 DEF SnapsKept, TypeOK
      <3>2. \A v \in versions' \ versions : v.seq > snaps[s].at
        BY <1>2, <1>3, <1>4, <3>1
      <3>3. QED
        BY <1>5, <3>1, <3>2
    <2>3. QED
      BY <1>2, <2>1, <2>2 DEF SnapsKept, ListCf
  <1>8. OpenedWith'
    BY <1>1, <1>2 DEF OpenedWith, ListCf
  <1>9. QED
    BY <1>6, <1>7, <1>8 DEF StoreIInv

(* Families are added by open, also by one that fails, and by create_cf. *)
LEMMA AddStep ==
  ASSUME StoreIInv, NEW names \in SUBSET Names, "default" \in ListCf \cup names,
         Added(names), lastId' <= MaxFamilies, OpenedWith',
         db' = Closed => db = Closed,
         UNCHANGED <<versions, seq, snaps, view>>
  PROVE  StoreIInv'
  <1>1. TypeOK /\ SnapsKept /\ OpenedWith
    BY DEF StoreIInv
  <1>2. /\ DOMAIN catalog' = ListCf \cup names
        /\ lastId' \in Nat /\ lastId <= lastId' /\ lastId \in Nat
        /\ \A f \in ListCf : catalog'[f] = catalog[f] /\ catalog[f] \in 1 .. lastId
        /\ \A f \in names \ ListCf : catalog'[f] \in lastId + 1 .. lastId'
        /\ \A f, g \in names \ ListCf : f # g => catalog'[f] # catalog'[g]
    BY <1>1, AddedIds, VersionsFiled DEF TypeOK
  <1>3. ListCf' = ListCf \cup names
    BY <1>2 DEF ListCf
  <1>4. TypeOK'
    <2>1. ListCf' \subseteq Names /\ "default" \in ListCf'
      BY <1>1, <1>3 DEF TypeOK
    <2>2. lastId' \in 0 .. MaxFamilies /\ seq' \in 0 .. MaxSeq
      BY <1>1, <1>2, StoreAssumption DEF TypeOK
    <2>3. ASSUME NEW f \in ListCf' PROVE catalog'[f] \in 1 .. lastId'
      <3>1. CASE f \in ListCf
        BY <1>2, <3>1
      <3>2. CASE f \notin ListCf
        BY <1>2, <1>3, <3>2
      <3>3. QED
        BY <3>1, <3>2
    <2>4. ASSUME NEW f \in ListCf', NEW g \in ListCf', f # g PROVE catalog'[f] # catalog'[g]
      <3>1. CASE f \in ListCf /\ g \in ListCf
        BY <1>1, <1>2, <2>4, <3>1 DEF TypeOK
      <3>2. CASE f \in ListCf /\ g \notin ListCf
        BY <1>2, <1>3, <3>2
      <3>3. CASE f \notin ListCf /\ g \in ListCf
        BY <1>2, <1>3, <3>3
      <3>4. CASE f \notin ListCf /\ g \notin ListCf
        BY <1>2, <1>3, <2>4, <3>4
      <3>5. QED
        BY <3>1, <3>2, <3>3, <3>4
    <2>5. Filed(versions, seq)'
      <3>1. \A v \in versions : v.family \in 1 .. lastId => v.family \in 1 .. lastId'
        BY <1>2
      <3>2. QED
        BY <1>1, <3>1, VersionsFiled DEF Filed
    <2>6. \A s \in Snaps : snaps'[s] # Closed => db' # Closed /\ snaps'[s].at <= seq'
      BY <1>1 DEF TypeOK
    <2>7. Exists'
      BY <2>1 DEF Exists
    <2>8. view' \in BOOLEAN
      BY <1>1 DEF TypeOK
    <2>9. QED
      BY <2>1, <2>2, <2>3, <2>4, <2>5, <2>6, <2>7, <2>8 DEF TypeOK, Filed
  <1>5. SnapsKept'
    <2>1. ASSUME NEW s \in Snaps, snaps[s] # Closed, NEW f \in ListCf'
          PROVE  \/ f \in DOMAIN snaps[s].families /\ snaps[s].families[f] = catalog'[f]
                 \/ \A v \in versions : v.family = catalog'[f] => v.seq > snaps[s].at
      <3>1. CASE f \in ListCf
        BY <1>1, <1>2, <2>1, <3>1 DEF SnapsKept
      <3>2. CASE f \notin ListCf
        <4>1. catalog'[f] \in lastId + 1 .. lastId'
          BY <1>2, <1>3, <3>2
        <4>2. \A v \in versions : v.family \in 1 .. lastId
          BY <1>1 DEF TypeOK
        <4>3. \A v \in versions : v.family # catalog'[f]
          BY <1>2, <4>1, <4>2
        <4>4. QED
          BY <4>3
      <3>3. QED
        BY <3>1, <3>2
    <2>2. QED
      BY <1>1, <2>1 DEF SnapsKept
  <1>6. QED
    BY <1>4, <1>5 DEF StoreIInv

(* What leaves the DB as it is leaves what readers find. *)
LEMMA DataStutter ==
  ASSUME StoreIInv, UNCHANGED data
  PROVE  /\ UNCHANGED <<catalog, lastId, versions, seq>>
         /\ UNCHANGED ListCf /\ (Exists' <=> Exists)
         /\ UNCHANGED snaps /\ (\/ UNCHANGED db
                                \/ \A s \in Snaps : snaps[s] = Closed) => SnapsKept'
         /\ UNCHANGED db /\ UNCHANGED opened => OpenedWith'
         /\ (db' # Closed => db # Closed) /\ view' \in BOOLEAN
              /\ (\A s \in Snaps : snaps'[s] # Closed => db' # Closed /\ snaps'[s].at <= seq)
            => TypeOK'
  <1>1. UNCHANGED <<catalog, lastId, versions, seq>>
    BY DEF data
  <1>2. UNCHANGED ListCf /\ (Exists' <=> Exists)
    BY <1>1 DEF ListCf, Exists
  <1>3. UNCHANGED snaps => SnapsKept'
    BY <1>1, <1>2 DEF StoreIInv, SnapsKept
  <1>4. UNCHANGED db /\ UNCHANGED opened => OpenedWith'
    BY <1>2 DEF StoreIInv, OpenedWith
  <1>5. ASSUME db' # Closed => db # Closed, view' \in BOOLEAN,
               \A s \in Snaps : snaps'[s] # Closed => db' # Closed /\ snaps'[s].at <= seq
        PROVE  TypeOK'
    BY <1>1, <1>2, <1>5 DEF StoreIInv, TypeOK
  <1>6. QED
    BY <1>1, <1>2, <1>3, <1>4, <1>5

(* Nothing happens to the DB, its snapshots or handles. *)
LEMMA StoreStutter ==
  ASSUME StoreIInv, UNCHANGED <<data, db, opened, snaps, view>> PROVE StoreIInv'
  <1>1. UNCHANGED data /\ UNCHANGED db /\ UNCHANGED opened /\ UNCHANGED snaps /\ UNCHANGED view
    OBVIOUS
  <1>2. SnapsKept' /\ OpenedWith'
    BY <1>1, DataStutter
  <1>3. TypeOK'
    BY <1>1, DataStutter DEF StoreIInv, TypeOK
  <1>4. QED
    BY <1>2, <1>3 DEF StoreIInv

(* The map that asks for nothing is taken. *)
LEMMA EmptyMapTaken == Refusals(NothingSet) = {}
  <1>1. DOMAIN NothingSet = {}
    BY DEF NothingSet
  <1>2. NothingSet # NotMap
    BY OpenOptionsAssumption DEF NothingSet
  <1>3. DecodeErrors(NothingSet) = {} /\ ValidationErrors(NothingSet) = {}
    BY <1>1, <1>2 DEF DecodeErrors, ValidationErrors
  <1>4. QED
    BY <1>3 DEF Refusals

LEMMA OpenStep ==
  ASSUME StoreIInv, NEW names \in SUBSET Names, NEW term,
         Open(names, term) \/ OpenFails(names, term)
  PROVE  StoreIInv'
  <1>1. CASE Open(names, term)
    <2> DEFINE settings == Applied(term)
    <2>1. /\ Refusals(term) = {} /\ db = Closed
          /\ Added(Named(names)) /\ lastId' <= MaxFamilies
          /\ db' = [asked    |-> term,
                    settings |-> Part(settings, DOMAIN settings \ FamilyFields)]
          /\ opened' = [f \in Named(names) |-> Family(FamilyMap(names, term))]
          /\ ListCf \subseteq Named(names)
          /\ UNCHANGED <<versions, seq, snaps, view>>
      BY <1>1 DEF Open, OpenError
    <2>2. Named(names) \in SUBSET Names /\ "default" \in Named(names)
      BY StoreAssumption DEF Named
    <2>3. ListCf' = Named(names)
      BY <2>1, <2>2, AddedIds DEF ListCf, StoreIInv
    <2>4. Refusals(FamilyMap(names, term)) = {}
      BY <2>1, EmptyMapTaken DEF FamilyMap
    <2>5. OpenedWith'
      <3>1. /\ db'.asked = term /\ DOMAIN opened' = ListCf'
            /\ db'.settings = Part(settings, DOMAIN settings \ FamilyFields)
            /\ \A f \in ListCf' : opened'[f] = Family(FamilyMap(names, term))
        BY <2>1, <2>3
      <3>2. Family(FamilyMap(names, term)).asked = FamilyMap(names, term)
        BY DEF Family
      <3> HIDE DEF settings
      <3>3. QED
        BY <2>1, <2>4, <3>1, <3>2 DEF OpenedWith, settings
    <2>6. QED
      BY <2>1, <2>2, <2>5, AddStep
  <1>2. CASE OpenFails(names, term)
    <2>1. CASE UNCHANGED data
      BY <1>2, <2>1, StoreStutter DEF OpenFails
    <2>2. CASE ~UNCHANGED data
      <3>1. /\ Added({"default"}) /\ lastId' <= MaxFamilies
            /\ UNCHANGED <<versions, seq, db, opened, snaps, view>>
        BY <1>2, <2>2 DEF OpenFails
      <3>2. OpenedWith' /\ {"default"} \in SUBSET Names
        BY <1>2, <2>2, <3>1, StoreAssumption DEF OpenedWith, OpenFails
      <3>3. QED
        BY <3>1, <3>2, AddStep
    <2>3. QED
      BY <2>1, <2>2
  <1>3. QED
    BY <1>1, <1>2

LEMMA CloseStep == ASSUME StoreIInv, Close PROVE StoreIInv'
  <1>1. CASE UNCHANGED <<data, db, opened, snaps, view>>
    BY <1>1, StoreStutter
  <1>2. CASE /\ \A s \in Snaps : snaps[s] = Closed
             /\ db' = Closed /\ UNCHANGED <<data, snaps, view>>
    <2>1. UNCHANGED data /\ UNCHANGED snaps /\ UNCHANGED view
      BY <1>2
    <2>2. view' \in BOOLEAN
      BY <2>1 DEF StoreIInv, TypeOK
    <2>3. SnapsKept' /\ TypeOK'
      BY <1>2, <2>1, <2>2, DataStutter
    <2>4. QED
      BY <1>2, <2>3 DEF StoreIInv, OpenedWith
  <1>3. QED
    BY <1>1, <1>2 DEF Close, Refuse

LEMMA DestroyStep == ASSUME StoreIInv, NEW term, Destroy(term) PROVE StoreIInv'
  <1>1. CASE db # Closed
    BY <1>1, StoreStutter DEF Destroy, Refuse
  <1>2. CASE db = Closed
    <2>1. /\ catalog' = [f \in {} |-> 0] /\ lastId' = 0 /\ versions' = {} /\ seq' = 0
          /\ UNCHANGED <<db, opened, snaps, view>>
      BY <1>2 DEF Destroy
    <2>2. ListCf' = {}
      BY <2>1 DEF ListCf
    <2>3. \A s \in Snaps : snaps[s] = Closed
      BY <1>2 DEF StoreIInv, TypeOK
    <2>4. TypeOK'
      BY <1>2, <2>1, <2>2, <2>3, StoreAssumption DEF StoreIInv, TypeOK, Exists
    <2>5. SnapsKept' /\ OpenedWith'
      BY <1>2, <2>1, <2>3 DEF StoreIInv, SnapsKept, OpenedWith
    <2>6. QED
      BY <2>4, <2>5 DEF StoreIInv
  <1>3. QED
    BY <1>1, <1>2

(* A family that is made or dropped leaves the settings of the others. *)
LEMMA FamilyAdded ==
  ASSUME OpenedWith, db # Closed, NEW f, f \notin ListCf, NEW term, Refusals(term) = {},
         opened' = Over([g \in {f} |-> Family(term)], opened),
         UNCHANGED db, ListCf' = ListCf \cup {f}
  PROVE  OpenedWith'
  <1>1. /\ DOMAIN opened' = ListCf' /\ opened'[f] = Family(term)
        /\ \A g \in ListCf : opened'[g] = opened[g]
    BY DEF OpenedWith, Over
  <1>2. Family(term).asked = term
    BY DEF Family
  <1>3. QED
    BY <1>1, <1>2 DEF OpenedWith

LEMMA FamilyDropped ==
  ASSUME OpenedWith, db # Closed, NEW f,
         opened' = [g \in ListCf \ {f} |-> opened[g]],
         UNCHANGED db, ListCf' = ListCf \ {f}
  PROVE  OpenedWith'
  <1>1. DOMAIN opened' = ListCf' /\ \A g \in ListCf' : g \in ListCf /\ opened'[g] = opened[g]
    OBVIOUS
  <1>2. QED
    BY <1>1 DEF OpenedWith

LEMMA CreateCfStep ==
  ASSUME StoreIInv, NEW f \in Names, NEW term, CreateCf(f, term) PROVE StoreIInv'
  <1>1. CASE f \in ListCf
    BY <1>1, StoreStutter DEF CreateCf, Refuse
  <1>2. CASE f \notin ListCf
    <2>1. /\ db # Closed /\ Added({f}) /\ lastId' <= MaxFamilies /\ Refusals(term) = {}
          /\ opened' = Over([g \in {f} |-> Family(term)], opened)
          /\ UNCHANGED <<versions, seq, db, snaps, view>>
      BY <1>2 DEF CreateCf
    <2>2. "default" \in ListCf \cup {f} /\ {f} \in SUBSET Names
      BY <2>1 DEF StoreIInv, TypeOK
    <2>3. ListCf' = ListCf \cup {f}
      BY <2>1, <2>2, AddedIds DEF ListCf, StoreIInv
    <2>4. OpenedWith'
      BY <1>2, <2>1, <2>3, FamilyAdded DEF StoreIInv
    <2>5. QED
      BY <2>1, <2>2, <2>4, AddStep
  <1>3. QED
    BY <1>1, <1>2

LEMMA DropCfStep == ASSUME StoreIInv, NEW f \in Names, DropCf(f) PROVE StoreIInv'
  <1>1. CASE f \notin ListCf \ {"default"}
    BY <1>1, StoreStutter DEF DropCf, Refuse
  <1>2. CASE f \in ListCf \ {"default"}
    <2>1. /\ catalog' = [g \in ListCf \ {f} |-> catalog[g]]
          /\ opened' = [g \in ListCf \ {f} |-> opened[g]]
          /\ db # Closed /\ UNCHANGED <<lastId, versions, seq, db, snaps, view>>
      BY <1>2 DEF DropCf
    <2>2. ListCf' = ListCf \ {f} /\ \A g \in ListCf' : catalog'[g] = catalog[g]
      BY <2>1 DEF ListCf
    <2>3. TypeOK'
      <3>1. db' # Closed => db # Closed
        BY <2>1
      <3>2. \A s \in Snaps : snaps'[s] # Closed => db' # Closed /\ snaps'[s].at <= seq'
        BY <2>1 DEF StoreIInv, TypeOK
      <3>3. QED
        BY <1>2, <2>1, <2>2, <3>1, <3>2 DEF StoreIInv, TypeOK, Exists
    <2>4. SnapsKept'
      BY <2>1, <2>2 DEF StoreIInv, SnapsKept
    <2>5. OpenedWith'
      BY <2>1, <2>2, FamilyDropped DEF StoreIInv
    <2>6. QED
      BY <2>3, <2>4, <2>5 DEF StoreIInv
  <1>3. QED
    BY <1>1, <1>2

LEMMA WriteStep ==
  ASSUME StoreIInv, (\E op \in Writes : Write(op)) \/ (\E ops \in Batches : WriteBatch(ops))
  PROVE  StoreIInv'
  <1>1. ASSUME NEW op \in Writes, Write(op) PROVE StoreIInv'
    <2>1. CASE op.family \in ListCf
      <3>1. Commit(<<op>>) /\ <<op>> \in Lists
        BY <1>1, <2>1 DEF Write, Lists
      <3>2. \A i \in DOMAIN <<op>> : <<op>>[i] = op
        OBVIOUS
      <3>3. op # Junk
        BY StoreAssumption
      <3>4. \A i \in DOMAIN <<op>> : Decodable(<<op>>[i])
        BY <2>1, <3>2, <3>3 DEF Decodable
      <3>5. QED
        BY <3>1, <3>4, CommitStep
    <2>2. CASE op.family \notin ListCf
      BY <1>1, <2>2, StoreStutter DEF Write, Refuse
    <2>3. QED
      BY <2>1, <2>2
  <1>2. ASSUME NEW ops \in Batches, WriteBatch(ops) PROVE StoreIInv'
    <2>1. CASE \A i \in DOMAIN ops : Decodable(ops[i])
      BY <1>2, <2>1, CommitStep DEF WriteBatch, Lists
    <2>2. CASE ~(\A i \in DOMAIN ops : Decodable(ops[i]))
      BY <1>2, <2>2, StoreStutter DEF WriteBatch, Refuse
    <2>3. QED
      BY <2>1, <2>2
  <1>3. QED
    BY <1>1, <1>2

LEMMA SnapshotStep ==
  ASSUME StoreIInv, NEW s \in Snaps, Snapshot(s) \/ Release(s) PROVE StoreIInv'
  <1>1. CASE Snapshot(s)
    <2> DEFINE snap == [at |-> seq, families |-> catalog, saw |-> Contents]
    <2>1. /\ db # Closed /\ snaps' = [snaps EXCEPT ![s] = snap]
          /\ UNCHANGED data /\ UNCHANGED db /\ UNCHANGED opened /\ UNCHANGED view
      BY <1>1 DEF Snapshot
    <2>2. /\ snap.at = seq /\ snap.families = catalog /\ snap.saw = Contents
      OBVIOUS
    <2>3. DOMAIN Contents = DOMAIN catalog
          /\ \A f \in DOMAIN catalog, k \in Keys :
               Contents[f][k] = Lookup(versions, catalog[f], k, seq)
      BY DEF Contents, Shown
    <2> HIDE DEF snap
    <2>4. DOMAIN snaps = Snaps /\ DOMAIN snaps' = Snaps /\ snaps'[s] = snap
          /\ \A t \in Snaps : t # s => snaps'[t] = snaps[t]
      BY <2>1 DEF StoreIInv, SnapsKept
    <2>5. UNCHANGED <<catalog, lastId, versions, seq>> /\ UNCHANGED ListCf
      BY <2>1, DataStutter
    <2>6. SnapsKept'
      <3>1. ASSUME NEW t \in Snaps, snaps'[t] # Closed
            PROVE  /\ snaps'[t].at \in Nat /\ DOMAIN snaps'[t].saw = DOMAIN snaps'[t].families
                   /\ \A f \in DOMAIN snaps'[t].families, k \in Keys :
                        snaps'[t].saw[f][k]
                          = Lookup(versions, snaps'[t].families[f], k, snaps'[t].at)
                   /\ \A f \in ListCf :
                        \/ f \in DOMAIN snaps'[t].families
                           /\ snaps'[t].families[f] = catalog[f]
                        \/ \A v \in versions : v.family = catalog[f] => v.seq > snaps'[t].at
        <4>1. CASE t = s
          BY <2>2, <2>3, <2>4, <4>1, VersionsFiled DEF ListCf, StoreIInv
        <4>2. CASE t # s
          BY <2>4, <3>1, <4>2 DEF StoreIInv, SnapsKept
        <4>3. QED
          BY <4>1, <4>2
      <3>2. QED
        BY <2>4, <2>5, <3>1 DEF SnapsKept
    <2>7. TypeOK'
      <3>1. seq \in Nat
        BY VersionsFiled DEF StoreIInv
      <3>2. \A t \in Snaps : snaps'[t] # Closed => db' # Closed /\ snaps'[t].at <= seq
        BY <2>1, <2>2, <2>4, <3>1 DEF StoreIInv, TypeOK
      <3>3. view' \in BOOLEAN
        BY <2>1 DEF StoreIInv, TypeOK
      <3>4. QED
        BY <2>1, <3>2, <3>3, DataStutter
    <2>8. OpenedWith'
      BY <2>1, DataStutter
    <2>9. QED
      BY <2>6, <2>7, <2>8 DEF StoreIInv
  <1>2. CASE Release(s)
    <2>1. /\ snaps' = [snaps EXCEPT ![s] = Closed]
          /\ UNCHANGED data /\ UNCHANGED db /\ UNCHANGED opened /\ UNCHANGED view
      BY <1>2 DEF Release
    <2>2. DOMAIN snaps' = Snaps /\ \A t \in Snaps : snaps'[t] \in {snaps[t], Closed}
      BY <2>1 DEF StoreIInv, SnapsKept
    <2>3. UNCHANGED <<catalog, lastId, versions, seq>> /\ UNCHANGED ListCf
      BY <2>1, DataStutter
    <2>4. \A t \in Snaps : snaps'[t] # Closed => snaps'[t] = snaps[t]
      BY <2>2
    <2>5. SnapsKept'
      BY <2>2, <2>3, <2>4 DEF StoreIInv, SnapsKept
    <2>6. TypeOK'
      BY <2>1, <2>4, DataStutter DEF StoreIInv, TypeOK
    <2>7. OpenedWith'
      BY <2>1, DataStutter
    <2>8. QED
      BY <2>5, <2>6, <2>7 DEF StoreIInv
  <1>3. QED
    BY <1>1, <1>2

LEMMA ReadOnlyStep ==
  ASSUME StoreIInv,
         \/ \E names \in SUBSET Names, term \in Terms : OpenReadOnly(names, term)
         \/ CloseReadOnly \/ WriteReadOnly
  PROVE  StoreIInv'
  <1>1. ASSUME NEW names \in SUBSET Names, NEW term, OpenReadOnly(names, term)
        PROVE  StoreIInv'
    <2>1. CASE Exists /\ names \subseteq ListCf
      <3>1. view' = TRUE /\ UNCHANGED data /\ UNCHANGED db /\ UNCHANGED opened /\ UNCHANGED snaps
        BY <1>1, <2>1 DEF OpenReadOnly
      <3>2. TypeOK' /\ SnapsKept' /\ OpenedWith'
        BY <3>1, DataStutter DEF StoreIInv, TypeOK
      <3>3. QED
        BY <3>2 DEF StoreIInv
    <2>2. CASE ~(Exists /\ names \subseteq ListCf)
      BY <1>1, <2>2, StoreStutter DEF OpenReadOnly, Refuse
    <2>3. QED
      BY <2>1, <2>2
  <1>2. CASE CloseReadOnly
    <2>1. view' \in BOOLEAN /\ UNCHANGED data /\ UNCHANGED db /\ UNCHANGED opened /\ UNCHANGED snaps
      BY <1>2 DEF CloseReadOnly
    <2>2. TypeOK' /\ SnapsKept' /\ OpenedWith'
      BY <2>1, DataStutter DEF StoreIInv, TypeOK
    <2>3. QED
      BY <2>1, <2>2 DEF StoreIInv
  <1>3. CASE WriteReadOnly
    BY <1>3, StoreStutter DEF WriteReadOnly, Refuse
  <1>4. QED
    BY <1>1, <1>2, <1>3

LEMMA StoreInit == ASSUME Init PROVE StoreIInv
  <1>1. ListCf = {} /\ versions = {} /\ (\A s \in Snaps : snaps[s] = Closed)
        /\ DOMAIN snaps = Snaps /\ db = Closed /\ view = FALSE
    BY DEF Init, ListCf
  <1>2. TypeOK
    <2>1. view \in BOOLEAN
      BY <1>1
    <2>2. QED
      BY <1>1, <2>1, StoreAssumption DEF Init, TypeOK, Exists
  <1>3. QED
    BY <1>1, <1>2 DEF StoreIInv, SnapsKept, OpenedWith

LEMMA StoreNext == ASSUME StoreIInv, [Next]_vars PROVE StoreIInv'
  <1>1. ASSUME NEW names \in SUBSET Names, NEW t \in Terms,
               Open(names, t) \/ OpenFails(names, t)
        PROVE  StoreIInv'
    BY <1>1, OpenStep
  <1>2. ASSUME NEW t \in Terms, RefusedOptions(t) PROVE StoreIInv'
    BY <1>2, StoreStutter DEF RefusedOptions, Refuse
  <1>3. CASE Close
    BY <1>3, CloseStep
  <1>4. ASSUME NEW t \in Terms, Destroy(t) PROVE StoreIInv'
    BY <1>4, DestroyStep
  <1>5. ASSUME NEW f \in Names, NEW t \in Terms, CreateCf(f, t) PROVE StoreIInv'
    BY <1>5, CreateCfStep
  <1>6. ASSUME NEW f \in Names, DropCf(f) PROVE StoreIInv'
    BY <1>6, DropCfStep
  <1>7. CASE (\E op \in Writes : Write(op)) \/ (\E ops \in Batches : WriteBatch(ops))
    BY <1>7, WriteStep
  <1>8. ASSUME NEW s \in Snaps, Snapshot(s) \/ Release(s) PROVE StoreIInv'
    BY <1>8, SnapshotStep
  <1>9. CASE \/ \E names \in SUBSET Names, t \in Terms : OpenReadOnly(names, t)
             \/ CloseReadOnly \/ WriteReadOnly
    BY <1>9, ReadOnlyStep
  <1>10. CASE UNCHANGED vars
    BY <1>10, StoreStutter DEF vars, data
  <1>11. QED
    BY <1>1, <1>2, <1>3, <1>4, <1>5, <1>6, <1>7, <1>8, <1>9, <1>10 DEF Next

(* In every state the store is well formed, what snapshots saw is still     *)
(* there, nothing of families made since is as old as they are, and the     *)
(* open DB has for each of its families, and for no others, settings made   *)
(* from a map that was not refused.                                         *)
THEOREM StoreInvariant == Spec => []StoreIInv
  BY StoreInit, StoreNext, PTL DEF Spec

(* Families have ids of their own, no two versions of a key have the same   *)
(* number, and no snapshot is ahead of the DB or outlives it.               *)
THEOREM StoreTypes == Spec => []TypeOK
  <1>1. StoreIInv => TypeOK
    BY DEF StoreIInv
  <1>2. QED
    BY <1>1, StoreInvariant, PTL

(* Whatever is written, dropped and made again meanwhile, a snapshot shows  *)
(* what was there when it was taken, and nothing of families made since.    *)
THEOREM SnapshotsAreStable == Spec => []SnapshotStable
  <1>1. ASSUME SnapsKept, TypeOK, NEW s \in Snaps, snaps[s] # Closed, NEW f \in ListCf, NEW k \in Keys
        PROVE  SnapshotGet(s, f, k) =
                 IF f \in DOMAIN snaps[s].saw /\ snaps[s].families[f] = catalog[f]
                 THEN snaps[s].saw[f][k] ELSE <<>>
    <2>1. SnapshotGet(s, f, k) = Lookup(versions, catalog[f], k, snaps[s].at)
      BY DEF SnapshotGet
    <2>2. CASE f \in DOMAIN snaps[s].saw /\ snaps[s].families[f] = catalog[f]
      BY <1>1, <2>1, <2>2 DEF SnapsKept
    <2>3. CASE ~(f \in DOMAIN snaps[s].saw /\ snaps[s].families[f] = catalog[f])
      <3>1. \A v \in versions : v.family = catalog[f] => v.seq > snaps[s].at
        BY <1>1, <2>3 DEF SnapsKept
      <3>2. {v \in versions : v.family = catalog[f] /\ v.key = k /\ v.seq <= snaps[s].at} = {}
        BY <1>1, <3>1 DEF SnapsKept, TypeOK
      <3>3. QED
        BY <2>1, <2>3, <3>2 DEF Lookup
    <2>4. QED
      BY <2>2, <2>3
  <1>2. StoreIInv => SnapshotStable
    BY <1>1 DEF StoreIInv, SnapshotStable
  <1>3. QED
    BY <1>2, StoreInvariant, PTL

(* A map that is not refused is no term of the wrong kind, and each of its  *)
(* choices spells a word that the conversion to Options knows.              *)
LEMMA TakenMap ==
  ASSUME NEW term, Refusals(term) = {}
  PROVE  \A k \in DOMAIN term \cap DOMAIN Choices : Spelling[term[k]] \in Choices[k]
  <1> DEFINE bad == {i \in DOMAIN Validated : LET k == Validated[i] IN
                                              k \in DOMAIN term /\ ~Valid(k, term[k])}
  <1>1. ValidationErrors(term) = {}
    BY DEF Refusals
  <1>2. DOMAIN Validated = 1 .. 9 /\ bad \in SUBSET Nat
    BY DEF Validated
  <1>3. bad = {}
    <2> SUFFICES ASSUME bad # {} PROVE FALSE
      OBVIOUS
    <2>1. PICK m \in bad : \A j \in bad : m <= j
      BY <1>2, LeastNumber
    <2>2. <<"invalid", Validated[m]>> \in ValidationErrors(term)
      BY <2>1 DEF ValidationErrors
    <2>3. QED
      BY <1>1, <2>2
  <1>4. ASSUME NEW k \in DOMAIN Choices PROVE (\E i \in DOMAIN Validated : Validated[i] = k)
                                              /\ k \notin ListKeys
    <2>1. k \in {"set_compression_type", "set_bottommost_compression_type",
                 "set_blob_compression_type", "set_log_level", "set_compaction_style",
                 "set_wal_recovery_mode", "merge_operator"}
      BY DEF Choices
    <2>2. /\ Validated[1] = "set_compression_type"
          /\ Validated[2] = "set_bottommost_compression_type"
          /\ Validated[3] = "set_blob_compression_type"
          /\ Validated[4] = "set_log_level" /\ Validated[5] = "set_compaction_style"
          /\ Validated[6] = "set_wal_recovery_mode" /\ Validated[7] = "merge_operator"
      BY DEF Validated
    <2>3. 1 \in 1 .. 9 /\ 2 \in 1 .. 9 /\ 3 \in 1 .. 9 /\ 4 \in 1 .. 9 /\ 5 \in 1 .. 9
          /\ 6 \in 1 .. 9 /\ 7 \in 1 .. 9
      OBVIOUS
    <2>4. k \notin ListKeys
      BY <2>1 DEF ListKeys
    <2>5. \E i \in 1 .. 9 : Validated[i] = k
      BY <2>1, <2>2, <2>3
    <2>6. QED
      BY <1>2, <2>4, <2>5
  <1>5. ASSUME NEW k \in DOMAIN term \cap DOMAIN Choices PROVE Spelling[term[k]] \in Choices[k]
    <2>1. PICK i \in DOMAIN Validated : Validated[i] = k
      BY <1>4
    <2>2. Valid(k, term[k])
      BY <1>3, <2>1
    <2>3. QED
      BY <1>4, <2>2 DEF Valid
  <1>6. QED
    BY <1>5

(* A map that is taken has no key of RocksDB's levels. *)
LEMMA TakenKeys ==
  ASSUME NEW term, Refusals(term) = {}
  PROVE  "compression_per_level" \notin DOMAIN term /\ NoAtom \notin DOMAIN term
  <1>1. DecodeErrors(term) = {} /\ term # NotMap
    BY DEF Refusals, DecodeErrors
  <1>2. NoAtom \notin DOMAIN term
    <2> SUFFICES ASSUME NoAtom \in DOMAIN term PROVE FALSE
      OBVIOUS
    <2>1. <<"invalid", "options">> \in DecodeErrors(term)
      BY <1>1 DEF DecodeErrors
    <2>2. QED
      BY <1>1, <2>1
  <1>3. DOMAIN term \subseteq AllKeys
    <2> SUFFICES ASSUME NEW k \in DOMAIN term, k \notin AllKeys PROVE FALSE
      OBVIOUS
    <2>1. <<"unknown", k>> \in DecodeErrors(term)
      BY <1>1, <1>2 DEF DecodeErrors
    <2>2. QED
      BY <1>1, <2>1
  <1>4. "compression_per_level" \notin AllKeys
    BY OpenOptionsAssumption DEF AllKeys, ListKeys, PresetKeys, MinLevel, Choices
  <1>5. QED
    BY <1>2, <1>3, <1>4

(* Single settings are made with the value asked for, whatever presets and  *)
(* first level are in the map.                                              *)
LEMMA SinglesApplied ==
  ASSUME NEW term, Refusals(term) = {}, NEW k \in DOMAIN term \ (PresetKeys \cup {MinLevel})
  PROVE  /\ k \in DOMAIN Applied(term)
         /\ Applied(term)[k] = IF k \in DOMAIN Choices THEN Spelling[term[k]] ELSE term[k]
  <1> DEFINE single == Over(Explicit(term), Over(Presets(term), Default))
             levels == [compression_per_level |->
                          [d \in Depths |-> IF d < term[MinLevel] THEN "none"
                                            ELSE TypeOf(single)]]
  <1>1. k \in DOMAIN Explicit(term) /\ Explicit(term)[k] = Converted(k, term[k])
    BY DEF Explicit
  <1>2. k \in DOMAIN single /\ single[k] = Explicit(term)[k]
    BY <1>1 DEF Over
  <1> HIDE DEF single
  <1>3. k \notin DOMAIN levels
    BY TakenKeys
  <1> HIDE DEF levels
  <1>4. Applied(term) = single \/ Applied(term) = Over(levels, single)
    BY DEF Applied, Levelled, single, levels
  <1>5. k \in DOMAIN Applied(term) /\ Applied(term)[k] = single[k]
    BY <1>2, <1>3, <1>4 DEF Over
  <1>6. k \in DOMAIN Choices => Spelling[term[k]] \in Choices[k]
    BY TakenMap
  <1>7. QED
    BY <1>1, <1>2, <1>5, <1>6 DEF Converted

(* The types of levels: the first level to compress has the last word. *)
LEMMA LevelsApplied ==
  ASSUME NEW term, Refusals(term) = {}, NEW d \in Depths
  PROVE  CompressionAt(Part(Applied(term), FamilyFields), d) = CompressionAsked(term, d)
  <1> DEFINE single == Over(Explicit(term), Over(Presets(term), Default))
             Levels(s) == [compression_per_level |->
                             [e \in Depths |-> IF e < term[MinLevel] THEN "none"
                                               ELSE TypeOf(s)]]
             asked == IF Given(term, "set_compression_type")
                      THEN Spelling[term["set_compression_type"]] ELSE DefaultType
             preset == [e \in Depths |-> IF e < 2 THEN "none" ELSE PresetType]
             first == Given(term, MinLevel) /\ term[MinLevel] >= 0
             level == Given(term, "optimize_level_style_compaction")
  <1>1. /\ DOMAIN single = DOMAIN Explicit(term) \cup DOMAIN Presets(term) \cup DOMAIN Default
        /\ \A k \in DOMAIN Explicit(term) : single[k] = Explicit(term)[k]
        /\ \A k \in DOMAIN Presets(term) \ DOMAIN Explicit(term) : single[k] = Presets(term)[k]
    BY DEF Over
  <1>2. DOMAIN Default = {"create_if_missing"}
    BY DEF Default
  <1>3. /\ "set_compression_type" \notin DOMAIN Presets(term)
        /\ "compression_per_level" \in DOMAIN Presets(term) <=> level
        /\ level => Presets(term)["compression_per_level"] = preset
    <2>1. /\ "set_compression_type" \notin DOMAIN Parallelism(term)
          /\ "compression_per_level" \notin DOMAIN Parallelism(term)
      BY DEF Parallelism, NothingSet
    <2>2. /\ "set_compression_type" \notin DOMAIN UniversalStyle(term)
          /\ "compression_per_level" \notin DOMAIN UniversalStyle(term)
      BY DEF UniversalStyle, NothingSet
    <2>3. /\ "set_compression_type" \notin DOMAIN LevelStyle(term)
          /\ "compression_per_level" \in DOMAIN LevelStyle(term) <=> level
          /\ level => LevelStyle(term)["compression_per_level"] = preset
      <3>1. CASE level
        BY <3>1 DEF LevelStyle
      <3>2. CASE ~level
        BY <3>2 DEF LevelStyle, NothingSet
      <3>3. QED
        BY <3>1, <3>2
    <2> HIDE DEF preset, level
    <2>4. QED
      BY <2>1, <2>2, <2>3 DEF Presets, Over
  <1>4. DOMAIN Explicit(term) = DOMAIN term \ (PresetKeys \cup {MinLevel})
        /\ \A k \in DOMAIN Explicit(term) : Explicit(term)[k] = Converted(k, term[k])
    BY DEF Explicit
  <1>5. "compression_per_level" \notin DOMAIN Explicit(term)
    BY <1>4, TakenKeys
  <1>6. Given(term, "set_compression_type") <=> "set_compression_type" \in DOMAIN Explicit(term)
    BY <1>4 DEF Given, PresetKeys, MinLevel
  <1>7. Given(term, "set_compression_type") =>
          Explicit(term)["set_compression_type"] = Spelling[term["set_compression_type"]]
    <2>1. "set_compression_type" \in DOMAIN Choices
      BY DEF Choices
    <2>2. QED
      BY <1>4, <1>6, <2>1, TakenMap DEF Converted, Given
  <1> HIDE DEF single, preset, level, first, asked
  <1>8. TypeOf(single) = asked
    <2>1. CASE Given(term, "set_compression_type")
      BY <1>1, <1>6, <1>7, <2>1 DEF TypeOf, asked
    <2>2. CASE ~Given(term, "set_compression_type")
      BY <1>1, <1>2, <1>3, <1>6, <2>2 DEF TypeOf, asked
    <2>3. QED
      BY <2>1, <2>2
  <1>9. /\ "compression_per_level" \in DOMAIN single <=> level
        /\ level => single["compression_per_level"] = preset
    BY <1>1, <1>2, <1>3, <1>5
  <1>10. "set_compression_type" \in FamilyFields /\ "compression_per_level" \in FamilyFields
    BY DEF FamilyFields
  <1>11. ASSUME NEW s PROVE CompressionAt(Part(s, FamilyFields), d) = CompressionAt(s, d)
    <2> DEFINE part == Part(s, FamilyFields)
    <2>1. \A k \in FamilyFields : (k \in DOMAIN part <=> k \in DOMAIN s)
                                  /\ (k \in DOMAIN s => part[k] = s[k])
      BY DEF Part
    <2> HIDE DEF part
    <2>2. QED
      BY <1>10, <2>1 DEF CompressionAt, TypeOf, part
  <1>12. CASE first
    <2>1. Applied(term) = Over(Levels(single), single)
      BY <1>12 DEF Applied, Levelled, single, first
    <2>2. "compression_per_level" \in DOMAIN Applied(term)
          /\ Applied(term)["compression_per_level"]
               = [e \in Depths |-> IF e < term[MinLevel] THEN "none" ELSE TypeOf(single)]
      BY <2>1 DEF Over
    <2>3. CompressionAt(Applied(term), d) = IF d < term[MinLevel] THEN "none" ELSE asked
      BY <1>8, <2>2 DEF CompressionAt
    <2>4. QED
      BY <1>11, <1>12, <2>3 DEF CompressionAsked, first, asked
  <1>13. CASE ~first
    <2>1. Applied(term) = single
      BY <1>13 DEF Applied, Levelled, single, first
    <2>2. CASE level
      <3>1. CompressionAt(single, d) = IF d < 2 THEN "none" ELSE PresetType
        BY <1>9, <2>2 DEF CompressionAt, preset
      <3>2. QED
        BY <1>11, <1>13, <2>1, <2>2, <3>1 DEF CompressionAsked, first, level
    <2>3. CASE ~level
      <3>1. CompressionAt(single, d) = asked
        BY <1>8, <1>9, <2>3 DEF CompressionAt
      <3>2. QED
        BY <1>11, <1>13, <2>1, <2>3, <3>1 DEF CompressionAsked, first, level, asked
    <2>4. QED
      BY <2>2, <2>3
  <1>14. QED
    BY <1>12, <1>13

(* The DB and each family of it have the single settings their own maps     *)
(* asked for, and each level the compression that the first level, the      *)
(* preset and the type ask for in this order, for any map that is taken.    *)
THEOREM SettingsTakeEffect == Spec => []SettingsInEffect
  <1>1. ASSUME NEW term, Refusals(term) = {}, NEW keys \in SUBSET DOMAIN term,
               NEW fields, (keys \ (PresetKeys \cup {MinLevel})) \subseteq fields
        PROVE  Keeps(term, keys, Part(Applied(term), fields))
    <2> SUFFICES ASSUME NEW k \in keys \ (PresetKeys \cup {MinLevel})
                 PROVE  /\ k \in DOMAIN Part(Applied(term), fields)
                        /\ Part(Applied(term), fields)[k]
                             = IF k \in DOMAIN Choices THEN Spelling[term[k]] ELSE term[k]
      BY DEF Keeps
    <2>1. k \in DOMAIN Applied(term) /\ k \in fields
      BY <1>1, SinglesApplied
    <2>2. Applied(term)[k] = IF k \in DOMAIN Choices THEN Spelling[term[k]] ELSE term[k]
      BY <1>1, SinglesApplied
    <2>3. QED
      BY <2>1, <2>2 DEF Part
  <1>2. ASSUME OpenedWith, db # Closed
        PROVE  Keeps(db.asked, DOMAIN db.asked \ FamilyFields, db.settings)
    <2> DEFINE own == DOMAIN db.asked \ FamilyFields
               fields == DOMAIN Applied(db.asked) \ FamilyFields
    <2>1. Refusals(db.asked) = {} /\ db.settings = Part(Applied(db.asked), fields)
      BY <1>2 DEF OpenedWith
    <2>2. own \ (PresetKeys \cup {MinLevel}) \subseteq fields
      BY <2>1, SinglesApplied
    <2>3. QED
      BY <1>1, <2>1, <2>2
  <1>3. ASSUME OpenedWith, db # Closed, NEW f \in ListCf
        PROVE  LET asked == opened[f].asked
                   settings == opened[f].settings
               IN  /\ Keeps(asked, DOMAIN asked \cap FamilyFields, settings)
                   /\ \A d \in Depths : CompressionAt(settings, d) = CompressionAsked(asked, d)
    <2> DEFINE asked == opened[f].asked
    <2>1. Refusals(asked) = {} /\ opened[f] = Family(asked)
      BY <1>3 DEF OpenedWith
    <2>2. opened[f].settings = Part(Applied(asked), FamilyFields)
      BY <2>1 DEF Family
    <2> HIDE DEF asked
    <2>3. Keeps(asked, DOMAIN asked \cap FamilyFields, Part(Applied(asked), FamilyFields))
      BY <1>1, <2>1
    <2>4. \A d \in Depths : CompressionAt(Part(Applied(asked), FamilyFields), d)
                              = CompressionAsked(asked, d)
      BY <2>1, LevelsApplied
    <2>5. QED
      BY <2>2, <2>3, <2>4 DEF asked
  <1>4. StoreIInv => SettingsInEffect
    <2> SUFFICES ASSUME OpenedWith, db # Closed PROVE SettingsInEffect
      BY DEF StoreIInv, SettingsInEffect
    <2>1. DOMAIN opened = ListCf
      BY DEF OpenedWith
    <2>2. QED
      BY <1>2, <1>3, <2>1 DEF SettingsInEffect
  <1>5. QED
    BY <1>4, StoreInvariant, PTL
-----------------------------------------------------------------------------
(* Store implements KvStore: each call is one step of the map. *)

LEMMA ContentsNext ==
  Contents' = [f \in DOMAIN catalog' |->
                 [k \in Keys |-> Lookup(versions', catalog'[f], k, seq')]]
  BY DEF Contents, Shown

LEMMA ContentsNow ==
  Contents = [f \in DOMAIN catalog |-> [k \in Keys |-> Lookup(versions, catalog[f], k, seq)]]
  BY DEF Contents, Shown

(* A new family has no rows: nothing was ever written under its id. *)
LEMMA AddedContents ==
  ASSUME TypeOK, NEW names \in SUBSET Names, Added(names), UNCHANGED <<versions, seq>>
  PROVE  Contract!Add(names) /\ DOMAIN Contents = ListCf /\ DOMAIN Contents' = ListCf \cup names
  <1> DEFINE Row(f) == [k \in Keys |-> Lookup(versions, catalog[f], k, seq)]
             Rows(f) == [k \in Keys |-> Lookup(versions, catalog'[f], k, seq)]
  <1>1. /\ DOMAIN catalog' = ListCf \cup names
        /\ lastId' \in Nat /\ lastId <= lastId' /\ lastId \in Nat
        /\ \A f \in ListCf : catalog'[f] = catalog[f]
        /\ \A f \in names \ ListCf : catalog'[f] \in lastId + 1 .. lastId'
    BY AddedIds, VersionsFiled
  <1>2. Contents = [f \in ListCf |-> Row(f)]
    BY ContentsNow DEF ListCf
  <1>3. Contents' = [f \in ListCf \cup names |-> Rows(f)]
    BY <1>1, ContentsNext
  <1>4. ASSUME NEW f \in ListCf PROVE Rows(f) = Row(f)
    BY <1>1
  <1>5. ASSUME NEW f \in names \ ListCf PROVE Rows(f) = Contract!NoKeys
    <2>1. \A v \in versions : v.family # catalog'[f]
      BY <1>1 DEF TypeOK
    <2>2. ASSUME NEW k \in Keys PROVE Lookup(versions, catalog'[f], k, seq) = <<>>
      <3>1. {v \in versions : v.family = catalog'[f] /\ v.key = k /\ v.seq <= seq} = {}
        BY <2>1
      <3>2. QED
        BY <3>1 DEF Lookup
    <2>3. QED
      BY <2>2 DEF Contract!NoKeys
  <1> HIDE DEF Row, Rows
  <1>6. DOMAIN Contents = ListCf /\ \A f \in ListCf : Contents[f] = Row(f)
    BY <1>2
  <1>7. [f \in ListCf \cup names |-> Rows(f)]
          = [f \in ListCf \cup names |-> IF f \in ListCf THEN Contents[f] ELSE Contract!NoKeys]
    BY <1>4, <1>5, <1>6
  <1>8. QED
    BY <1>3, <1>6, <1>7 DEF Contract!Add

LEMMA ContentsStutter == ASSUME UNCHANGED data PROVE UNCHANGED Contents
  BY ContentsNow, ContentsNext DEF data

LEMMA RefuseRefined == ASSUME NEW tag, Refuse(tag) PROVE Contract!Refuse
  BY ContentsStutter DEF Refuse, Error, Contract!Refuse

LEMMA QuietRefined == ASSUME UNCHANGED data, Ok(0) PROVE Contract!Quiet
  BY ContentsStutter DEF Ok, Contract!Quiet, Contract!Ok

LEMMA InitRefined == ASSUME Init PROVE Contract!Init
  <1>1. Contents = [f \in {} |-> <<>>]
    BY ContentsNow DEF Init
  <1>2. QED
    BY <1>1 DEF Init, Contract!Init, Contract!Ok

LEMMA OpenRefined ==
  ASSUME TypeOK, NEW names \in SUBSET Names, NEW term,
         Open(names, term) \/ OpenFails(names, term)
  PROVE  Contract!Open \/ Contract!OpenHalfway \/ Contract!Refuse
  <1>1. CASE Open(names, term)
    <2>1. Added(Named(names)) /\ UNCHANGED <<versions, seq>> /\ reply' = Contract!Ok(0)
      BY <1>1 DEF Open, Ok, Contract!Ok
    <2>2. Named(names) \in SUBSET Names /\ "default" \in Named(names)
      BY StoreAssumption DEF Named
    <2>3. Contract!Add(Named(names)) /\ "default" \in DOMAIN Contents'
      BY <2>1, <2>2, AddedContents
    <2>4. QED
      BY <2>1, <2>2, <2>3 DEF Contract!Open
  <1>2. CASE OpenFails(names, term) /\ UNCHANGED data
    BY <1>2, ContentsStutter DEF OpenFails, Error, Contract!Refuse
  <1>3. CASE OpenFails(names, term) /\ ~UNCHANGED data
    <2>1. /\ ~Exists /\ Added({"default"}) /\ UNCHANGED <<versions, seq>>
          /\ reply' = [tag |-> "error", n |-> 0]
      BY <1>3 DEF OpenFails, Error
    <2>2. {"default"} \in SUBSET Names
      BY StoreAssumption
    <2>3. Contract!Add({"default"}) /\ DOMAIN Contents = {}
      BY <2>1, <2>2, AddedContents DEF Exists
    <2>4. reply'.tag # "ok"
      BY <2>1
    <2>5. QED
      BY <2>3, <2>4 DEF Contract!OpenHalfway
  <1>4. QED
    BY <1>1, <1>2, <1>3

LEMMA FamilyRefined ==
  ASSUME TypeOK, NEW f \in Names, DropCf(f) \/ \E t \in Terms : CreateCf(f, t)
  PROVE  Contract!CreateFamily \/ Contract!DropFamily \/ Contract!Refuse
  <1>1. ASSUME NEW t \in Terms, CreateCf(f, t), f \notin ListCf PROVE Contract!CreateFamily
    <2>1. Added({f}) /\ UNCHANGED <<versions, seq>> /\ reply' = Contract!Ok(0)
      BY <1>1 DEF CreateCf, Ok, Contract!Ok
    <2>2. ListCf # {}
      BY <1>1 DEF CreateCf, TypeOK, Exists
    <2>3. Contract!Add({f}) /\ DOMAIN Contents = ListCf
      BY <2>1, AddedContents
    <2>4. QED
      BY <1>1, <2>1, <2>2, <2>3 DEF Contract!CreateFamily
  <1>2. CASE DropCf(f) /\ f \in ListCf \ {"default"}
    <2>1. /\ catalog' = [g \in ListCf \ {f} |-> catalog[g]]
          /\ UNCHANGED <<versions, seq>> /\ reply' = Contract!Ok(0)
      BY <1>2 DEF DropCf, Ok, Contract!Ok
    <2> DEFINE Row(g) == [k \in Keys |-> Lookup(versions, catalog[g], k, seq)]
    <2>2. Contents = [g \in ListCf |-> Row(g)]
      BY ContentsNow DEF ListCf
    <2>3. Contents' = [g \in ListCf \ {f} |-> Row(g)]
      BY <2>1, ContentsNext
    <2> HIDE DEF Row
    <2>4. DOMAIN Contents = ListCf /\ \A g \in ListCf : Contents[g] = Row(g)
      BY <2>2
    <2>5. Contents' = [g \in DOMAIN Contents \ {f} |-> Contents[g]]
      BY <2>3, <2>4
    <2>6. QED
      BY <1>2, <2>1, <2>4, <2>5 DEF Contract!DropFamily
  <1>3. CASE DropCf(f) /\ f \notin ListCf \ {"default"}
    BY <1>3, RefuseRefined DEF DropCf
  <1>4. ASSUME NEW t \in Terms, CreateCf(f, t), f \in ListCf PROVE Contract!Refuse
    BY <1>4, RefuseRefined DEF CreateCf
  <1>5. QED
    BY <1>1, <1>2, <1>3, <1>4

LEMMA DestroyRefined ==
  ASSUME NEW term, Destroy(term) PROVE Contract!Destroy \/ Contract!Refuse
  <1>1. CASE db # Closed
    BY <1>1, RefuseRefined DEF Destroy
  <1>2. CASE db = Closed
    <2>1. DOMAIN catalog' = {} /\ reply' = Contract!Ok(0)
      BY <1>2 DEF Destroy, Ok, Contract!Ok
    <2>2. DOMAIN Contents' = {}
      BY <2>1, ContentsNext
    <2>3. QED
      BY <2>1, <2>2 DEF Contract!Destroy
  <1>3. QED
    BY <1>1, <1>2

LEMMA CommitRefined ==
  ASSUME TypeOK, NEW ops \in Lists, \A i \in DOMAIN ops : Decodable(ops[i]),
         Commit(ops), Ok(Len(ops))
  PROVE  Contract!Apply
  <1> DEFINE Calls == {<<op>> : op \in Writes}
                        \cup {b \in Batches : \A i \in DOMAIN b : b[i] # Junk}
  <1>1. ops \in Calls
    BY DEF Lists, Decodable
  <1>2. UNCHANGED catalog /\ seq' = seq + Len(ops)
    BY ListTyped, Committed
  <1>3. MapOf(versions', seq + Len(ops)) = Contract!After(ops)
    BY CommitAdds
  <1>4. Contents' = Contract!After(ops)
    BY <1>2, <1>3, ContentsNext DEF MapOf, ListCf
  <1>5. \A i \in DOMAIN ops : ops[i].family \in DOMAIN Contents
    BY ContentsNow DEF Decodable, ListCf
  <1>6. reply' = Contract!Ok(Len(ops))
    BY DEF Ok, Contract!Ok
  <1>7. QED
    BY <1>1, <1>4, <1>5, <1>6 DEF Contract!Apply

LEMMA WriteRefined ==
  ASSUME TypeOK, (\E op \in Writes : Write(op)) \/ (\E ops \in Batches : WriteBatch(ops))
  PROVE  Contract!Apply \/ Contract!Refuse
  <1>1. ASSUME NEW op \in Writes, Write(op), op.family \in ListCf PROVE Contract!Apply
    <2>1. Commit(<<op>>) /\ <<op>> \in Lists /\ Ok(Len(<<op>>))
      BY <1>1 DEF Write, Lists
    <2>2. \A i \in DOMAIN <<op>> : <<op>>[i] = op
      OBVIOUS
    <2>3. op # Junk
      BY StoreAssumption
    <2>4. \A i \in DOMAIN <<op>> : Decodable(<<op>>[i])
      BY <1>1, <2>2, <2>3 DEF Decodable
    <2>5. QED
      BY <2>1, <2>4, CommitRefined
  <1>2. ASSUME NEW op \in Writes, Write(op), op.family \notin ListCf PROVE Contract!Refuse
    BY <1>2, RefuseRefined DEF Write
  <1>3. ASSUME NEW ops \in Batches, WriteBatch(ops) PROVE Contract!Apply \/ Contract!Refuse
    <2>1. CASE \A i \in DOMAIN ops : Decodable(ops[i])
      BY <1>3, <2>1, CommitRefined DEF WriteBatch, Lists
    <2>2. CASE ~(\A i \in DOMAIN ops : Decodable(ops[i]))
      BY <1>3, <2>2, RefuseRefined DEF WriteBatch
    <2>3. QED
      BY <2>1, <2>2
  <1>4. QED
    BY <1>1, <1>2, <1>3

LEMMA OthersRefined ==
  ASSUME \/ \E t \in Terms : RefusedOptions(t)
         \/ Close
         \/ \E s \in Snaps : Snapshot(s) \/ Release(s)
         \/ \E names \in SUBSET Names, t \in Terms : OpenReadOnly(names, t)
         \/ CloseReadOnly \/ WriteReadOnly
  PROVE  Contract!Quiet \/ Contract!Refuse
  <1>1. CASE \E t \in Terms : RefusedOptions(t)
    BY <1>1, RefuseRefined DEF RefusedOptions
  <1>2. CASE Close
    BY <1>2, RefuseRefined, QuietRefined DEF Close
  <1>3. CASE \E s \in Snaps : Snapshot(s) \/ Release(s)
    BY <1>3, QuietRefined DEF Snapshot, Release
  <1>4. CASE \E names \in SUBSET Names, t \in Terms : OpenReadOnly(names, t)
    BY <1>4, RefuseRefined, QuietRefined DEF OpenReadOnly
  <1>5. CASE CloseReadOnly \/ WriteReadOnly
    BY <1>5, RefuseRefined, QuietRefined DEF CloseReadOnly, WriteReadOnly
  <1>6. QED
    BY <1>1, <1>2, <1>3, <1>4, <1>5

LEMMA StepRefined == ASSUME TypeOK, [Next]_vars PROVE [Contract!Next]_(Contract!vars)
  <1>1. ASSUME NEW names \in SUBSET Names, NEW t \in Terms, Open(names, t) \/ OpenFails(names, t)
        PROVE  Contract!Next
    BY <1>1, OpenRefined DEF Contract!Next
  <1>2. ASSUME NEW f \in Names, DropCf(f) \/ \E t \in Terms : CreateCf(f, t)
        PROVE  Contract!Next
    BY <1>2, FamilyRefined DEF Contract!Next
  <1>3. ASSUME NEW t \in Terms, Destroy(t) PROVE Contract!Next
    BY <1>3, DestroyRefined DEF Contract!Next
  <1>4. CASE (\E op \in Writes : Write(op)) \/ (\E ops \in Batches : WriteBatch(ops))
    BY <1>4, WriteRefined DEF Contract!Next
  <1>5. CASE \/ \E t \in Terms : RefusedOptions(t)
             \/ Close
             \/ \E s \in Snaps : Snapshot(s) \/ Release(s)
             \/ \E names \in SUBSET Names, t \in Terms : OpenReadOnly(names, t)
             \/ CloseReadOnly \/ WriteReadOnly
    BY <1>5, OthersRefined DEF Contract!Next
  <1>6. CASE UNCHANGED vars
    BY <1>6, ContentsStutter DEF vars, data, Contract!vars
  <1>7. QED
    BY <1>1, <1>2, <1>3, <1>4, <1>5, <1>6 DEF Next

(* To its callers the store is a map from family names to maps: each call   *)
(* applies all of its operations, in their order, or none, whatever the     *)
(* numbers, ids, snapshots and handles behind it do.                        *)
THEOREM StoreIsAMap == Spec => ImplementsKvStore
  BY StepRefined, StoreTypes, InitRefined, PTL
  DEF Spec, ImplementsKvStore, Contract!Spec
===============================================================================
