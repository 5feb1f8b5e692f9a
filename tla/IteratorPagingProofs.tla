------------------------- MODULE IteratorPagingProofs -------------------------
(***************************************************************************)
(* For any finite set of keys, sizes, bounds and modes: pages and single   *)
(* rows deliver the scan in order and once, within their bounds.  The      *)
(* argument follows the cursor: what is out so far are wanted rows that    *)
(* precede it, and all of those if nothing has failed.                     *)
(***************************************************************************)
EXTENDS IteratorPaging, NumberLemmas, SequenceTheorems

\* The native iterator was made for what was asked.
MadeFor ==
  /\ store \subseteq Keys /\ asked \in Requests /\ mode \in Modes /\ extractor \in BOOLEAN
  /\ mode.name = "prefix" => asked = NoRequest
  /\ from = Bounds(asked).lower /\ to = Bounds(asked).upper

\* The cursor is on the next row: all rows that are out precede it, and they
\* are all such rows if nothing failed.
CursorIsNext ==
  /\ cursor \in Keys => /\ cursor \in Wanted /\ ~done
                        /\ \A i \in DOMAIN Out : Precedes(Out[i], cursor)
  /\ faults = 0 => /\ cursor # Failed
                   /\ {Out[i] : i \in DOMAIN Out}
                        = {k \in Wanted : cursor \in Keys => Precedes(k, cursor)}

\* The page that is being filled keeps the bounds, and its bytes are counted.
PageSoFar ==
  call = "take" =>
    /\ bytes = Total(rows) /\ Len(rows) <= limits.entries
    /\ limits.bytes # None => bytes <= limits.bytes \/ Len(rows) = 1

PagingIInv == /\ TypeOK /\ MadeFor /\ CursorIsNext /\ NeverTwice /\ NoGapNoRepeat
              /\ PageSoFar /\ PageWithinBounds /\ MoreHasRows /\ EndIsComplete

-----------------------------------------------------------------------------
(* Where the native iterator goes. *)

(* The bounds the native iterator was given are those the scan is about. *)
LEMMA WantedIsSeen ==
  ASSUME MadeFor
  PROVE  /\ Wanted = {k \in Visible : mode.key # None =>
                        IF Backwards THEN k <= mode.key ELSE k >= mode.key}
         /\ Visible \subseteq store /\ Visible \in SUBSET Nat /\ IsFiniteSet(Visible)
         /\ \A j, k : Precedes(j, k) <=> IF Backwards THEN j > k ELSE j < k
  <1>1. Visible \subseteq store /\ store \subseteq Keys /\ Keys \subseteq Nat
    BY PagingAssumption DEF Visible, MadeFor
  <1>2. IsFiniteSet(Visible) /\ Visible \in SUBSET Nat
    BY <1>1, PagingAssumption, FS_Subset
  <1>3. \A j, k : Precedes(j, k) <=> IF Backwards THEN j > k ELSE j < k
    BY DEF Precedes, Backwards
  <1>4. /\ asked.from \in Bound /\ asked.to \in Bound /\ asked.lower \in Bound
        /\ asked.upper \in Bound
    BY PagingAssumption DEF MadeFor
  <1>5. ASSUME NEW k \in store
        PROVE  InRange(k) <=>
                 IF asked.from = None /\ asked.to = None
                 THEN (asked.lower = None \/ asked.lower <= k)
                        /\ (asked.upper = None \/ k < asked.upper)
                 ELSE (asked.from = None \/ asked.from <= k)
                        /\ (asked.to = None \/ k < asked.to)
    <2>1. from = Bounds(asked).lower /\ to = Bounds(asked).upper
      BY DEF MadeFor
    <2>2. k \in Nat /\ \A b \in Bound : b # None => b \in Nat
      BY <1>1, PagingAssumption DEF Bound
    <2>3. CASE asked.from = None /\ asked.to = None
      <3>1. from = asked.lower /\ to = asked.upper
        BY <2>1, <2>3 DEF Bounds
      <3>2. QED
        BY <1>4, <2>2, <2>3, <3>1 DEF InRange
    <2>4. CASE ~(asked.from = None /\ asked.to = None)
      <3>1. from = asked.from /\ to = asked.to
        BY <2>1, <2>4 DEF Bounds
      <3>2. QED
        BY <1>4, <2>2, <2>4, <3>1 DEF InRange
    <2>5. QED
      BY <2>3, <2>4
  <1> DEFINE Ranged(k) == IF asked.from = None /\ asked.to = None
                          THEN (asked.lower = None \/ asked.lower <= k)
                                 /\ (asked.upper = None \/ k < asked.upper)
                          ELSE (asked.from = None \/ asked.from <= k)
                                 /\ (asked.to = None \/ k < asked.to)
             Started(k) ==
               CASE mode.name = "from" ->
                      IF mode.dir = "forward" THEN mode.key <= k ELSE k <= mode.key
                 [] mode.name = "prefix" ->
                      mode.key <= k /\ (extractor => PrefixOf[k] = PrefixOf[mode.key])
                 [] OTHER -> TRUE
  <1>6. Wanted = {k \in store : Ranged(k) /\ Started(k)}
    BY DEF Wanted
  <1>7. ASSUME NEW k \in store
        PROVE  Started(k) <=> /\ SamePrefix(k)
                              /\ mode.key # None =>
                                   IF Backwards THEN k <= mode.key ELSE k >= mode.key
    <2>1. k \in Nat /\ None \notin Nat
      BY <1>1, PagingAssumption
    <2>2. CASE mode.name \in {"start", "end"}
      <3>1. mode.key = None
        BY <2>2 DEF MadeFor, Modes
      <3>2. QED
        BY <2>2, <3>1 DEF SamePrefix
    <2>3. CASE mode.name = "from"
      <3>1. mode.key \in Nat /\ mode.dir \in {"forward", "reverse"}
        BY <2>3, PagingAssumption DEF MadeFor, Modes
      <3>2. QED
        BY <2>1, <2>3, <3>1 DEF SamePrefix, Backwards
    <2>4. CASE mode.name = "prefix"
      <3>1. mode.key \in Nat
        BY <2>4, PagingAssumption DEF MadeFor, Modes
      <3>2. QED
        BY <2>1, <2>4, <3>1 DEF SamePrefix, Backwards
    <2>5. mode.name \in {"start", "end", "from", "prefix"}
      BY DEF MadeFor, Modes
    <2>6. QED
      BY <2>2, <2>3, <2>4, <2>5
  <1> DEFINE Begun(k) == mode.key # None =>
                           IF Backwards THEN k <= mode.key ELSE k >= mode.key
  <1> HIDE DEF Ranged, Started, Begun
  <1>8. \A k \in store : (InRange(k) <=> Ranged(k))
                         /\ (Started(k) <=> SamePrefix(k) /\ Begun(k))
    BY <1>5, <1>7 DEF Ranged, Begun
  <1>9. Wanted = {k \in Visible : Begun(k)}
    BY <1>6, <1>8 DEF Visible
  <1>10. QED
    BY <1>1, <1>2, <1>3, <1>9 DEF Begun

(* First finds the row that all others follow. *)
LEMMA FirstIs ==
  ASSUME NEW S \in SUBSET Nat, IsFiniteSet(S),
         \A j, k : Precedes(j, k) <=> IF Backwards THEN j > k ELSE j < k
  PROVE  /\ S = {} => First(S) = End
         /\ S # {} => First(S) \in S /\ \A k \in S : k = First(S) \/ Precedes(First(S), k)
  <1>1. CASE S = {}
    BY <1>1 DEF First
  <1>2. CASE S # {} /\ Backwards
    <2>1. PICK n \in Nat : \A s \in S : s <= n
      BY BoundOfFinite
    <2>2. \E m \in S : \A k \in S : k <= m
      BY <1>2, <2>1, GreatestNumber
    <2>3. First(S) = CHOOSE m \in S : \A k \in S : m >= k
      BY <1>2 DEF First, Max
    <2>4. \E m \in S : \A k \in S : m >= k
      BY <2>2
    <2>5. First(S) \in S /\ \A k \in S : First(S) >= k
      BY <2>3, <2>4
    <2>6. ASSUME NEW k \in S PROVE k = First(S) \/ Precedes(First(S), k)
      <3>1. k \in Nat /\ First(S) \in Nat /\ First(S) >= k
        BY <2>5
      <3>2. Precedes(First(S), k) <=> First(S) > k
        BY <1>2
      <3>3. QED
        BY <3>1, <3>2
    <2>7. QED
      BY <1>2, <2>5, <2>6
  <1>3. CASE S # {} /\ ~Backwards
    <2>1. \E m \in S : \A k \in S : m <= k
      BY <1>3, LeastNumber
    <2>2. First(S) = CHOOSE m \in S : \A k \in S : m <= k
      BY <1>3 DEF First, Min
    <2>3. First(S) \in S /\ \A k \in S : First(S) <= k
      BY <2>1, <2>2
    <2>4. ASSUME NEW k \in S PROVE k = First(S) \/ Precedes(First(S), k)
      <3>1. k \in Nat /\ First(S) \in Nat /\ First(S) <= k
        BY <2>3
      <3>2. Precedes(First(S), k) <=> First(S) < k
        BY <1>3
      <3>3. QED
        BY <3>1, <3>2
    <2>5. QED
      BY <1>3, <2>3, <2>4
  <1>4. QED
    BY <1>1, <1>2, <1>3

\* Wanted rows and their order, as far as the steps need them.
Ordered ==
  /\ Wanted \subseteq Keys /\ Keys \subseteq Nat
  /\ \A i, j, k \in Keys : Precedes(i, j) /\ Precedes(j, k) => Precedes(i, k)
  /\ \A j, k \in Keys : (j = k \/ Precedes(j, k) \/ Precedes(k, j)) /\ ~Precedes(j, j)
  /\ {None, End, Failed} \cap Keys = {} /\ End # Failed

LEMMA RowsAreOrdered == ASSUME MadeFor PROVE Ordered
  <1>1. Visible \subseteq store /\ store \subseteq Keys /\ Keys \subseteq Nat
        /\ Wanted \subseteq Visible
    BY WantedIsSeen, PagingAssumption DEF MadeFor
  <1>2. \A j, k : Precedes(j, k) <=> IF Backwards THEN j > k ELSE j < k
    BY WantedIsSeen
  <1>3. \A i, j, k \in Nat : Precedes(i, j) /\ Precedes(j, k) => Precedes(i, k)
    BY <1>2
  <1>4. \A j, k \in Nat : (j = k \/ Precedes(j, k) \/ Precedes(k, j)) /\ ~Precedes(j, j)
    BY <1>2
  <1>5. {None, End, Failed} \cap Nat = {} /\ End # Failed
    BY PagingAssumption
  <1>6. QED
    BY <1>1, <1>3, <1>4, <1>5 DEF Ordered

(* The native iterator starts on the first wanted row. *)
LEMMA SeekFirst ==
  ASSUME MadeFor
  PROVE  /\ Wanted = {} => Seek = End
         /\ Wanted # {} => Seek \in Wanted /\ \A k \in Wanted : k = Seek \/ Precedes(Seek, k)
  <1>1. Seek = First(Wanted)
    <2>1. Wanted = {k \in Visible : mode.key # None =>
                      IF Backwards THEN k <= mode.key ELSE k >= mode.key}
      BY WantedIsSeen
    <2>2. CASE mode.key = None
      BY <2>1, <2>2 DEF Seek
    <2>3. CASE mode.key # None
      <3>1. Wanted = {k \in Visible : IF Backwards THEN k <= mode.key ELSE k >= mode.key}
        BY <2>1, <2>3
      <3>2. QED
        BY <2>3, <3>1 DEF Seek
    <2>4. QED
      BY <2>2, <2>3
  <1>2. Wanted \in SUBSET Nat /\ IsFiniteSet(Wanted)
    BY WantedIsSeen, FS_Subset
  <1>3. QED
    BY <1>1, <1>2, WantedIsSeen, FirstIs

(* From a wanted row it moves to the next one, and none lies between. *)
LEMMA SuccessorNext ==
  ASSUME MadeFor, NEW c \in Wanted
  PROVE  /\ Successor(c) = End \/ (Successor(c) \in Wanted /\ Precedes(c, Successor(c)))
         /\ \A k \in Wanted :
              (Successor(c) \in Keys => Precedes(k, Successor(c))) <=> k = c \/ Precedes(k, c)
  <1> DEFINE later == {j \in Visible : IF Backwards THEN j < c ELSE j > c}
  <1>1. /\ Wanted = {k \in Visible : mode.key # None =>
                       IF Backwards THEN k <= mode.key ELSE k >= mode.key}
        /\ Visible \subseteq Keys /\ Visible \in SUBSET Nat
        /\ \A j, k : Precedes(j, k) <=> IF Backwards THEN j > k ELSE j < k
    BY WantedIsSeen DEF MadeFor
  <1>2. later \in SUBSET Nat /\ IsFiniteSet(later)
    BY WantedIsSeen, FS_Subset
  <1>3. c \in Nat /\ mode.key \in Nat \cup {None} /\ End \notin Keys
    BY <1>1, PagingAssumption DEF MadeFor, Modes
  <1>4. later = {j \in Wanted : Precedes(c, j)}
    <2>1. \A j \in Nat : Precedes(c, j) <=> IF Backwards THEN j < c ELSE j > c
      BY <1>1, <1>3
    <2>2. mode.key # None => IF Backwards THEN c <= mode.key ELSE c >= mode.key
      BY <1>1
    <2>3. ASSUME NEW j \in Visible, IF Backwards THEN j < c ELSE j > c PROVE j \in Wanted
      <3>1. j \in Nat
        BY <1>1
      <3>2. mode.key # None => IF Backwards THEN j <= mode.key ELSE j >= mode.key
        BY <1>3, <2>2, <2>3, <3>1
      <3>3. QED
        BY <1>1, <3>2
    <2>4. Wanted \subseteq Visible
      BY <1>1
    <2>5. QED
      BY <1>1, <2>1, <2>3, <2>4
  <1> HIDE DEF later
  <1>5. Successor(c) = First(later)
    BY DEF Successor, later
  <1>6. CASE later = {}
    <2>1. Successor(c) = End
      BY <1>1, <1>2, <1>5, <1>6, FirstIs
    <2>2. \A k \in Wanted : k \in Keys /\ ~Precedes(c, k)
      BY <1>4, <1>6, RowsAreOrdered DEF Ordered
    <2>3. \A k \in Wanted : k = c \/ Precedes(k, c)
      BY <2>2, RowsAreOrdered DEF Ordered
    <2>4. Successor(c) \notin Keys
      BY <1>3, <2>1
    <2>5. QED
      BY <2>1, <2>3, <2>4
  <1>7. CASE later # {}
    <2>1. PICK n : n = Successor(c) /\ n \in later /\ \A k \in later : k = n \/ Precedes(n, k)
      BY <1>1, <1>2, <1>5, <1>7, FirstIs
    <2>2. n \in Wanted /\ Precedes(c, n) /\ n \in Keys
      BY <1>1, <1>4, <2>1
    <2>3. ASSUME NEW k \in Wanted PROVE Precedes(k, n) <=> k = c \/ Precedes(k, c)
      <3>1. Precedes(c, k) => k = n \/ Precedes(n, k)
        BY <1>4, <2>1
      <3>2. QED
        BY <2>2, <3>1, RowsAreOrdered DEF Ordered
    <2>4. QED
      BY <2>1, <2>2, <2>3
  <1>8. QED
    BY <1>6, <1>7
-----------------------------------------------------------------------------
(* What is out, and how a step changes it. *)

LEMMA OneMore ==
  ASSUME NEW S, NEW s \in Seq(S), NEW x \in S, NEW t, t = s \o <<x>>
  PROVE  /\ t \in Seq(S) /\ t = Append(s, x) /\ Len(t) = Len(s) + 1 /\ Len(s) \in Nat
         /\ DOMAIN s = 1 .. Len(s) /\ DOMAIN t = 1 .. Len(s) + 1
         /\ t[Len(s) + 1] = x /\ \A i \in 1 .. Len(s) : t[i] = s[i]
  <1>1. t = Append(s, x)
    OBVIOUS
  <1>2. QED
    BY <1>1

LEMMA OutTyped == ASSUME TypeOK PROVE Out \in Seq(Keys) /\ InFlight \in Seq(Keys)
  <1>1. InFlight \in Seq(Keys) /\ Carried \in Seq(Keys) /\ delivered \in Seq(Keys)
    BY DEF TypeOK, InFlight, Carried
  <1>2. QED
    BY <1>1 DEF Out

\* The rows s are out when the cursor is at c and f failures have happened.
Aligned(s, c, f) ==
  /\ \A i, j \in DOMAIN s : i < j => Precedes(s[i], s[j])
  /\ c \in Keys => c \in Wanted /\ \A i \in DOMAIN s : Precedes(s[i], c)
  /\ f = 0 => /\ c # Failed
              /\ {s[i] : i \in DOMAIN s} = {k \in Wanted : c \in Keys => Precedes(k, c)}
              /\ \A i \in DOMAIN s :
                   s[i] \in Wanted
                   /\ {s[j] : j \in 1 .. (i - 1)} = {k \in Wanted : Precedes(k, s[i])}

LEMMA AlignedIs ==
  Aligned(Out, cursor, faults) /\ (cursor \in Keys => ~done)
    <=> CursorIsNext /\ NeverTwice /\ NoGapNoRepeat
  BY DEF Aligned, CursorIsNext, NeverTwice, NoGapNoRepeat

(* The view of the store, and so what is wanted, never changes. *)
LEMMA ViewKept ==
  ASSUME UNCHANGED view
  PROVE  /\ UNCHANGED Wanted /\ UNCHANGED <<store, asked, from, to, mode, extractor>>
         /\ \A s, c, f : Aligned(s, c, f)' <=> Aligned(s, c, f)
         /\ \A c : Successor(c)' = Successor(c)
         /\ MadeFor' <=> MadeFor
  <1>1. UNCHANGED <<store, asked, from, to, mode, extractor>>
    BY DEF view
  <1>2. UNCHANGED Wanted
    BY <1>1 DEF Wanted
  <1>3. \A j, k : Precedes(j, k)' <=> Precedes(j, k)
    BY <1>1 DEF Precedes
  <1>4. \A s, c, f : Aligned(s, c, f)' <=> Aligned(s, c, f)
    BY <1>2, <1>3 DEF Aligned
  <1>5. UNCHANGED Visible /\ (Backwards' <=> Backwards)
    BY <1>1 DEF Visible, InRange, SamePrefix, Backwards
  <1>6. \A c : Successor(c)' = Successor(c)
    BY <1>5 DEF Successor, First
  <1>7. MadeFor' <=> MadeFor
    BY <1>1 DEF MadeFor, Bounds
  <1>8. QED
    BY <1>1, <1>2, <1>4, <1>6, <1>7

(* The row under the cursor goes out and the cursor moves on. *)
LEMMA AlignedMoves ==
  ASSUME TypeOK, MadeFor, NEW s \in Seq(Keys), NEW c \in Keys, NEW f, Aligned(s, c, f)
  PROVE  /\ Aligned(s \o <<c>>, Successor(c), f)
         /\ \A g : g # 0 => Aligned(s \o <<c>>, Failed, g)
  <1> DEFINE t == s \o <<c>>
             n == Len(s)
  <1>1. Ordered /\ c \in Wanted
    BY RowsAreOrdered DEF Aligned
  <1>2. /\ n \in Nat /\ DOMAIN s = 1 .. n /\ DOMAIN t = 1 .. n + 1
        /\ t[n + 1] = c /\ \A i \in 1 .. n : t[i] = s[i] /\ s[i] \in Keys
    BY OneMore
  <1> HIDE DEF t, n
  <1>3. \A i \in 1 .. n + 1 : i \in 1 .. n \/ i = n + 1
    BY <1>2
  <1>4. \A i \in 1 .. n : Precedes(s[i], c)
    BY <1>2 DEF Aligned
  <1>5. ASSUME NEW i \in DOMAIN t, NEW j \in DOMAIN t, i < j PROVE Precedes(t[i], t[j])
    <2>1. i \in 1 .. n
      BY <1>2, <1>5
    <2>2. CASE j \in 1 .. n
      BY <1>2, <1>5, <2>1, <2>2 DEF Aligned
    <2>3. CASE j = n + 1
      BY <1>2, <1>4, <2>1, <2>3
    <2>4. QED
      BY <1>2, <1>3, <2>2, <2>3
  <1>6. /\ Successor(c) = End \/ (Successor(c) \in Wanted /\ Precedes(c, Successor(c)))
        /\ \A k \in Wanted :
             (Successor(c) \in Keys => Precedes(k, Successor(c))) <=> k = c \/ Precedes(k, c)
    BY <1>1, SuccessorNext
  <1>7. PICK e : e = Successor(c)
    OBVIOUS
  <1>8. e \in Keys => e \in Wanted /\ \A i \in DOMAIN t : Precedes(t[i], e)
    <2>1. SUFFICES ASSUME e \in Keys
                   PROVE  e \in Wanted /\ \A i \in DOMAIN t : Precedes(t[i], e)
      OBVIOUS
    <2>2. e \in Wanted /\ Precedes(c, e)
      BY <1>1, <1>6, <1>7, <2>1 DEF Ordered
    <2>3. ASSUME NEW i \in 1 .. n PROVE Precedes(s[i], e)
      <3>1. s[i] \in Keys /\ Precedes(s[i], c)
        BY <1>2, <1>4
      <3>2. QED
        BY <1>1, <2>1, <2>2, <3>1 DEF Ordered
    <2>4. QED
      BY <1>2, <1>3, <2>2, <2>3
  <1>9. ASSUME f = 0
        PROVE  /\ e # Failed
               /\ {t[i] : i \in DOMAIN t} = {k \in Wanted : e \in Keys => Precedes(k, e)}
               /\ \A i \in DOMAIN t :
                    t[i] \in Wanted
                    /\ {t[j] : j \in 1 .. (i - 1)} = {k \in Wanted : Precedes(k, t[i])}
    <2>1. /\ {s[i] : i \in DOMAIN s} = {k \in Wanted : Precedes(k, c)}
          /\ \A i \in DOMAIN s :
               s[i] \in Wanted
               /\ {s[j] : j \in 1 .. (i - 1)} = {k \in Wanted : Precedes(k, s[i])}
      BY <1>9 DEF Aligned
    <2>2. e # Failed
      BY <1>1, <1>6, <1>7 DEF Ordered
    <2>3. {t[i] : i \in DOMAIN t} = {s[i] : i \in DOMAIN s} \cup {c}
      <3>1. \A i \in DOMAIN t : t[i] \in {s[j] : j \in DOMAIN s} \cup {c}
        BY <1>2, <1>3
      <3>2. \A i \in DOMAIN s : i \in DOMAIN t /\ s[i] = t[i]
        BY <1>2
      <3>3. n + 1 \in DOMAIN t /\ t[n + 1] = c
        BY <1>2
      <3>4. QED
        BY <3>1, <3>2, <3>3
    <2>4. {k \in Wanted : e \in Keys => Precedes(k, e)} = {k \in Wanted : Precedes(k, c)} \cup {c}
      BY <1>1, <1>6, <1>7
    <2>5. ASSUME NEW i \in DOMAIN t
          PROVE  t[i] \in Wanted
                 /\ {t[j] : j \in 1 .. (i - 1)} = {k \in Wanted : Precedes(k, t[i])}
      <3>1. \A j \in 1 .. (i - 1) : j \in 1 .. n /\ t[j] = s[j]
        BY <1>2, <2>5
      <3>2. {t[j] : j \in 1 .. (i - 1)} = {s[j] : j \in 1 .. (i - 1)}
        BY <3>1
      <3>3. CASE i \in 1 .. n
        BY <1>2, <2>1, <3>2, <3>3
      <3>4. CASE i = n + 1
        <4>1. 1 .. (i - 1) = DOMAIN s /\ t[i] = c
          BY <1>2, <3>4
        <4>2. QED
          BY <1>1, <2>1, <3>2, <4>1
      <3>5. QED
        BY <1>2, <1>3, <3>3, <3>4
    <2>6. QED
      BY <2>1, <2>2, <2>3, <2>4, <2>5
  <1>10. Aligned(t, e, f)
    BY <1>5, <1>8, <1>9 DEF Aligned
  <1>11. Failed \notin Keys
    BY <1>1 DEF Ordered
  <1>12. \A g : g # 0 => Aligned(t, Failed, g)
    BY <1>5, <1>11 DEF Aligned
  <1>13. QED
    BY <1>7, <1>10, <1>12 DEF t

(* After a failure rows may be missing at the end of what is out. *)
LEMMA AlignedDrops ==
  ASSUME NEW p \in Seq(Keys), NEW q \in Seq(Keys), NEW c, NEW f, NEW g,
         Aligned(p \o q, c, f), g # 0
  PROVE  Aligned(p, c, g)
  <1>1. DOMAIN p \subseteq DOMAIN (p \o q) /\ \A i \in DOMAIN p : (p \o q)[i] = p[i]
    BY ConcatProperties, LenProperties
  <1>2. QED
    BY <1>1 DEF Aligned


\* The row under the cursor goes out, nothing does, or a failure drops what
\* was not delivered yet.
OutMoves ==
  \/ /\ cursor \in Keys /\ ~done /\ Out' = Out \o <<cursor>> /\ done' = done
     /\ \/ cursor' = Successor(cursor) /\ faults' = faults
        \/ cursor' = Failed /\ faults' = faults + 1
  \/ /\ Out' = Out /\ cursor' = cursor /\ faults' = faults
     /\ done' = done \/ cursor \notin Keys
  \/ /\ Out' = delivered /\ faults' # 0
     /\ \/ cursor' = cursor /\ (done' = done \/ cursor \notin Keys)
        \/ cursor \in Keys /\ ~done /\ cursor' = Successor(cursor) /\ done' = done

LEMMA AlignedNext ==
  ASSUME TypeOK, MadeFor, CursorIsNext, NeverTwice, NoGapNoRepeat, OutMoves, UNCHANGED view
  PROVE  CursorIsNext' /\ NeverTwice' /\ NoGapNoRepeat'
  <1>1. Aligned(Out, cursor, faults) /\ (cursor \in Keys => ~done)
    BY AlignedIs
  <1>2. PICK s, c, f : s = Out' /\ c = cursor' /\ f = faults'
    OBVIOUS
  <1>3. Out \in Seq(Keys) /\ InFlight \in Seq(Keys) /\ Carried \in Seq(Keys)
        /\ delivered \in Seq(Keys) /\ faults \in Nat
    BY OutTyped, PagingAssumption DEF TypeOK, Carried
  <1>4. Out = delivered \o (InFlight \o Carried) /\ InFlight \o Carried \in Seq(Keys)
    BY <1>3, ConcatAssociative, ConcatProperties DEF Out
  <1>5. Aligned(s, c, f)
    <2>1. CASE /\ cursor \in Keys /\ Out' = Out \o <<cursor>>
               /\ \/ cursor' = Successor(cursor) /\ faults' = faults
                  \/ cursor' = Failed /\ faults' = faults + 1
      <3>1. /\ Aligned(Out \o <<cursor>>, Successor(cursor), faults)
            /\ \A g : g # 0 => Aligned(Out \o <<cursor>>, Failed, g)
        BY <1>1, <1>3, <2>1, AlignedMoves
      <3>2. faults + 1 # 0
        BY <1>3
      <3>3. QED
        BY <1>2, <2>1, <3>1, <3>2
    <2>2. CASE Out' = Out /\ cursor' = cursor /\ faults' = faults
      BY <1>1, <1>2, <2>2
    <2>3. CASE Out' = delivered /\ faults' # 0 /\ cursor' = cursor
      BY <1>1, <1>2, <1>3, <1>4, <2>3, AlignedDrops
    <2>4. CASE /\ Out' = delivered /\ faults' # 0
               /\ cursor \in Keys /\ cursor' = Successor(cursor)
      <3>1. Aligned(Out \o <<cursor>>, Successor(cursor), faults)
        BY <1>1, <1>3, <2>4, AlignedMoves
      <3>2. <<cursor>> \in Seq(Keys)
        BY <2>4
      <3>3. Out \o <<cursor>> = delivered \o ((InFlight \o Carried) \o <<cursor>>)
            /\ (InFlight \o Carried) \o <<cursor>> \in Seq(Keys)
        <4>1. PICK d, r, x : d = delivered /\ r = InFlight \o Carried /\ x = <<cursor>>
          OBVIOUS
        <4>2. d \in Seq(Keys) /\ r \in Seq(Keys) /\ x \in Seq(Keys) /\ Out = d \o r
          BY <1>3, <1>4, <3>2, <4>1
        <4>3. (d \o r) \o x = d \o (r \o x)
          BY <4>2, ConcatAssociative
        <4>4. r \o x \in Seq(Keys)
          BY <4>2, ConcatProperties
        <4>5. QED
          BY <4>1, <4>2, <4>3, <4>4
      <3>4. QED
        BY <1>2, <1>3, <2>4, <3>1, <3>3, AlignedDrops
    <2>5. QED
      BY <2>1, <2>2, <2>3, <2>4 DEF OutMoves
  <1>6. Aligned(Out, cursor, faults)'
    <2>1. Aligned(s, c, f)'
      BY <1>5, ViewKept
    <2>2. QED
      BY <1>2, <2>1
  <1>7. cursor' \in Keys => ~done'
    <2>1. Failed \notin Keys
      BY RowsAreOrdered DEF Ordered
    <2>2. QED
      BY <1>1, <2>1 DEF OutMoves
  <1>8. (CursorIsNext /\ NeverTwice /\ NoGapNoRepeat)'
    <2>1. (Aligned(Out, cursor, faults) /\ (cursor \in Keys => ~done))'
      BY <1>6, <1>7
    <2>2. (Aligned(Out, cursor, faults) /\ (cursor \in Keys => ~done)
             <=> CursorIsNext /\ NeverTwice /\ NoGapNoRepeat)'
      BY DEF Aligned, CursorIsNext, NeverTwice, NoGapNoRepeat
    <2>3. QED
      BY <2>1, <2>2
  <1>9. QED
    BY <1>8

(* The sums of a page, row by row. *)
LEMMA TotalOf ==
  ASSUME NEW s \in Seq(Keys)
  PROVE  \E sum \in [0 .. Len(s) -> Nat] :
           /\ sum[0] = 0 /\ Total(s) = sum[Len(s)]
           /\ \A i \in 1 .. Len(s) : sum[i] = sum[i - 1] + Size[s[i]]
  <1> DEFINE IsSum(sum) == sum = [i \in 0 .. Len(s) |->
                                    IF i = 0 THEN 0 ELSE sum[i - 1] + Size[s[i]]]
             Upto(m, g) == /\ g \in [0 .. m -> Nat] /\ g[0] = 0
                           /\ \A i \in 1 .. m : g[i] = g[i - 1] + Size[s[i]]
             Has(m) == m <= Len(s) => \E g : Upto(m, g)
             Defined == {m \in Nat : Has(m)}
  <1> HIDE DEF Has
  <1>1. Len(s) \in Nat /\ \A i \in 1 .. Len(s) : Size[s[i]] \in Nat
    <2>1. Size \in [Keys -> Nat]
      BY PagingAssumption
    <2>2. Len(s) \in Nat /\ \A i \in 1 .. Len(s) : s[i] \in Keys
      OBVIOUS
    <2>3. QED
      BY <2>1, <2>2
  <1>2. 0 \in Defined
    <2>1. Upto(0, [i \in 0 .. 0 |-> 0])
      OBVIOUS
    <2>2. Has(0)
      BY <2>1 DEF Has
    <2>3. QED
      BY <2>2
  <1>3. ASSUME NEW m \in Nat, m \in Defined, m + 1 <= Len(s)
        PROVE  \E g : Upto(m + 1, g)
    <2>1. PICK g : Upto(m, g)
      <3>1. Has(m) /\ m <= Len(s)
        BY <1>1, <1>3
      <3>2. QED
        BY <3>1 DEF Has
    <2> DEFINE h == [i \in 0 .. m + 1 |-> IF i = m + 1 THEN g[m] + Size[s[m + 1]] ELSE g[i]]
    <2>2. g[m] \in Nat /\ Size[s[m + 1]] \in Nat
      BY <1>1, <1>3, <2>1
    <2>3. h \in [0 .. m + 1 -> Nat] /\ h[0] = 0
      BY <2>1, <2>2
    <2>4. ASSUME NEW i \in 1 .. m + 1 PROVE h[i] = h[i - 1] + Size[s[i]]
      <3>1. CASE i = m + 1
        BY <3>1
      <3>2. CASE i # m + 1
        BY <2>1, <3>2
      <3>3. QED
        BY <3>1, <3>2
    <2>5. Upto(m + 1, h)
      BY <2>3, <2>4
    <2>6. QED
      BY <2>5
  <1>4. \A m \in Nat : m \in Defined => m + 1 \in Defined
    <2> SUFFICES ASSUME NEW m \in Nat, m \in Defined PROVE Has(m + 1)
      OBVIOUS
    <2>1. m + 1 <= Len(s) => \E g : Upto(m + 1, g)
      BY <1>3
    <2>2. QED
      BY <2>1 DEF Has
  <1>5. Nat \subseteq Defined
    <2> HIDE DEF Defined
    <2>1. QED
      BY <1>2, <1>4, InductionSet
  <1>6. PICK g : Upto(Len(s), g)
    <2>1. Has(Len(s)) /\ Len(s) <= Len(s)
      BY <1>1, <1>5
    <2>2. QED
      BY <2>1 DEF Has
  <1>7. IsSum(g)
    <2> DEFINE E(i) == IF i = 0 THEN 0 ELSE g[i - 1] + Size[s[i]]
    <2>1. g = [i \in 0 .. Len(s) |-> g[i]]
      BY <1>6
    <2>2. ASSUME NEW i \in 0 .. Len(s) PROVE g[i] = E(i)
      <3>1. CASE i = 0
        BY <1>6, <3>1
      <3>2. CASE i # 0
        BY <1>6, <3>2
      <3>3. QED
        BY <3>1, <3>2
    <2> HIDE DEF E
    <2>3. g = [i \in 0 .. Len(s) |-> E(i)]
      BY <2>1, <2>2
    <2>4. QED
      BY <2>3 DEF E
  <1>8. PICK sum : sum = (CHOOSE d : IsSum(d)) /\ Total(s) = sum[Len(s)]
    BY DEF Total
  <1>9. IsSum(sum)
    BY <1>7, <1>8
  <1>10. DOMAIN sum = 0 .. Len(s) /\ sum[0] = 0
         /\ \A i \in 1 .. Len(s) : sum[i] = sum[i - 1] + Size[s[i]]
    <2>1. DOMAIN sum = 0 .. Len(s)
      BY <1>9
    <2>2. 0 \in 0 .. Len(s)
      BY <1>1
    <2>3. sum[0] = 0
      BY <1>9, <2>2, Zenon
    <2>4. ASSUME NEW i \in 1 .. Len(s) PROVE sum[i] = sum[i - 1] + Size[s[i]]
      <3>1. i \in 0 .. Len(s) /\ i # 0
        OBVIOUS
      <3>2. QED
        BY <1>9, <3>1
    <2>5. QED
      BY <2>1, <2>3, <2>4
  <1> DEFINE Same == {m \in Nat : m <= Len(s) => sum[m] \in Nat}
  <1>11. 0 \in Same
    BY <1>10
  <1>12. ASSUME NEW m \in Nat, m \in Same, m + 1 <= Len(s) PROVE sum[m + 1] \in Nat
    <2>1. m + 1 \in 1 .. Len(s) /\ (m + 1) - 1 = m /\ sum[m] \in Nat
      BY <1>1, <1>12
    <2>2. QED
      BY <1>1, <1>10, <2>1
  <1>13. \A m \in Nat : m \in Same => m + 1 \in Same
    BY <1>12
  <1>14. Nat \subseteq Same
    <2> HIDE DEF Same
    <2>1. QED
      BY <1>11, <1>13, InductionSet
  <1> HIDE DEF IsSum
  <1>15. \A i \in 0 .. Len(s) : sum[i] \in Nat
    BY <1>1, <1>14
  <1>16. sum = [i \in 0 .. Len(s) |-> sum[i]]
    BY <1>9 DEF IsSum
  <1>17. sum \in [0 .. Len(s) -> Nat]
    BY <1>15, <1>16
  <1>18. QED
    BY <1>8, <1>10, <1>17

(* A row adds its size to the total of the page. *)
LEMMA TotalGrows ==
  ASSUME NEW s \in Seq(Keys), NEW k \in Keys
  PROVE  /\ Total(s) \in Nat /\ Total(Append(s, k)) = Total(s) + Size[k]
         /\ Total(<<>>) = 0
  <1> DEFINE t == Append(s, k)
             n == Len(s)
  <1>1. /\ n \in Nat /\ t \in Seq(Keys) /\ Len(t) = n + 1 /\ t[n + 1] = k
        /\ \A i \in 1 .. n : t[i] = s[i]
    OBVIOUS
  <1> HIDE DEF t, n
  <1>2. PICK a \in [0 .. n -> Nat] :
          /\ a[0] = 0 /\ Total(s) = a[n]
          /\ \A i \in 1 .. n : a[i] = a[i - 1] + Size[s[i]]
    BY TotalOf DEF n
  <1>3. PICK b \in [0 .. n + 1 -> Nat] :
          /\ b[0] = 0 /\ Total(t) = b[n + 1]
          /\ \A i \in 1 .. n + 1 : b[i] = b[i - 1] + Size[t[i]]
    <2>1. PICK b \in [0 .. Len(t) -> Nat] :
            /\ b[0] = 0 /\ Total(t) = b[Len(t)]
            /\ \A i \in 1 .. Len(t) : b[i] = b[i - 1] + Size[t[i]]
      BY <1>1, TotalOf
    <2>2. QED
      BY <1>1, <2>1
  <1> DEFINE Same == {m \in Nat : m <= n => a[m] = b[m]}
  <1>4. 0 \in Same
    BY <1>2, <1>3
  <1>5. ASSUME NEW m \in Nat, m \in Same, m + 1 <= n PROVE a[m + 1] = b[m + 1]
    <2>1. m + 1 \in 1 .. n /\ m + 1 \in 1 .. n + 1 /\ (m + 1) - 1 = m /\ a[m] = b[m]
      BY <1>1, <1>5
    <2>2. a[m + 1] = a[m] + Size[s[m + 1]]
      BY <1>2, <2>1
    <2>3. b[m + 1] = b[m] + Size[t[m + 1]]
      BY <1>3, <2>1
    <2>4. t[m + 1] = s[m + 1]
      BY <1>1, <2>1
    <2>5. QED
      BY <2>1, <2>2, <2>3, <2>4
  <1>6. \A m \in Nat : m \in Same => m + 1 \in Same
    BY <1>5
  <1>7. Nat \subseteq Same
    <2> HIDE DEF Same
    <2>1. QED
      BY <1>4, <1>6, InductionSet
  <1>8. a[n] = b[n] /\ a[n] \in Nat
    BY <1>1, <1>2, <1>7
  <1>9. n + 1 \in 1 .. n + 1 /\ (n + 1) - 1 = n
    BY <1>1
  <1>10. b[n + 1] = b[n] + Size[k]
    BY <1>1, <1>3, <1>9
  <1>11. Total(<<>>) = 0
    <2>1. <<>> \in Seq(Keys) /\ Len(<<>>) = 0
      OBVIOUS
    <2>2. QED
      BY <2>1, TotalOf
  <1>12. QED
    BY <1>2, <1>3, <1>8, <1>10, <1>11 DEF t
-----------------------------------------------------------------------------
(* The invariant, one lemma for each kind of step. *)

(* A row is taken from where it is, and the native iterator moves with it. *)
LEMMA AdvanceMoves ==
  ASSUME PagingIInv, OnRow, Advance
  PROVE  /\ Row \in Keys /\ Row # None /\ done' = done
         /\ cursor' \in Keys \cup {End, Failed} /\ faults' \in 0 .. MaxFaults
         /\ \/ pending # None /\ Row = pending /\ cursor' = cursor /\ faults' = faults
            \/ /\ pending = None /\ Row = cursor /\ cursor \in Keys /\ ~done
               /\ \/ cursor' = Successor(cursor) /\ faults' = faults
                  \/ cursor' = Failed /\ faults' = faults + 1
  <1>1. TypeOK /\ MadeFor /\ CursorIsNext
    BY DEF PagingIInv
  <1>2. /\ faults \in Nat /\ faults <= MaxFaults /\ MaxFaults \in Nat
        /\ pending \in Keys \cup {None} /\ cursor \in Keys \cup {End, Failed}
        /\ None \notin Keys
    BY <1>1, PagingAssumption, RowsAreOrdered DEF TypeOK, Ordered
  <1>3. cursor \in Keys => Successor(cursor) \in Keys \cup {End}
    BY <1>1, SuccessorNext, RowsAreOrdered DEF CursorIsNext, Ordered
  <1>4. CASE pending # None
    BY <1>2, <1>4 DEF OnRow, Row, Advance
  <1>5. CASE pending = None
    <2>1. cursor \in Keys /\ ~done /\ Row = cursor
      BY <1>5 DEF OnRow, Row
    <2>2. /\ done' = done
          /\ \/ cursor' = Successor(cursor) /\ faults' = faults
             \/ faults < MaxFaults /\ faults' = faults + 1 /\ cursor' = Failed
      BY <1>5 DEF Advance
    <2>3. faults' \in 0 .. MaxFaults
      BY <1>2, <2>2
    <2>4. QED
      BY <1>2, <1>3, <1>5, <2>1, <2>2, <2>3
  <1>6. QED
    BY <1>4, <1>5

(* The allocation for a row fails: the row is gone, the page as well. *)
LEMMA LostMoves ==
  ASSUME PagingIInv, OnRow, Lost, Out' = delivered
  PROVE  /\ OutMoves /\ pending' = None /\ done' = done
         /\ cursor' \in Keys \cup {End, Failed} /\ faults' \in 0 .. MaxFaults
  <1>1. TypeOK /\ MadeFor /\ CursorIsNext
    BY DEF PagingIInv
  <1>2. /\ faults \in Nat /\ MaxFaults \in Nat /\ cursor \in Keys \cup {End, Failed}
    BY <1>1, PagingAssumption DEF TypeOK
  <1>3. faults' \in 0 .. MaxFaults /\ faults' # 0 /\ pending' = None /\ done' = done
    BY <1>2 DEF Lost
  <1>4. \/ pending # None /\ cursor' = cursor
        \/ cursor \in Keys /\ ~done /\ cursor' = Successor(cursor)
    BY DEF Lost, OnRow
  <1>5. cursor \in Keys => Successor(cursor) \in Keys \cup {End}
    BY <1>1, SuccessorNext, RowsAreOrdered DEF CursorIsNext, Ordered
  <1>6. cursor' \in Keys \cup {End, Failed}
    BY <1>2, <1>4, <1>5
  <1>7. OutMoves
    BY <1>3, <1>4 DEF OutMoves
  <1>8. QED
    BY <1>3, <1>6, <1>7

(* A call that answers leaves the invariant, if its page is within bounds. *)
LEMMA AnswerKeeps ==
  ASSUME PagingIInv, NEW status \in {"row", "more", "end_of_iterator", "error", "badarg",
                                    "refused"},
         NEW page \in Seq(Keys), Answer(status, page), OutMoves,
         done' \in BOOLEAN, pending' \in Keys \cup {None},
         cursor' \in Keys \cup {End, Failed}, faults' \in 0 .. MaxFaults,
         status = "more" => page # <<>>,
         status \in {"more", "end_of_iterator"} =>
           /\ Len(page) <= limits.entries
           /\ limits.bytes # None => Total(page) <= limits.bytes \/ Len(page) = 1,
         status = "end_of_iterator" =>
           /\ Out' = Out /\ faults' = faults /\ cursor \notin Keys /\ pending' = None
  PROVE  PagingIInv'
  <1>1. TypeOK /\ MadeFor /\ CursorIsNext /\ NeverTwice /\ NoGapNoRepeat
    BY DEF PagingIInv
  <1>2. /\ call' = "idle" /\ reply' = status /\ rows' = page
        /\ delivered' = delivered \o page /\ bytes' = 0
        /\ UNCHANGED view /\ UNCHANGED limits
    BY DEF Answer
  <1>3. UNCHANGED <<store, asked, from, to, mode, extractor>> /\ UNCHANGED Wanted
        /\ (MadeFor' <=> MadeFor)
    BY <1>2, ViewKept
  <1>4. delivered' \in Seq(Keys)
    BY <1>1, <1>2, ConcatProperties DEF TypeOK
  <1>5. TypeOK'
    BY <1>1, <1>2, <1>3, <1>4 DEF TypeOK
  <1>6. CursorIsNext' /\ NeverTwice' /\ NoGapNoRepeat'
    BY <1>1, <1>2, AlignedNext
  <1>7. PageSoFar' /\ PageWithinBounds' /\ MoreHasRows'
    BY <1>2 DEF PageSoFar, PageWithinBounds, MoreHasRows, Total
  <1>8. EndIsComplete'
    <2> SUFFICES ASSUME status = "end_of_iterator", faults' = 0
                 PROVE  {delivered'[i] : i \in DOMAIN delivered'} = Wanted
      BY <1>2, <1>3 DEF EndIsComplete
    <2>1. Out' = Out /\ faults = 0 /\ cursor \notin Keys /\ pending' = None
      OBVIOUS
    <2>2. Out' = delivered'
      <3>1. InFlight' = <<>> /\ Carried' = <<>>
        BY <1>2, <2>1 DEF InFlight, Carried
      <3>2. QED
        BY <1>4, <3>1, ConcatEmptySeq DEF Out
    <2>3. {Out[i] : i \in DOMAIN Out} = Wanted
      BY <1>1, <2>1 DEF CursorIsNext
    <2>4. QED
      BY <2>1, <2>2, <2>3
  <1>9. QED
    BY <1>1, <1>3, <1>5, <1>6, <1>7, <1>8 DEF PagingIInv

(* What is out, part by part. *)
LEMMA OutIs ==
  ASSUME TypeOK
  PROVE  /\ delivered \in Seq(Keys) /\ rows \in Seq(Keys)
         /\ call = "take" /\ pending = None => Out = delivered \o rows
         /\ call = "take" /\ pending # None => Out = delivered \o rows \o <<pending>>
         /\ call # "take" /\ pending = None => Out = delivered
         /\ call # "take" /\ pending # None => Out = delivered \o <<pending>>
  <1>1. delivered \in Seq(Keys) /\ rows \in Seq(Keys) /\ delivered \o rows \in Seq(Keys)
    BY ConcatProperties DEF TypeOK
  <1>2. delivered \o <<>> = delivered /\ (delivered \o rows) \o <<>> = delivered \o rows
    BY <1>1, ConcatEmptySeq
  <1>3. QED
    BY <1>1, <1>2 DEF Out, InFlight, Carried

LEMMA StartStep == ASSUME PagingIInv, Start PROVE PagingIInv'
  <1>1. TypeOK /\ MadeFor /\ CursorIsNext /\ NeverTwice /\ NoGapNoRepeat
    BY DEF PagingIInv
  <1>2. /\ call = "idle" /\ call' \in {"take", "next"} /\ rows' = <<>>
        /\ UNCHANGED view /\ UNCHANGED reply /\ UNCHANGED delivered
        /\ UNCHANGED cursor /\ UNCHANGED done /\ UNCHANGED pending /\ UNCHANGED faults
        /\ limits' \in [entries : Nat \ {0}, bytes : (Nat \ {0}) \cup {None}]
        /\ bytes' \in Nat /\ (call' = "take" => bytes' = 0)
    <2>1. CASE StartNext
      BY <1>1, <2>1 DEF StartNext, Stay, TypeOK
    <2>2. ASSUME NEW e \in EntryLimits, NEW b \in ByteLimits \cup {None}, StartTake(e, b)
          PROVE  limits' \in [entries : Nat \ {0}, bytes : (Nat \ {0}) \cup {None}]
                 /\ StartTake(e, b)
      <3>1. e \in Nat \ {0} /\ b \in (Nat \ {0}) \cup {None}
        BY PagingAssumption
      <3>2. QED
        BY <2>2, <3>1 DEF StartTake
    <2>3. QED
      BY <2>1, <2>2 DEF Start, StartTake, Stay
  <1>3. UNCHANGED <<store, asked, from, to, mode, extractor>> /\ (MadeFor' <=> MadeFor)
    BY <1>2, ViewKept
  <1>4. TypeOK'
    BY <1>1, <1>2, <1>3 DEF TypeOK
  <1>5. Out' = Out
    <2>1. InFlight' = <<>> /\ InFlight = <<>> /\ Carried' = Carried
      BY <1>2 DEF InFlight, Carried
    <2>2. QED
      BY <1>2, <2>1 DEF Out
  <1>6. CursorIsNext' /\ NeverTwice' /\ NoGapNoRepeat'
    <2>1. OutMoves
      BY <1>2, <1>5 DEF OutMoves
    <2>2. QED
      BY <1>1, <1>2, <2>1, AlignedNext
  <1>7. PageSoFar'
    <2>1. Total(<<>>) = 0
      <3>1. <<>> \in Seq(Keys) /\ Len(<<>>) = 0
        OBVIOUS
      <3>2. QED
        BY <3>1, TotalOf
    <2>2. limits'.entries \in Nat /\ (limits'.bytes # None => limits'.bytes \in Nat)
      BY <1>2
    <2>3. Total(rows)' = Total(rows')
      BY DEF Total
    <2>4. Len(rows') = 0
      BY <1>2
    <2>5. QED
      BY <1>2, <2>1, <2>2, <2>3, <2>4 DEF PageSoFar
  <1>8. PageWithinBounds' /\ MoreHasRows' /\ EndIsComplete'
    BY <1>2 DEF PageWithinBounds, MoreHasRows, EndIsComplete
  <1>9. QED
    BY <1>1, <1>3, <1>4, <1>6, <1>7, <1>8 DEF PagingIInv

LEMMA TakeRowStep == ASSUME PagingIInv, TakeRow PROVE PagingIInv'
  <1>1. TypeOK /\ MadeFor /\ CursorIsNext /\ NeverTwice /\ NoGapNoRepeat /\ PageSoFar
    BY DEF PagingIInv
  <1>2. /\ call = "take" /\ Len(rows) < limits.entries /\ OnRow /\ Fits
        /\ rows' = Append(rows, Row) /\ bytes' = bytes + Size[Row]
        /\ Advance /\ pending' = None
        /\ UNCHANGED view /\ UNCHANGED <<call, limits, reply, delivered>>
    BY DEF TakeRow, Continues, Room, Moved
  <1>3. PICK r : r = Row
    OBVIOUS
  <1>4. /\ r \in Keys /\ done' = done
        /\ cursor' \in Keys \cup {End, Failed} /\ faults' \in 0 .. MaxFaults
        /\ \/ pending # None /\ r = pending /\ cursor' = cursor /\ faults' = faults
           \/ /\ pending = None /\ r = cursor /\ cursor \in Keys /\ ~done
              /\ \/ cursor' = Successor(cursor) /\ faults' = faults
                 \/ cursor' = Failed /\ faults' = faults + 1
    BY <1>2, <1>3, AdvanceMoves
  <1>5. /\ delivered \in Seq(Keys) /\ rows \in Seq(Keys) /\ bytes \in Nat
        /\ rows' = rows \o <<r>> /\ rows' \in Seq(Keys) /\ Size[r] \in Nat
    <2>1. delivered \in Seq(Keys) /\ rows \in Seq(Keys) /\ bytes \in Nat
      BY <1>1 DEF TypeOK
    <2>2. Size[r] \in Nat
      <3>1. Size \in [Keys -> Nat]
        BY PagingAssumption
      <3>2. QED
        BY <1>4, <3>1
    <2>3. rows' = Append(rows, r)
      BY <1>2, <1>3
    <2>4. rows' = rows \o <<r>> /\ rows' \in Seq(Keys)
      <3>1. r \in Keys /\ rows \in Seq(Keys)
        BY <1>4, <2>1
      <3>2. Append(rows, r) = rows \o <<r>> /\ Append(rows, r) \in Seq(Keys)
        BY <3>1, OneMore
      <3>3. QED
        BY <2>3, <3>2
    <2>5. QED
      BY <2>1, <2>2, <2>4
  <1>6. UNCHANGED <<store, asked, from, to, mode, extractor>> /\ (MadeFor' <=> MadeFor)
    BY <1>2, ViewKept
  <1>7. TypeOK'
    BY <1>1, <1>2, <1>3, <1>4, <1>5, <1>6 DEF TypeOK
  <1>8. Out' = (delivered \o rows) \o <<r>>
    <2>1. Out' = delivered \o rows'
      <3>1. InFlight' = rows' /\ Carried' = <<>>
        BY <1>2 DEF InFlight, Carried
      <3>2. delivered \o rows' \in Seq(Keys)
        BY <1>5, ConcatProperties
      <3>3. (delivered \o rows') \o <<>> = delivered \o rows'
        BY <3>2, ConcatEmptySeq
      <3>4. QED
        BY <1>2, <3>1, <3>3 DEF Out
    <2>2. <<r>> \in Seq(Keys)
      BY <1>4
    <2>3. QED
      BY <1>5, <2>1, <2>2, ConcatAssociative
  <1>9. OutMoves
    <2>1. CASE pending = None
      <3>1. Out = delivered \o rows
        BY <1>1, <1>2, <2>1, OutIs
      <3>2. QED
        BY <1>4, <1>8, <2>1, <3>1 DEF OutMoves
    <2>2. CASE pending # None
      <3>1. Out = (delivered \o rows) \o <<pending>>
        BY <1>1, <1>2, <2>2, OutIs
      <3>2. QED
        BY <1>4, <1>8, <2>2, <3>1 DEF OutMoves
    <2>3. QED
      BY <2>1, <2>2
  <1>10. CursorIsNext' /\ NeverTwice' /\ NoGapNoRepeat'
    BY <1>1, <1>2, <1>9, AlignedNext
  <1>11. PageSoFar'
    <2>1. bytes = Total(rows) /\ limits.entries \in Nat
      BY <1>1, <1>2 DEF PageSoFar, TypeOK
    <2>2. Total(rows') = Total(rows) + Size[r] /\ Total(rows)' = Total(rows')
      <3>1. Total(Append(rows, r)) = Total(rows) + Size[r]
        BY <1>4, <1>5, TotalGrows
      <3>2. Total(rows)' = Total(rows')
        BY DEF Total
      <3>3. QED
        BY <1>2, <1>3, <3>1, <3>2
    <2>3. Len(rows') = Len(rows) + 1 /\ Len(rows) \in Nat
      BY <1>5, OneMore, <1>4
    <2>4. CASE rows = <<>>
      <3>1. Len(rows') = 1
        BY <2>3, <2>4
      <3>2. QED
        BY <1>2, <1>3, <2>1, <2>2, <2>3, <3>1 DEF PageSoFar
    <2>5. CASE rows # <<>>
      <3>1. limits.bytes # None => bytes + Size[r] <= limits.bytes
        BY <1>2, <1>3, <2>5 DEF Fits
      <3>2. QED
        BY <1>2, <1>3, <2>1, <2>2, <2>3, <3>1 DEF PageSoFar
    <2>6. QED
      BY <2>4, <2>5
  <1>12. PageWithinBounds' /\ MoreHasRows' /\ EndIsComplete'
    BY <1>2 DEF PageWithinBounds, MoreHasRows, EndIsComplete
  <1>13. QED
    BY <1>1, <1>6, <1>7, <1>10, <1>11, <1>12 DEF PagingIInv

(* The page that a take has filled is within its bounds. *)
LEMMA PageKept ==
  ASSUME PagingIInv, call = "take"
  PROVE  /\ rows \in Seq(Keys) /\ Len(rows) <= limits.entries
         /\ limits.bytes # None => Total(rows) <= limits.bytes \/ Len(rows) = 1
  BY DEF PagingIInv, PageSoFar, TypeOK

LEMMA TakeCarryStep == ASSUME PagingIInv, TakeCarry PROVE PagingIInv'
  <1>1. TypeOK
    BY DEF PagingIInv
  <1>2. /\ call = "take" /\ OnRow /\ ~Fits /\ Advance /\ pending' = Row
        /\ Answer("more", rows)
    BY DEF TakeCarry, Continues
  <1>3. PICK r : r = Row
    OBVIOUS
  <1>4. /\ r \in Keys /\ r # None /\ done' = done
        /\ cursor' \in Keys \cup {End, Failed} /\ faults' \in 0 .. MaxFaults
        /\ \/ pending # None /\ r = pending /\ cursor' = cursor /\ faults' = faults
           \/ /\ pending = None /\ r = cursor /\ cursor \in Keys /\ ~done
              /\ \/ cursor' = Successor(cursor) /\ faults' = faults
                 \/ cursor' = Failed /\ faults' = faults + 1
    BY <1>2, <1>3, AdvanceMoves
  <1>5. Out' = (delivered \o rows) \o <<r>>
    <2>1. delivered \o rows \in Seq(Keys)
      BY <1>1, ConcatProperties DEF TypeOK
    <2>2. InFlight' = <<>> /\ Carried' = <<r>> /\ delivered' = delivered \o rows
      BY <1>2, <1>3, <1>4 DEF InFlight, Carried, Answer
    <2>3. QED
      BY <2>1, <2>2, ConcatEmptySeq DEF Out
  <1>6. OutMoves
    <2>1. CASE pending = None
      <3>1. Out = delivered \o rows
        BY <1>1, <1>2, <2>1, OutIs
      <3>2. QED
        BY <1>4, <1>5, <2>1, <3>1 DEF OutMoves
    <2>2. CASE pending # None
      <3>1. Out = (delivered \o rows) \o <<pending>>
        BY <1>1, <1>2, <2>2, OutIs
      <3>2. QED
        BY <1>4, <1>5, <2>2, <3>1 DEF OutMoves
    <2>3. QED
      BY <2>1, <2>2
  <1>7. rows # <<>>
    BY <1>2 DEF Fits
  <1>8. done' \in BOOLEAN /\ pending' \in Keys \cup {None}
    BY <1>1, <1>2, <1>3, <1>4 DEF TypeOK
  <1>9. QED
    BY <1>2, <1>4, <1>6, <1>7, <1>8, PageKept, AnswerKeeps

(* An answer for which no row is taken. *)
LEMMA StaysOut ==
  ASSUME TypeOK, NEW status, NEW page, Answer(status, page),
         pending' = pending, cursor' = cursor, faults' = faults,
         done' = done \/ cursor \notin Keys,
         page = InFlight
  PROVE  OutMoves /\ Out' = Out
  <1>1. delivered \in Seq(Keys) /\ InFlight \in Seq(Keys)
        /\ delivered \o InFlight \in Seq(Keys)
    BY OutTyped, ConcatProperties DEF TypeOK
  <1>2. InFlight' = <<>> /\ Carried' = Carried /\ delivered' = delivered \o InFlight
    BY DEF Answer, InFlight, Carried
  <1>3. Out' = Out
    <2>1. delivered' \o <<>> = delivered \o InFlight
      BY <1>1, <1>2, ConcatEmptySeq
    <2>2. QED
      BY <1>2, <2>1 DEF Out
  <1>4. QED
    BY <1>3 DEF OutMoves

LEMMA TakeFullStep == ASSUME PagingIInv, TakeFull PROVE PagingIInv'
  <1>1. /\ TypeOK /\ call = "take" /\ ~Continues /\ Answer("more", rows)
        /\ UNCHANGED cursor /\ UNCHANGED done /\ UNCHANGED pending /\ UNCHANGED faults
    BY DEF TakeFull, Stay, PagingIInv
  <1>2. OutMoves
    <2>1. rows = InFlight
      BY <1>1 DEF InFlight
    <2>2. QED
      BY <1>1, <2>1, StaysOut
  <1>3. rows # <<>>
    <2>1. limits.entries \in Nat \ {0}
      BY <1>1 DEF TypeOK
    <2>2. SUFFICES ASSUME rows = <<>> PROVE FALSE
      OBVIOUS
    <2>3. Len(rows) = 0
      BY <2>2
    <2>4. QED
      BY <1>1, <2>1, <2>2, <2>3 DEF Continues, Room
  <1>4. /\ done' \in BOOLEAN /\ pending' \in Keys \cup {None}
        /\ cursor' \in Keys \cup {End, Failed} /\ faults' \in 0 .. MaxFaults
    BY <1>1 DEF TypeOK
  <1>5. QED
    BY <1>1, <1>2, <1>3, <1>4, PageKept, AnswerKeeps

\* The scan stands at its end, or behind an error.
LEMMA NoRowLeft ==
  ASSUME PagingIInv, Exhausted \/ Broken
  PROVE  cursor \notin Keys /\ pending = None /\ (Broken => faults # 0)
  <1>1. CursorIsNext /\ Ordered
    BY RowsAreOrdered DEF PagingIInv
  <1>2. QED
    BY <1>1 DEF Exhausted, Broken, CursorIsNext, Ordered

LEMMA EndStep == ASSUME PagingIInv, TakeEnd \/ NextEnd PROVE PagingIInv'
  <1>1. PICK page : page = InFlight
    OBVIOUS
  <1>2. /\ TypeOK /\ Exhausted /\ Answer("end_of_iterator", page)
        /\ done' = TRUE /\ UNCHANGED cursor /\ UNCHANGED pending /\ UNCHANGED faults
    BY <1>1 DEF TakeEnd, NextEnd, Continues, InFlight, PagingIInv
  <1>3. cursor \notin Keys /\ pending' = None
    BY <1>2, NoRowLeft
  <1>4. OutMoves /\ Out' = Out
    BY <1>1, <1>2, <1>3, StaysOut
  <1>5. /\ done' \in BOOLEAN /\ pending' \in Keys \cup {None}
        /\ cursor' \in Keys \cup {End, Failed} /\ faults' \in 0 .. MaxFaults
    BY <1>2 DEF TypeOK
  <1>6. /\ page \in Seq(Keys) /\ Len(page) <= limits.entries
        /\ limits.bytes # None => Total(page) <= limits.bytes \/ Len(page) = 1
    <2>1. CASE call = "take"
      BY <1>1, <2>1, PageKept DEF InFlight
    <2>2. CASE call # "take"
      <3>1. page = <<>> /\ page \in Seq(Keys) /\ Len(page) = 0
        BY <1>1, <2>2 DEF InFlight
      <3>2. limits.entries \in Nat /\ (limits.bytes # None => limits.bytes \in Nat)
        BY <1>2 DEF TypeOK
      <3>3. Total(page) = 0
        BY <3>1, TotalOf
      <3>4. QED
        BY <3>1, <3>2, <3>3
    <2>3. QED
      BY <2>1, <2>2
  <1>7. QED
    BY <1>2, <1>3, <1>4, <1>5, <1>6, AnswerKeeps

(* What an answer without rows leaves out. *)
LEMMA DropsOut ==
  ASSUME TypeOK, NEW status, Answer(status, <<>>), pending' = None
  PROVE  Out' = delivered
  <1>1. delivered \in Seq(Keys)
    BY DEF TypeOK
  <1>2. InFlight' = <<>> /\ Carried' = <<>> /\ delivered' = delivered
    BY <1>1, ConcatEmptySeq DEF Answer, InFlight, Carried
  <1>3. QED
    BY <1>1, <1>2, ConcatEmptySeq DEF Out

LEMMA ErrorStep == ASSUME PagingIInv, TakeError \/ NextError PROVE PagingIInv'
  <1>1. /\ TypeOK /\ Broken /\ Answer("error", <<>>)
        /\ done' = TRUE /\ UNCHANGED cursor /\ UNCHANGED pending /\ UNCHANGED faults
    BY DEF TakeError, NextError, PagingIInv
  <1>2. cursor \notin Keys /\ pending' = None /\ faults' # 0
    BY <1>1, NoRowLeft
  <1>3. OutMoves
    BY <1>1, <1>2, DropsOut DEF OutMoves
  <1>4. /\ done' \in BOOLEAN /\ pending' \in Keys \cup {None} /\ <<>> \in Seq(Keys)
        /\ cursor' \in Keys \cup {End, Failed} /\ faults' \in 0 .. MaxFaults
    BY <1>1 DEF TypeOK
  <1>5. QED
    BY <1>1, <1>3, <1>4, AnswerKeeps

LEMMA RefuseTakeStep == ASSUME PagingIInv, RefuseTake PROVE PagingIInv'
  <1>1. /\ TypeOK /\ call = "idle" /\ Answer("refused", <<>>)
        /\ UNCHANGED cursor /\ UNCHANGED done /\ UNCHANGED pending /\ UNCHANGED faults
    BY DEF RefuseTake, Stay, PagingIInv
  <1>2. Out' = Out
    <2>1. delivered \in Seq(Keys)
      BY <1>1 DEF TypeOK
    <2>2. InFlight' = InFlight /\ Carried' = Carried /\ delivered' = delivered
      BY <1>1, <2>1, ConcatEmptySeq DEF Answer, InFlight, Carried
    <2>3. QED
      BY <2>2 DEF Out
  <1>3. OutMoves
    BY <1>1, <1>2 DEF OutMoves
  <1>4. /\ done' \in BOOLEAN /\ pending' \in Keys \cup {None} /\ <<>> \in Seq(Keys)
        /\ cursor' \in Keys \cup {End, Failed} /\ faults' \in 0 .. MaxFaults
    BY <1>1 DEF TypeOK
  <1>5. QED
    BY <1>1, <1>3, <1>4, AnswerKeeps

LEMMA BadArgStep == ASSUME PagingIInv, TakeBadArg \/ NextBadArg PROVE PagingIInv'
  <1>1. TypeOK /\ OnRow /\ Lost /\ Answer("badarg", <<>>) /\ pending' = None
    BY DEF TakeBadArg, NextBadArg, Lost, PagingIInv
  <1>2. /\ OutMoves /\ done' = done
        /\ cursor' \in Keys \cup {End, Failed} /\ faults' \in 0 .. MaxFaults
    BY <1>1, DropsOut, LostMoves
  <1>3. done' \in BOOLEAN /\ pending' \in Keys \cup {None} /\ <<>> \in Seq(Keys)
    BY <1>1, <1>2 DEF TypeOK
  <1>4. QED
    BY <1>1, <1>2, <1>3, AnswerKeeps

LEMMA NextRowStep == ASSUME PagingIInv, NextRow PROVE PagingIInv'
  <1>1. /\ TypeOK /\ call = "next" /\ OnRow /\ Advance /\ pending' = None
        /\ Answer("row", <<Row>>)
    BY DEF NextRow, Moved, PagingIInv
  <1>2. PICK r : r = Row
    OBVIOUS
  <1>3. /\ r \in Keys /\ done' = done
        /\ cursor' \in Keys \cup {End, Failed} /\ faults' \in 0 .. MaxFaults
        /\ \/ pending # None /\ r = pending /\ cursor' = cursor /\ faults' = faults
           \/ /\ pending = None /\ r = cursor /\ cursor \in Keys /\ ~done
              /\ \/ cursor' = Successor(cursor) /\ faults' = faults
                 \/ cursor' = Failed /\ faults' = faults + 1
    BY <1>1, <1>2, AdvanceMoves
  <1>4. Out' = delivered \o <<r>>
    <2>1. InFlight' = <<>> /\ Carried' = <<>> /\ delivered' = delivered \o <<r>>
      BY <1>1, <1>2 DEF Answer, InFlight, Carried
    <2>2. delivered \o <<r>> \in Seq(Keys)
      BY <1>1, <1>3, ConcatProperties DEF TypeOK
    <2>3. QED
      BY <2>1, <2>2, ConcatEmptySeq DEF Out
  <1>5. OutMoves
    <2>1. CASE pending = None
      <3>1. Out = delivered
        BY <1>1, <2>1, OutIs
      <3>2. QED
        BY <1>3, <1>4, <2>1, <3>1 DEF OutMoves
    <2>2. CASE pending # None
      <3>1. Out = delivered \o <<pending>>
        BY <1>1, <2>2, OutIs
      <3>2. QED
        BY <1>3, <1>4, <2>2, <3>1 DEF OutMoves
    <2>3. QED
      BY <2>1, <2>2
  <1>6. done' \in BOOLEAN /\ pending' \in Keys \cup {None} /\ <<r>> \in Seq(Keys)
    BY <1>1, <1>3 DEF TypeOK
  <1>7. QED
    BY <1>1, <1>2, <1>3, <1>5, <1>6, AnswerKeeps

LEMMA PagingInit == ASSUME Init PROVE PagingIInv
  <1>1. /\ store \in SUBSET Keys /\ mode \in Modes /\ extractor \in BOOLEAN
        /\ asked \in Requests
        /\ (mode.name = "prefix" => asked = NoRequest)
        /\ from = Bounds(asked).lower /\ to = Bounds(asked).upper
        /\ cursor = Seek /\ done = FALSE /\ pending = None
        /\ call = "idle" /\ limits = [entries |-> 1, bytes |-> None]
        /\ rows = <<>> /\ bytes = 0 /\ reply = "none" /\ delivered = <<>> /\ faults = 0
    BY DEF Init
  <1> MadeFor
    BY <1>1 DEF MadeFor
  <1>2. from \in Bound /\ to \in Bound
    <2>1. /\ asked.from \in Bound /\ asked.to \in Bound
          /\ asked.lower \in Bound /\ asked.upper \in Bound
      BY <1>1, PagingAssumption
    <2>2. QED
      BY <1>1, <2>1 DEF Bounds
  <1>3. <<>> \in Seq(Keys) /\ Out = <<>>
    BY <1>1 DEF Out, InFlight, Carried
  <1>4. /\ cursor \in Keys \cup {End} /\ cursor # Failed
        /\ cursor \in Keys => cursor \in Wanted
        /\ {k \in Wanted : cursor \in Keys => Precedes(k, cursor)} = {}
    <2>1. Ordered
      BY <1>1, RowsAreOrdered
    <2>2. CASE Wanted = {}
      BY <1>1, <2>1, <2>2, SeekFirst DEF Ordered
    <2>3. CASE Wanted # {}
      <3>1. PICK c : c = cursor
        OBVIOUS
      <3>2. c \in Wanted /\ \A k \in Wanted : k = c \/ Precedes(c, k)
        BY <1>1, <2>3, <3>1, SeekFirst
      <3>3. c \in Keys /\ c # Failed
        BY <2>1, <3>2 DEF Ordered
      <3>4. ASSUME NEW k \in Wanted PROVE ~Precedes(k, c)
        <4>1. k \in Keys /\ ~Precedes(c, c)
          BY <2>1, <3>3 DEF Ordered
        <4>2. QED
          BY <2>1, <3>2, <3>3, <4>1 DEF Ordered
      <3>5. QED
        BY <3>1, <3>2, <3>3, <3>4
    <2>4. QED
      BY <2>2, <2>3
  <1>5. TypeOK
    <2>1. MaxFaults \in Nat /\ 0 \in 0 .. MaxFaults
      BY PagingAssumption
    <2>2. limits \in [entries : Nat \ {0}, bytes : (Nat \ {0}) \cup {None}]
      BY <1>1
    <2>3. QED
      BY <1>1, <1>2, <1>3, <1>4, <2>1, <2>2 DEF TypeOK
  <1>6. CursorIsNext /\ NeverTwice /\ NoGapNoRepeat
    <2>1. DOMAIN Out = {}
      BY <1>3
    <2>2. QED
      BY <1>1, <1>4, <2>1 DEF CursorIsNext, NeverTwice, NoGapNoRepeat
  <1>7. PageSoFar /\ PageWithinBounds /\ MoreHasRows /\ EndIsComplete
    BY <1>1 DEF PageSoFar, PageWithinBounds, MoreHasRows, EndIsComplete
  <1>8. QED
    BY <1>1, <1>5, <1>6, <1>7 DEF PagingIInv

LEMMA PagingNext == ASSUME PagingIInv, [Next]_vars PROVE PagingIInv'
  <1>1. CASE Start
    BY <1>1, StartStep
  <1>2. CASE Take
    BY <1>2, TakeRowStep, TakeCarryStep, TakeFullStep, EndStep, ErrorStep, BadArgStep DEF Take
  <1>3. CASE NextOne
    BY <1>3, NextRowStep, EndStep, ErrorStep, BadArgStep DEF NextOne
  <1>4. CASE UNCHANGED vars
    <2>1. /\ UNCHANGED <<store, asked, from, to, mode, extractor>> /\ UNCHANGED view
          /\ UNCHANGED <<cursor, done, pending, call, limits, rows, bytes, reply,
                         delivered, faults>>
      BY <1>4 DEF vars, view
    <2>2. TypeOK' /\ MadeFor'
      BY <2>1 DEF PagingIInv, TypeOK, MadeFor, Bounds
    <2>3. UNCHANGED Out /\ UNCHANGED Wanted
      BY <2>1, ViewKept DEF Out, InFlight, Carried
    <2>4. OutMoves
      BY <2>1, <2>3 DEF OutMoves
    <2>5. CursorIsNext' /\ NeverTwice' /\ NoGapNoRepeat'
      BY <2>1, <2>4, AlignedNext DEF PagingIInv
    <2>6. PageSoFar' /\ PageWithinBounds' /\ MoreHasRows' /\ EndIsComplete'
      BY <2>1, <2>3 DEF PagingIInv, PageSoFar, PageWithinBounds, MoreHasRows, EndIsComplete,
                        Total
    <2>7. QED
      BY <2>2, <2>5, <2>6 DEF PagingIInv
  <1>5. CASE RefuseTake
    BY <1>5, RefuseTakeStep
  <1>6. QED
    BY <1>1, <1>2, <1>3, <1>4, <1>5 DEF Next

-----------------------------------------------------------------------------
(* In every state the cursor is on the first wanted row that is not out,    *)
(* and the page is within its bounds.                                       *)
THEOREM PagingInvariant == Spec => []PagingIInv
  BY PagingInit, PagingNext, PTL DEF Spec

(* Every variable of an iterator has its type.                              *)
THEOREM PagingTypes == Spec => []TypeOK
  <1>1. PagingIInv => TypeOK
    BY DEF PagingIInv
  <1>2. QED
    BY <1>1, PagingInvariant, PTL

(* While nothing fails, pages and single rows in any mixture deliver the    *)
(* wanted rows without a gap, whatever is carried over between them.        *)
THEOREM PagesAreContiguous == Spec => []NoGapNoRepeat
  <1>1. PagingIInv => NoGapNoRepeat
    BY DEF PagingIInv
  <1>2. QED
    BY <1>1, PagingInvariant, PTL

(* Whatever fails, no row comes twice or out of order.                      *)
THEOREM RowsComeOnce == Spec => []NeverTwice
  <1>1. PagingIInv => NeverTwice
    BY DEF PagingIInv
  <1>2. QED
    BY <1>1, PagingInvariant, PTL

(* A page has at most max_entries rows and max_bytes bytes, or one row.     *)
THEOREM PagesKeepBounds == Spec => []PageWithinBounds
  <1>1. PagingIInv => PageWithinBounds
    BY DEF PagingIInv
  <1>2. QED
    BY <1>1, PagingInvariant, PTL

(* A page that promises more has a row.                                     *)
THEOREM MoreMakesProgress == Spec => []MoreHasRows
  <1>1. PagingIInv => MoreHasRows
    BY DEF PagingIInv
  <1>2. QED
    BY <1>1, PagingInvariant, PTL

(* Unless something failed, the end is told when every row is delivered.    *)
THEOREM EndIsTheEnd == Spec => []EndIsComplete
  <1>1. PagingIInv => EndIsComplete
    BY DEF PagingIInv
  <1>2. QED
    BY <1>1, PagingInvariant, PTL
===============================================================================
