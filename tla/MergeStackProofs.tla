--------------------------- MODULE MergeStackProofs ---------------------------
(***************************************************************************)
(* For any values, operands, widths and number of writes: wherever RocksDB *)
(* keeps the operands of a key, a read gives what the writes since the     *)
(* last put say, as long as none were merged without their value, and with *)
(* the counter even then; each bit of a bitset is the last thing written   *)
(* about it; and an edit of a list or binary is the splice it stands for.  *)
(***************************************************************************)
EXTENDS MergeStack, NumberLemmas, SequenceTheorems

(* Lists are joined as sequences are, whatever they hold. *)
LEMMA ListOver ==
  ASSUME NEW U, NEW s \in Seq(U)
  PROVE  /\ IsList(s) /\ Len(s) \in Nat /\ DOMAIN s = 1 .. Len(s)
         /\ \A i \in 1 .. Len(s) : s[i] \in U
  <1> DEFINE R == {s[i] : i \in DOMAIN s}
  <1>1. Len(s) \in Nat /\ DOMAIN s = 1 .. Len(s) /\ s \in [1 .. Len(s) -> U]
    BY LenProperties
  <1>2. s \in [1 .. Len(s) -> R]
    BY <1>1
  <1> HIDE DEF R
  <1>3. s \in Seq(R)
    BY <1>1, <1>2, SeqDef
  <1>4. QED
    BY <1>1, <1>3 DEF R, IsList

\* c is a and then b.
Joins(a, b, c) ==
  /\ Len(a) \in Nat /\ Len(b) \in Nat /\ Len(c) = Len(a) + Len(b)
  /\ DOMAIN a = 1 .. Len(a) /\ DOMAIN b = 1 .. Len(b) /\ DOMAIN c = 1 .. Len(a) + Len(b)
  /\ \A i \in 1 .. Len(a) : c[i] = a[i]
  /\ \A i \in 1 .. Len(b) : c[Len(a) + i] = b[i]

LEMMA ListJoin ==
  ASSUME NEW a, IsList(a), NEW b, IsList(b)
  PROVE  IsList(a \o b) /\ Joins(a, b, a \o b)
  <1> DEFINE A == {a[i] : i \in DOMAIN a}
             B == {b[i] : i \in DOMAIN b}
             U == A \cup B
             c == a \o b
  <1>1. a \in Seq(A) /\ b \in Seq(B)
    BY DEF IsList
  <1>2. A \subseteq U /\ B \subseteq U
    OBVIOUS
  <1> HIDE DEF A, B, U
  <1>3. a \in Seq(U) /\ b \in Seq(U)
    BY <1>1, <1>2, SeqMonotonic
  <1>4. /\ c \in Seq(U) /\ Len(c) = Len(a) + Len(b)
        /\ \A i \in 1 .. Len(a) + Len(b) : c[i] = IF i <= Len(a) THEN a[i] ELSE b[i - Len(a)]
    BY <1>3, ConcatProperties
  <1>5. /\ Len(a) \in Nat /\ Len(b) \in Nat
        /\ DOMAIN a = 1 .. Len(a) /\ DOMAIN b = 1 .. Len(b)
        /\ DOMAIN c = 1 .. Len(c)
    BY <1>3, <1>4, LenProperties
  <1>6. IsList(c)
    BY <1>4, ListOver
  <1>7. \A i \in 1 .. Len(a) : c[i] = a[i]
    BY <1>4, <1>5
  <1>8. ASSUME NEW i \in 1 .. Len(b) PROVE c[Len(a) + i] = b[i]
    <2>1. Len(a) + i \in 1 .. Len(a) + Len(b) /\ ~(Len(a) + i <= Len(a))
          /\ (Len(a) + i) - Len(a) = i
      BY <1>5
    <2>2. QED
      BY <1>4, <2>1
  <1>9. Joins(a, b, c)
    <2>1. DOMAIN c = 1 .. Len(a) + Len(b)
      BY <1>4, <1>5
    <2>2. QED
      BY <1>4, <1>5, <1>7, <1>8, <2>1 DEF Joins
  <1>10. QED
    BY <1>6, <1>9

LEMMA ListJoinHas ==
  ASSUME NEW a, IsList(a), NEW b, IsList(b), NEW i \in DOMAIN (a \o b)
  PROVE  \/ \E j \in DOMAIN a : (a \o b)[i] = a[j]
         \/ \E j \in DOMAIN b : (a \o b)[i] = b[j]
  <1>1. PICK c : c = a \o b
    OBVIOUS
  <1>2. Joins(a, b, c)
    BY <1>1, ListJoin
  <1>3. i \in 1 .. Len(a) + Len(b)
    BY <1>1, <1>2 DEF Joins
  <1>4. CASE i <= Len(a)
    <2>1. i \in 1 .. Len(a)
      BY <1>2, <1>3, <1>4 DEF Joins
    <2>2. QED
      BY <1>1, <1>2, <2>1 DEF Joins
  <1>5. CASE ~(i <= Len(a))
    <2>1. i - Len(a) \in 1 .. Len(b) /\ i = Len(a) + (i - Len(a))
      BY <1>2, <1>3, <1>5 DEF Joins
    <2>2. c[i] = b[i - Len(a)]
      BY <1>2, <2>1 DEF Joins
    <2>3. QED
      BY <1>1, <1>2, <2>1, <2>2 DEF Joins
  <1>6. QED
    BY <1>4, <1>5

LEMMA ListLaws ==
  /\ IsList(<<>>) /\ Len(<<>>) = 0
  /\ \A x : IsList(<<x>>) /\ Len(<<x>>) = 1 /\ <<x>>[1] = x
  /\ \A a : IsList(a) => a \o <<>> = a /\ <<>> \o a = a /\ (a = <<>> <=> Len(a) = 0)
  /\ \A a, b, c : IsList(a) /\ IsList(b) /\ IsList(c) => (a \o b) \o c = a \o (b \o c)
  <1>1. IsList(<<>>) /\ Len(<<>>) = 0
    BY EmptySeq, ListOver
  <1>2. ASSUME NEW x PROVE IsList(<<x>>) /\ Len(<<x>>) = 1 /\ <<x>>[1] = x
    <2>1. <<x>> \in Seq({x})
      OBVIOUS
    <2>2. QED
      BY <2>1, ListOver
  <1>3. ASSUME NEW a, IsList(a) PROVE a \o <<>> = a /\ <<>> \o a = a /\ (a = <<>> <=> Len(a) = 0)
    <2> DEFINE A == {a[i] : i \in DOMAIN a}
    <2>1. a \in Seq(A)
      BY <1>3 DEF IsList
    <2> HIDE DEF A
    <2>2. QED
      BY <2>1, ConcatEmptySeq, EmptySeq
  <1>4. ASSUME NEW a, NEW b, NEW c, IsList(a), IsList(b), IsList(c)
        PROVE  (a \o b) \o c = a \o (b \o c)
    <2> DEFINE A == {a[i] : i \in DOMAIN a}
               B == {b[i] : i \in DOMAIN b}
               C == {c[i] : i \in DOMAIN c}
               U == A \cup B \cup C
    <2>1. a \in Seq(A) /\ b \in Seq(B) /\ c \in Seq(C)
      BY <1>4 DEF IsList
    <2>2. A \subseteq U /\ B \subseteq U /\ C \subseteq U
      OBVIOUS
    <2> HIDE DEF A, B, C, U
    <2>3. a \in Seq(U) /\ b \in Seq(U) /\ c \in Seq(U)
      BY <2>1, <2>2, SeqMonotonic
    <2>4. QED
      BY <2>3, ConcatAssociative
  <1>5. QED
    BY <1>1, <1>2, <1>3, <1>4

-----------------------------------------------------------------------------
(* The loops over the operands, turn by turn *)
TurnsOf(t, k, x, ops) ==
  t[0] = x /\ \A i \in 1 .. Len(ops) : t[i] = Step(k, t[i - 1], ops[i])

LEMMA Turns ==
  ASSUME NEW k, NEW x, NEW ops, Len(ops) \in Nat
  PROVE  \E t : TurnsOf(t, k, x, ops) /\ InTurn(k, x, ops) = t[Len(ops)]
  <1> DEFINE n == Len(ops)
             IsRun(f) == f = [i \in 0 .. n |->
                                IF i = 0 THEN x ELSE Step(k, f[i - 1], ops[i])]
             Upto(m, g) == /\ g[0] = x /\ DOMAIN g = 0 .. m
                           /\ g = [i \in 0 .. m |-> g[i]]
                           /\ \A i \in 1 .. m : g[i] = Step(k, g[i - 1], ops[i])
             Has(m) == \E g : Upto(m, g)
             Defined == {m \in Nat : Has(m)}
  <1> HIDE DEF Has
  <1>1. 0 \in Defined
    <2>1. Upto(0, [i \in 0 .. 0 |-> x])
      OBVIOUS
    <2>2. QED
      BY <2>1 DEF Has
  <1>2. ASSUME NEW m \in Nat, m \in Defined PROVE m + 1 \in Defined
    <2>1. PICK g : Upto(m, g)
      BY <1>2 DEF Has
    <2> DEFINE h == [i \in 0 .. m + 1 |-> IF i = m + 1 THEN Step(k, g[m], ops[m + 1]) ELSE g[i]]
    <2>2. h[0] = x /\ DOMAIN h = 0 .. m + 1 /\ h = [i \in 0 .. m + 1 |-> h[i]]
      BY <2>1
    <2>3. ASSUME NEW i \in 1 .. m + 1 PROVE h[i] = Step(k, h[i - 1], ops[i])
      <3>1. CASE i = m + 1
        <4>1. h[i] = Step(k, g[m], ops[m + 1]) /\ h[i - 1] = g[m]
          BY <3>1
        <4>2. QED
          BY <3>1, <4>1
      <3>2. CASE i # m + 1
        <4>1. i \in 1 .. m /\ h[i] = g[i] /\ h[i - 1] = g[i - 1]
          BY <3>2
        <4>2. QED
          BY <2>1, <4>1
      <3>3. QED
        BY <3>1, <3>2
    <2> HIDE DEF h
    <2>4. Upto(m + 1, h)
      BY <2>2, <2>3
    <2>5. Has(m + 1)
      BY <2>4 DEF Has
    <2>6. QED
      BY <2>5
  <1>3. n \in Defined
    <2> HIDE DEF Defined
    <2>1. Nat \subseteq Defined
      BY <1>1, <1>2, InductionSet
    <2>2. QED
      BY <2>1
  <1>4. PICK g : Upto(n, g)
    BY <1>3 DEF Has
  <1>5. IsRun(g)
    <2> DEFINE E(i) == IF i = 0 THEN x ELSE Step(k, g[i - 1], ops[i])
    <2>1. ASSUME NEW i \in 0 .. n PROVE g[i] = E(i)
      <3>1. CASE i = 0
        BY <1>4, <3>1
      <3>2. CASE i # 0
        <4>1. i \in 1 .. n
          BY <3>2
        <4>2. QED
          BY <1>4, <3>2, <4>1
      <3>3. QED
        BY <3>1, <3>2
    <2> HIDE DEF E
    <2>2. g = [i \in 0 .. n |-> E(i)]
      BY <1>4, <2>1
    <2>3. QED
      BY <2>2 DEF E
  <1>6. PICK t : t = (CHOOSE f : IsRun(f)) /\ InTurn(k, x, ops) = t[n]
    BY DEF InTurn
  <1>7. IsRun(t)
    BY <1>5, <1>6
  <1>8. t[0] = x
    <2>1. 0 \in 0 .. n
      OBVIOUS
    <2>2. QED
      BY <1>7, <2>1, Zenon
  <1>9. ASSUME NEW i \in 1 .. n PROVE t[i] = Step(k, t[i - 1], ops[i])
    <2>1. i \in 0 .. n /\ i # 0
      OBVIOUS
    <2>2. QED
      BY <1>7, <2>1, Zenon
  <1>10. TurnsOf(t, k, x, ops)
    BY <1>8, <1>9 DEF TurnsOf
  <1>11. QED
    BY <1>6, <1>10

(* Two lists of operands, joined, are taken one after the other. *)
LEMMA TurnsAfter ==
  ASSUME NEW k, NEW x, NEW a, NEW b, NEW c, Joins(a, b, c)
  PROVE  InTurn(k, x, c) = InTurn(k, InTurn(k, x, a), b)
  <1>1. Len(a) \in Nat /\ Len(b) \in Nat /\ Len(c) \in Nat
    BY DEF Joins
  <1>2. PICK n, m : /\ n = Len(a) /\ m = Len(b) /\ n \in Nat /\ m \in Nat /\ Len(c) = n + m
                    /\ \A i \in 1 .. n : c[i] = a[i]
                    /\ \A i \in 1 .. m : c[n + i] = b[i]
    BY Zenon DEF Joins
  <1>3. PICK t : TurnsOf(t, k, x, c) /\ InTurn(k, x, c) = t[Len(c)]
    BY <1>1, Turns
  <1>4. PICK u : TurnsOf(u, k, x, a) /\ InTurn(k, x, a) = u[Len(a)]
    BY <1>1, Turns
  <1>5. PICK w : TurnsOf(w, k, u[n], b) /\ InTurn(k, u[n], b) = w[Len(b)]
    BY <1>1, Turns
  <1> DEFINE First == {i \in Nat : i <= n => t[i] = u[i]}
             Second == {i \in Nat : i <= m => t[n + i] = w[i]}
  <1>6. t[n] = u[n]
    <2>1. 0 \in First
      BY <1>3, <1>4 DEF TurnsOf
    <2>2. ASSUME NEW i \in Nat, i \in First PROVE i + 1 \in First
      <3> SUFFICES ASSUME i + 1 <= n PROVE t[i + 1] = u[i + 1]
        OBVIOUS
      <3>1. i + 1 \in 1 .. n /\ i + 1 \in 1 .. n + m /\ (i + 1) - 1 = i /\ t[i] = u[i]
        BY <1>2, <2>2
      <3>2. t[i + 1] = Step(k, t[i], c[i + 1]) /\ u[i + 1] = Step(k, u[i], a[i + 1])
        BY <1>2, <1>3, <1>4, <3>1 DEF TurnsOf
      <3>3. c[i + 1] = a[i + 1]
        BY <1>2, <3>1
      <3>4. QED
        BY <3>1, <3>2, <3>3
    <2> HIDE DEF First
    <2>3. n \in First
      BY <1>2, <2>1, <2>2, InductionSet
    <2>4. QED
      BY <1>2, <2>3 DEF First
  <1>7. t[n + m] = w[m]
    <2>1. 0 \in Second
      <3>1. n + 0 = n
        BY <1>2
      <3>2. QED
        BY <1>5, <1>6, <3>1 DEF TurnsOf
    <2>2. ASSUME NEW i \in Nat, i \in Second PROVE i + 1 \in Second
      <3> SUFFICES ASSUME i + 1 <= m PROVE t[n + (i + 1)] = w[i + 1]
        OBVIOUS
      <3>1. /\ i + 1 \in 1 .. m /\ n + (i + 1) \in 1 .. n + m /\ (i + 1) - 1 = i
            /\ (n + (i + 1)) - 1 = n + i /\ t[n + i] = w[i]
        BY <1>2, <2>2
      <3>2. t[n + (i + 1)] = Step(k, t[n + i], c[n + (i + 1)])
        BY <1>2, <1>3, <3>1 DEF TurnsOf
      <3>3. c[n + (i + 1)] = b[i + 1] /\ w[i + 1] = Step(k, w[i], b[i + 1])
        BY <1>2, <1>5, <3>1 DEF TurnsOf
      <3>4. QED
        BY <3>1, <3>2, <3>3
    <2> HIDE DEF Second
    <2>3. m \in Second
      BY <1>2, <2>1, <2>2, InductionSet
    <2>4. QED
      BY <1>2, <2>3 DEF Second
  <1>8. Len(a) = n /\ Len(b) = m /\ Len(c) = n + m
    BY <1>2
  <1>9. QED
    BY <1>3, <1>4, <1>5, <1>6, <1>7, <1>8

LEMMA TurnsJoin ==
  ASSUME NEW k, NEW x, NEW a, IsList(a), NEW b, IsList(b)
  PROVE  InTurn(k, x, a \o b) = InTurn(k, InTurn(k, x, a), b)
  BY ListJoin, TurnsAfter

LEMMA TurnsShort ==
  ASSUME NEW k, NEW x
  PROVE  /\ InTurn(k, x, <<>>) = x
         /\ \A o : InTurn(k, x, <<o>>) = Step(k, x, o)
  <1>1. InTurn(k, x, <<>>) = x
    <2>1. Len(<<>>) = 0 /\ 0 \in Nat
      BY ListLaws
    <2>2. PICK t : TurnsOf(t, k, x, <<>>) /\ InTurn(k, x, <<>>) = t[Len(<<>>)]
      BY <2>1, Turns
    <2>3. QED
      BY <2>1, <2>2 DEF TurnsOf
  <1>2. ASSUME NEW o PROVE InTurn(k, x, <<o>>) = Step(k, x, o)
    <2> DEFINE s == <<o>>
    <2>1. Len(s) = 1 /\ s[1] = o
      BY ListLaws
    <2> HIDE DEF s
    <2>2. PICK t : TurnsOf(t, k, x, s) /\ InTurn(k, x, s) = t[Len(s)]
      BY <2>1, Turns
    <2>3. 1 \in 1 .. 1 /\ 1 - 1 = 0
      OBVIOUS
    <2>4. t[1] = Step(k, t[0], s[1]) /\ t[0] = x
      BY <2>1, <2>2, <2>3 DEF TurnsOf
    <2>5. QED
      BY <2>1, <2>2, <2>4 DEF s
  <1>3. QED
    BY <1>1, <1>2
-----------------------------------------------------------------------------
(* Quotient and remainder of a division *)
LEMMA Division ==
  ASSUME NEW m \in Nat \ {0}, NEW a \in Int
  PROVE  a % m \in 0 .. m - 1 /\ a \div m \in Int /\ a = m * (a \div m) + (a % m)
  OBVIOUS

LEMMA DivisionUnique ==
  ASSUME NEW m \in Nat \ {0}, NEW p \in Int, NEW q \in Int,
         NEW r \in 0 .. m - 1, NEW s \in 0 .. m - 1, m * p + r = m * q + s
  PROVE  p = q /\ r = s
  <1>1. m * (p - q) = s - r
    OBVIOUS
  <1>2. ASSUME NEW d \in Int, d >= 1 PROVE m * d >= m
    BY <1>2
  <1>3. ~(p - q >= 1)
    BY <1>1, <1>2
  <1>4. ~(q - p >= 1)
    <2>1. m * (q - p) = r - s
      OBVIOUS
    <2>2. QED
      BY <1>2, <2>1
  <1>5. QED
    BY <1>3, <1>4

(* Sums may be wrapped before they are added to. *)
LEMMA WrapAdds ==
  ASSUME NEW h \in Nat \ {0}, NEW x \in Int, NEW y \in Int
  PROVE  /\ Wrap(x, h) \in Int
         /\ Wrap(Wrap(x, h) + y, h) = Wrap(x + y, h)
  <1>1. PICK m \in Nat \ {0} : m = 2 * h
    OBVIOUS
  <1>2. ASSUME NEW z \in Int
        PROVE  \E q \in Int : \E r \in 0 .. m - 1 : z + h = m * q + r /\ Wrap(z, h) = r - h
    <2>1. z + h \in Int
      OBVIOUS
    <2>2. Wrap(z, h) = ((z + h) % m) - h
      BY <1>1 DEF Wrap
    <2>3. /\ (z + h) % m \in 0 .. m - 1 /\ (z + h) \div m \in Int
          /\ z + h = m * ((z + h) \div m) + ((z + h) % m)
      BY <2>1, Division
    <2>4. QED
      BY <2>2, <2>3
  <1>3. PICK p \in Int : \E r \in 0 .. m - 1 : x + h = m * p + r /\ Wrap(x, h) = r - h
    BY <1>2
  <1>4. PICK r \in 0 .. m - 1 : x + h = m * p + r /\ Wrap(x, h) = r - h
    BY <1>3
  <1>5. PICK z \in Int : z = Wrap(x, h) + y
    BY <1>4
  <1>6. PICK q \in Int : \E s \in 0 .. m - 1 : z + h = m * q + s /\ Wrap(z, h) = s - h
    BY <1>2
  <1>7. PICK s \in 0 .. m - 1 : z + h = m * q + s /\ Wrap(z, h) = s - h
    BY <1>6
  <1>8. PICK w \in Int : w = x + y
    OBVIOUS
  <1>9. PICK u \in Int : \E v \in 0 .. m - 1 : w + h = m * u + v /\ Wrap(w, h) = v - h
    BY <1>2
  <1>10. PICK v \in 0 .. m - 1 : w + h = m * u + v /\ Wrap(w, h) = v - h
    BY <1>9
  <1>11. m * (p + q) + s = m * u + v
    <2>1. m * (p + q) = m * p + m * q /\ m * p \in Int /\ m * q \in Int /\ m * u \in Int
      OBVIOUS
    <2>2. z + h = r + y
      BY <1>4, <1>5
    <2>3. w + h = m * p + (r + y)
      BY <1>4, <1>8, <2>1
    <2>4. QED
      BY <1>7, <1>10, <2>1, <2>2, <2>3
  <1>12. s = v
    <2>1. p + q \in Int
      OBVIOUS
    <2>2. QED
      BY <1>11, <2>1, DivisionUnique
  <1>13. QED
    BY <1>4, <1>5, <1>7, <1>8, <1>10, <1>12


-----------------------------------------------------------------------------
(* What the loops over the operands leave *)

(* What holds at the start and is kept by every turn holds at the end: S    *)
(* has the results that are meant among those that occur.                   *)
LEMMA TurnsWithin ==
  ASSUME NEW k, NEW x, NEW ops, Len(ops) \in Nat
  PROVE  \E R : /\ x \in R /\ InTurn(k, x, ops) \in R
                /\ \A S : (/\ x \in S
                           /\ \A y \in S, i \in 1 .. Len(ops) :
                                Step(k, y, ops[i]) \in R => Step(k, y, ops[i]) \in S)
                          => InTurn(k, x, ops) \in S
  <1>1. PICK t : TurnsOf(t, k, x, ops) /\ InTurn(k, x, ops) = t[Len(ops)]
    BY Turns
  <1>2. PICK n \in Nat : n = Len(ops)
    OBVIOUS
  <1> DEFINE R == {t[i] : i \in 0 .. n}
  <1>3. x \in R /\ InTurn(k, x, ops) \in R
    <2>1. 0 \in 0 .. n /\ n \in 0 .. n
      OBVIOUS
    <2>2. t[0] \in R /\ t[n] \in R
      BY <2>1
    <2>3. QED
      BY <1>1, <1>2, <2>2 DEF TurnsOf
  <1>4. ASSUME NEW S, x \in S,
               \A y \in S, i \in 1 .. Len(ops) :
                 Step(k, y, ops[i]) \in R => Step(k, y, ops[i]) \in S
        PROVE  InTurn(k, x, ops) \in S
    <2> DEFINE I == {i \in Nat : i <= n => t[i] \in S}
    <2>1. 0 \in I
      BY <1>1, <1>4 DEF TurnsOf
    <2>2. ASSUME NEW i \in Nat, i \in I PROVE i + 1 \in I
      <3> SUFFICES ASSUME i + 1 <= n PROVE t[i + 1] \in S
        OBVIOUS
      <3>1. i + 1 \in 1 .. n /\ i + 1 \in 0 .. n /\ (i + 1) - 1 = i /\ t[i] \in S
        BY <2>2
      <3>2. t[i + 1] = Step(k, t[i], ops[i + 1])
        BY <1>1, <1>2, <3>1 DEF TurnsOf
      <3>3. t[i + 1] \in R
        BY <3>1
      <3> HIDE DEF R
      <3>4. QED
        BY <1>2, <1>4, <3>1, <3>2, <3>3
    <2> HIDE DEF I
    <2>3. n \in I
      BY <2>1, <2>2, InductionSet
    <2>4. t[n] \in S
      BY <2>3 DEF I
    <2>5. QED
      BY <1>1, <1>2, <2>4
  <1> HIDE DEF R
  <1>5. QED
    BY <1>3, <1>4

\* A number as the counter writes it
Text(n) == Term("text", <<n>>)

LEMMA TextNumber ==
  ASSUME NEW n
  PROVE  Text(n).type = "text" /\ Number(Text(n)) = n /\ ~IsEtf(Text(n)) /\ Text(n) # None
  BY DEF Text, Term, Number, IsEtf, None

\* What can be counted
Countable(ops) == IsList(ops) /\ \A i \in DOMAIN ops : Number(ops[i]) \in Int

LEMMA CountableJoin ==
  ASSUME NEW a, Countable(a), NEW b, Countable(b)
  PROVE  Countable(a \o b)
  <1>1. IsList(a \o b)
    BY ListJoin DEF Countable
  <1>2. ASSUME NEW i \in DOMAIN (a \o b) PROVE Number((a \o b)[i]) \in Int
    BY ListJoinHas DEF Countable
  <1>3. QED
    BY <1>1, <1>2 DEF Countable

LEMMA ListDomain ==
  ASSUME NEW s, IsList(s)
  PROVE  Len(s) \in Nat /\ DOMAIN s = 1 .. Len(s)
  BY ListOver DEF IsList

(* The counter's loop leaves a number. *)
LEMMA CounterResult ==
  ASSUME NEW n \in Int, NEW ops, Countable(ops)
  PROVE  \E r \in Int : InTurn("counter", Text(n), ops) = Text(r)
  <1> DEFINE S == {Text(r) : r \in Int}
  <1>1. Len(ops) \in Nat /\ DOMAIN ops = 1 .. Len(ops)
    BY ListDomain DEF Countable
  <1>2. Text(n) \in S
    OBVIOUS
  <1>3. ASSUME NEW y \in S, NEW i \in 1 .. Len(ops) PROVE Step("counter", y, ops[i]) \in S
    <2>1. PICK r \in Int : y = Text(r)
      OBVIOUS
    <2>2. Number(y) = r /\ Number(ops[i]) \in Int
      BY <1>1, <2>1, TextNumber DEF Countable
    <2>3. Step("counter", y, ops[i]) = Text(Wrap(r + Number(ops[i]), I64Half))
      BY <2>2 DEF Step, CounterStep, Text
    <2>4. Wrap(r + Number(ops[i]), I64Half) \in Int
      <3>1. I64Half \in Nat \ {0} /\ r + Number(ops[i]) \in Int /\ 0 \in Int
        BY <2>2, WidthAssumption
      <3>2. QED
        BY <3>1, WrapAdds
    <2>5. QED
      BY <2>3, <2>4
  <1> HIDE DEF S
  <1>4. InTurn("counter", Text(n), ops) \in S
    BY <1>1, <1>2, <1>3, TurnsWithin
  <1>5. QED
    BY <1>4 DEF S

(* The bitset's loop leaves a byte string. *)
LEMMA BitsetResult ==
  ASSUME NEW v, NEW ops, IsList(ops)
  PROVE  \E w : InTurn("bitset", Term("bytes", v), ops) = Term("bytes", w)
  <1> DEFINE k == "bitset"
             x == Term("bytes", v)
  <1>1. Len(ops) \in Nat
    BY ListDomain
  <1>2. PICK R : /\ x \in R /\ InTurn(k, x, ops) \in R
                 /\ \A S : (/\ x \in S
                            /\ \A y \in S, i \in 1 .. Len(ops) :
                                 Step(k, y, ops[i]) \in R => Step(k, y, ops[i]) \in S)
                           => InTurn(k, x, ops) \in S
    BY <1>1, TurnsWithin
  <1> DEFINE S == {y \in R : \E w : y = Term("bytes", w)}
  <1>3. x \in S
    BY <1>2
  <1>4. ASSUME NEW y \in S, NEW i \in 1 .. Len(ops), Step(k, y, ops[i]) \in R
        PROVE  Step(k, y, ops[i]) \in S
    <2>1. \E w : BitStep(y, ops[i]) = Term("bytes", w)
      BY DEF BitStep
    <2>2. Step(k, y, ops[i]) = BitStep(y, ops[i])
      BY DEF Step
    <2>3. QED
      BY <1>4, <2>1, <2>2
  <1> HIDE DEF S
  <1>5. InTurn(k, x, ops) \in S
    BY <1>2, <1>3, <1>4
  <1>6. QED
    BY <1>5 DEF S

(* Every edit makes an external term, or aborts. *)
LEMMA EditsMakeTerms ==
  ASSUME NEW t, NEW o
  PROVE  ErlangStep(t, o) = t \/ ErlangStep(t, o).type \in {"int", "list", "bin", "abort"}
  <1> DEFINE Known == {"int", "list", "bin", "abort"}
  <1>1. \A v : /\ Term("int", v).type \in Known /\ Term("list", v).type \in Known
               /\ Term("bin", v).type \in Known
    BY DEF Term
  <1>2. Aborted.type \in Known
    BY DEF Term, Aborted
  <1>3. IntAdd(t, o).type \in Known /\ ListAppend(t, o).type \in Known
        /\ ListPrepend(t, o).type \in Known /\ ListSubtract(t, o).type \in Known
    BY <1>1 DEF IntAdd, ListAppend, ListPrepend, ListSubtract
  <1>4. ListSet(t, o).type \in Known /\ ListDelete(t, o).type \in Known
        /\ ListInsert(t, o).type \in Known
    BY <1>1 DEF ListSet, ListDelete, ListInsert
  <1>5. ListDeleteRange(t, o).type \in Known
    BY <1>1, <1>2 DEF ListDeleteRange
  <1>6. BinAppend(t, o).type \in Known /\ BinInsert(t, o).type \in Known
    BY <1>1 DEF BinAppend, BinInsert
  <1>7. BinErase(t, o).type \in Known /\ BinReplace(t, o).type \in Known
    BY <1>1, <1>2 DEF BinErase, BinReplace
  <1>8. ErlangStep(t, o) = t \/ ErlangStep(t, o).type \in Known
    BY <1>2, <1>3, <1>4, <1>5, <1>6, <1>7 DEF ErlangStep
  <1>9. QED
    BY <1>8


\* What a key may hold as its value
Valued(t) == Lasting(t) /\ Number(t) \in Int

\* Operands the erlang operator treats alike: all external terms, or none
Alike(ops) ==
  \/ \A i \in DOMAIN ops : IsEtf(ops[i])
  \/ \A i \in DOMAIN ops : ~IsEtf(ops[i])

\* Where the erlang operator starts from, and what it may leave
Running(t) == t = None \/ t.type \in {"int", "list", "bin", "abort"}

LEMMA RunningTerm ==
  /\ Running(None) /\ ~IsEtf(None) /\ None.type = "none"
  /\ \A t : Running(t) /\ t # None => IsEtf(t) /\ Valued(t)
  /\ \A t : Valued(t) /\ IsEtf(t) => Running(t) /\ t # None
  /\ Valued(None) /\ \A n \in Int : Valued(Text(n))
  /\ \A w : Valued(Term("bytes", w))
  BY DEF Running, IsEtf, None, Term, Valued, Lasting, Number, Text

LEMMA ErlangResult ==
  ASSUME NEW x, Running(x), NEW ops, IsList(ops)
  PROVE  /\ Running(InTurn("erlang", x, ops))
         /\ x # None => InTurn("erlang", x, ops) # None
  <1> DEFINE k == "erlang"
  <1>1. Len(ops) \in Nat
    BY ListDomain
  <1>2. PICK R : /\ x \in R /\ InTurn(k, x, ops) \in R
                 /\ \A S : (/\ x \in S
                            /\ \A y \in S, i \in 1 .. Len(ops) :
                                 Step(k, y, ops[i]) \in R => Step(k, y, ops[i]) \in S)
                           => InTurn(k, x, ops) \in S
    BY <1>1, TurnsWithin
  <1> DEFINE S == {y \in R : Running(y) /\ (x # None => y # None)}
  <1>3. x \in S
    BY <1>2
  <1>4. ASSUME NEW y \in S, NEW i \in 1 .. Len(ops), Step(k, y, ops[i]) \in R
        PROVE  Step(k, y, ops[i]) \in S
    <2>1. Step(k, y, ops[i]) = IF IsEtf(ops[i]) THEN ErlangStep(y, ops[i]) ELSE y
      BY DEF Step
    <2>2. Running(ErlangStep(y, ops[i])) /\ (y # None => ErlangStep(y, ops[i]) # None)
      BY EditsMakeTerms, RunningTerm DEF Running
    <2>3. QED
      BY <1>4, <2>1, <2>2
  <1> HIDE DEF S
  <1>5. InTurn(k, x, ops) \in S
    BY <1>2, <1>3, <1>4
  <1>6. QED
    BY <1>5 DEF S

(* The counter alone, also where the erlang operator leaves a key to it *)
LEMMA CounterJoin ==
  ASSUME NEW v, Valued(v), NEW a, Countable(a)
  PROVE  /\ \E r \in Int : CounterMerge(v, a) = Text(r)
         /\ \A b : Countable(b) => CounterMerge(v, a \o b) = CounterMerge(CounterMerge(v, a), b)
  <1>1. PICK n \in Int : n = Number(v)
    BY DEF Valued
  <1>2. CounterMerge(v, a) = InTurn("counter", Text(n), a)
    BY <1>1 DEF CounterMerge, Text
  <1>3. PICK r \in Int : InTurn("counter", Text(n), a) = Text(r)
    BY CounterResult
  <1>4. ASSUME NEW b, Countable(b)
        PROVE  CounterMerge(v, a \o b) = CounterMerge(CounterMerge(v, a), b)
    <2>1. CounterMerge(v, a \o b) = InTurn("counter", Text(n), a \o b)
      BY <1>1 DEF CounterMerge, Text
    <2>2. InTurn("counter", Text(n), a \o b) = InTurn("counter", Text(r), b)
      BY <1>3, <1>4, TurnsJoin DEF Countable
    <2>3. Text(r) = Term("text", <<Number(CounterMerge(v, a))>>)
      BY <1>2, <1>3, TextNumber DEF Text
    <2>4. QED
      BY <2>1, <2>2, <2>3 DEF CounterMerge
  <1>5. QED
    BY <1>2, <1>3, <1>4

LEMMA BitsetJoin ==
  ASSUME NEW v, NEW a, IsList(a)
  PROVE  /\ \E w : BitsetMerge(v, a) = Term("bytes", w)
         /\ \A b : IsList(b) => BitsetMerge(v, a \o b) = BitsetMerge(BitsetMerge(v, a), b)
  <1>1. PICK w : BitsetMerge(v, a) = Term("bytes", w)
    BY BitsetResult DEF BitsetMerge
  <1>2. ASSUME NEW b, IsList(b)
        PROVE  BitsetMerge(v, a \o b) = BitsetMerge(BitsetMerge(v, a), b)
    <2>1. BitsetMerge(v, a \o b) = InTurn("bitset", BitsetMerge(v, a), b)
      BY <1>2, TurnsJoin DEF BitsetMerge
    <2>2. Term("bytes", w) = Term("bytes", BitsetMerge(v, a).v)
      BY <1>1 DEF Term
    <2>3. QED
      BY <1>1, <2>1, <2>2 DEF BitsetMerge
  <1>3. QED
    BY <1>1, <1>2

\* Where ErlangMerge starts
Start(v) == IF IsEtf(v) THEN v ELSE None

LEMMA ErlangValue ==
  ASSUME NEW v, Valued(v), NEW ops, Countable(ops)
  PROVE  /\ Running(Start(v)) /\ Running(InTurn("erlang", Start(v), ops))
         /\ ErlangMerge(v, ops) =
              IF (\E i \in DOMAIN ops : IsEtf(ops[i])) /\ InTurn("erlang", Start(v), ops) # None
              THEN InTurn("erlang", Start(v), ops) ELSE CounterMerge(v, ops)
         /\ Valued(ErlangMerge(v, ops))
  <1>1. Running(Start(v))
    BY RunningTerm DEF Start
  <1>2. Running(InTurn("erlang", Start(v), ops))
    BY <1>1, ErlangResult DEF Countable
  <1>3. ErlangMerge(v, ops) =
          IF (\E i \in DOMAIN ops : IsEtf(ops[i])) /\ InTurn("erlang", Start(v), ops) # None
          THEN InTurn("erlang", Start(v), ops) ELSE CounterMerge(v, ops)
    BY DEF ErlangMerge, Start
  <1>4. Valued(CounterMerge(v, ops))
    BY CounterJoin, RunningTerm
  <1>5. Valued(ErlangMerge(v, ops))
    BY <1>2, <1>3, <1>4, RunningTerm
  <1>6. QED
    BY <1>1, <1>2, <1>3, <1>5

LEMMA AlikeParts ==
  ASSUME NEW a, IsList(a), NEW b, IsList(b), Alike(a \o b)
  PROVE  /\ Alike(a) /\ Alike(b)
         /\ a # <<>> /\ b # <<>> =>
              \/ /\ \E i \in DOMAIN a : IsEtf(a[i])
                 /\ \E i \in DOMAIN b : IsEtf(b[i])
                 /\ \E i \in DOMAIN (a \o b) : IsEtf((a \o b)[i])
              \/ /\ ~\E i \in DOMAIN a : IsEtf(a[i])
                 /\ ~\E i \in DOMAIN b : IsEtf(b[i])
                 /\ ~\E i \in DOMAIN (a \o b) : IsEtf((a \o b)[i])
  <1>1. Joins(a, b, a \o b)
    BY ListJoin
  <1> DEFINE c == a \o b
  <1>2. /\ \A i \in DOMAIN a : i \in DOMAIN c /\ c[i] = a[i]
        /\ \A i \in DOMAIN b : Len(a) + i \in DOMAIN c /\ c[Len(a) + i] = b[i]
    BY <1>1 DEF Joins
  <1>3. /\ a # <<>> => 1 \in DOMAIN a
        /\ b # <<>> => 1 \in DOMAIN b
    BY <1>1, ListLaws DEF Joins
  <1> HIDE DEF c
  <1>4. CASE \A i \in DOMAIN c : IsEtf(c[i])
    BY <1>2, <1>3, <1>4 DEF Alike, c
  <1>5. CASE \A i \in DOMAIN c : ~IsEtf(c[i])
    BY <1>2, <1>3, <1>5 DEF Alike, c
  <1>6. QED
    BY <1>4, <1>5 DEF Alike, c

LEMMA ErlangJoin ==
  ASSUME NEW v, Valued(v), NEW a, Countable(a), NEW b, Countable(b),
         a # <<>>, b # <<>>, Alike(a \o b)
  PROVE  ErlangMerge(v, a \o b) = ErlangMerge(ErlangMerge(v, a), b)
  <1> DEFINE x == Start(v)
             r == InTurn("erlang", x, a)
             s == InTurn("erlang", x, a \o b)
             m == ErlangMerge(v, a)
  <1>1. Countable(a \o b)
    BY CountableJoin
  <1>2. s = InTurn("erlang", r, b)
    BY TurnsJoin DEF Countable
  <1>3. Running(x) /\ Running(r) /\ Valued(m) /\ Running(s)
    BY <1>1, ErlangValue
  <1>4. CounterMerge(v, a \o b) = CounterMerge(CounterMerge(v, a), b)
        /\ \E n \in Int : CounterMerge(v, a) = Text(n)
    BY CounterJoin
  <1>5. CASE /\ \E i \in DOMAIN a : IsEtf(a[i])
             /\ \E i \in DOMAIN b : IsEtf(b[i])
             /\ \E i \in DOMAIN (a \o b) : IsEtf((a \o b)[i])
    <2>1. m = IF r # None THEN r ELSE CounterMerge(v, a)
      BY <1>5, ErlangValue
    <2>2. ErlangMerge(v, a \o b) = IF s # None THEN s ELSE CounterMerge(v, a \o b)
      BY <1>1, <1>5, ErlangValue
    <2>3. ErlangMerge(m, b) = IF InTurn("erlang", Start(m), b) # None
                              THEN InTurn("erlang", Start(m), b) ELSE CounterMerge(m, b)
      BY <1>3, <1>5, ErlangValue
    <2>4. CASE r # None
      <3>1. m = r /\ IsEtf(r) /\ Start(m) = r
        BY <1>3, <2>1, <2>4, RunningTerm DEF Start
      <3>2. InTurn("erlang", Start(m), b) = s
        BY <1>2, <3>1
      <3>3. s # None
        BY <1>2, <1>3, <2>4, ErlangResult DEF Countable
      <3>4. QED
        BY <2>2, <2>3, <3>2, <3>3
    <2>5. CASE r = None
      <3>1. m = CounterMerge(v, a) /\ Start(m) = None
        BY <1>4, <2>1, <2>5, TextNumber DEF Start
      <3>2. InTurn("erlang", Start(m), b) = s
        BY <1>2, <2>5, <3>1
      <3>3. QED
        BY <1>4, <2>2, <2>3, <3>1, <3>2
    <2>6. QED
      BY <2>4, <2>5
  <1>6. CASE /\ ~\E i \in DOMAIN a : IsEtf(a[i])
             /\ ~\E i \in DOMAIN b : IsEtf(b[i])
             /\ ~\E i \in DOMAIN (a \o b) : IsEtf((a \o b)[i])
    <2>1. m = CounterMerge(v, a)
      BY <1>6, ErlangValue
    <2>2. ErlangMerge(v, a \o b) = CounterMerge(v, a \o b)
      BY <1>1, <1>6, ErlangValue
    <2>3. ErlangMerge(m, b) = CounterMerge(m, b)
      BY <1>3, <1>6, ErlangValue
    <2>4. QED
      BY <1>4, <2>1, <2>2, <2>3
  <1>7. QED
    BY <1>5, <1>6, AlikeParts DEF Countable


(* Operands may be merged in two goes, when the value is part of the first. *)
LEMMA MergeJoin ==
  ASSUME NEW k \in {"counter", "erlang", "bitset"}, NEW v, Valued(v),
         NEW a, Countable(a), NEW b, Countable(b), a # <<>>, b # <<>>,
         k = "erlang" => Alike(a \o b)
  PROVE  Merge(k, v, a \o b) = Merge(k, Merge(k, v, a), b)
  <1>1. CASE k = "counter"
    BY <1>1, CounterJoin DEF Merge
  <1>2. CASE k = "erlang"
    BY <1>2, ErlangJoin DEF Merge
  <1>3. CASE k = "bitset"
    BY <1>3, BitsetJoin DEF Merge, Countable
  <1>4. QED
    BY <1>1, <1>2, <1>3

LEMMA MergeValue ==
  ASSUME NEW k \in {"counter", "erlang", "bitset"}, NEW v, Valued(v),
         NEW a, Countable(a)
  PROVE  Valued(Merge(k, v, a))
  <1>1. CASE k = "counter"
    <2>1. Valued(CounterMerge(v, a))
      BY CounterJoin, RunningTerm
    <2>2. QED
      BY <1>1, <2>1 DEF Merge
  <1>2. CASE k = "erlang"
    BY <1>2, ErlangValue DEF Merge
  <1>3. CASE k = "bitset"
    <2>1. Valued(BitsetMerge(v, a))
      BY BitsetJoin, RunningTerm DEF Countable
    <2>2. QED
      BY <1>3, <2>1 DEF Merge
  <1>4. QED
    BY <1>1, <1>2, <1>3

(* A counter takes the sum of operands as well as the operands: sums and
   wraps commute. *)
LEMMA CounterSum ==
  ASSUME NEW x \in Int, NEW b, Countable(b), b # <<>>
  PROVE  InTurn("counter", Text(x), <<CounterMerge(None, b)>>) = InTurn("counter", Text(x), b)
  <1>1. Len(b) \in Nat /\ DOMAIN b = 1 .. Len(b) /\ Len(b) # 0
    BY ListDomain, ListLaws DEF Countable
  <1>2. PICK n \in Nat \ {0} : n = Len(b)
    BY <1>1
  <1>3. PICK t : TurnsOf(t, "counter", Text(x), b)
                 /\ InTurn("counter", Text(x), b) = t[Len(b)]
    BY <1>1, Turns
  <1>4. PICK u : TurnsOf(u, "counter", Text(0), b)
                 /\ InTurn("counter", Text(0), b) = u[Len(b)]
    BY <1>1, Turns
  <1> DEFINE W(z) == Wrap(z, I64Half)
             Sum(i, r, s) == /\ t[i] = Text(r) /\ u[i] = Text(s) /\ W(r) = W(x + s)
                             /\ i # 0 => W(r) = r
             Has(i) == \E r \in Int : \E s \in Int : Sum(i, r, s)
             I == {i \in Nat : i <= n => Has(i)}
  <1>5. \A y \in Int, z \in Int : W(y) \in Int /\ W(W(y) + z) = W(y + z)
    <2>1. I64Half \in Nat \ {0}
      BY WidthAssumption
    <2>2. QED
      BY <2>1, WrapAdds
  <1>6. ASSUME NEW y \in Int PROVE W(W(y)) = W(y)
    <2> HIDE DEF W
    <2>1. W(y) \in Int /\ W(W(y) + 0) = W(y + 0)
      BY <1>5
    <2>2. W(y) + 0 = W(y) /\ y + 0 = y
      BY <2>1
    <2>3. QED
      BY <2>1, <2>2
  <1>7. 0 \in I
    <2>1. Sum(0, x, 0)
      BY <1>3, <1>4 DEF TurnsOf
    <2> HIDE DEF Sum
    <2>2. QED
      BY <2>1
  <1>8. ASSUME NEW i \in Nat, i \in I PROVE i + 1 \in I
    <2> SUFFICES ASSUME i + 1 <= n PROVE Has(i + 1)
      OBVIOUS
    <2>1. i + 1 \in 1 .. Len(b) /\ (i + 1) - 1 = i /\ Has(i) /\ i + 1 # 0
      BY <1>2, <1>8
    <2>2. PICK r \in Int, s \in Int : Sum(i, r, s)
      BY <2>1
    <2>3. PICK c \in Int : c = Number(b[i + 1])
      BY <1>1, <2>1 DEF Countable
    <2>4. t[i + 1] = Step("counter", Text(r), b[i + 1])
          /\ u[i + 1] = Step("counter", Text(s), b[i + 1])
      BY <1>3, <1>4, <2>1, <2>2 DEF TurnsOf
    <2>5. t[i + 1] = Text(W(r + c)) /\ u[i + 1] = Text(W(s + c))
      BY <2>3, <2>4, TextNumber DEF Step, CounterStep, Text
    <2> HIDE DEF W
    <2>6. W(r + c) = W(x + s + c)
      <3>1. W(W(r) + c) = W(r + c) /\ W(W(x + s) + c) = W(x + s + c)
        BY <1>5
      <3>2. QED
        BY <2>2, <3>1
    <2>7. W(x + W(s + c)) = W(x + s + c)
      <3>1. W(s + c) \in Int /\ W(W(s + c) + x) = W((s + c) + x)
        BY <1>5
      <3>2. x + W(s + c) = W(s + c) + x /\ (s + c) + x = x + s + c
        BY <3>1
      <3>3. QED
        BY <3>1, <3>2
    <2>8. W(W(r + c)) = W(r + c)
      BY <1>6
    <2>9. W(r + c) \in Int /\ W(s + c) \in Int
      BY <1>5
    <2>10. Sum(i + 1, W(r + c), W(s + c))
      BY <2>5, <2>6, <2>7, <2>8
    <2> HIDE DEF Sum
    <2>11. QED
      BY <2>9, <2>10
  <1> HIDE DEF I
  <1>9. n \in I
    BY <1>7, <1>8, InductionSet
  <1>10. PICK r \in Int, s \in Int : Sum(n, r, s)
    BY <1>9 DEF I
  <1>11. InTurn("counter", Text(x), b) = Text(W(x + s))
    <2>1. t[n] = Text(r) /\ W(r) = W(x + s) /\ W(r) = r
      BY <1>10
    <2>2. QED
      BY <1>2, <1>3, <2>1
  <1>12. CounterMerge(None, b) = Text(s)
    <2>1. Term("text", <<Number(None)>>) = Text(0)
      BY DEF Text, Number, None, Term
    <2>2. QED
      BY <1>2, <1>4, <1>10, <2>1 DEF CounterMerge
  <1>13. InTurn("counter", Text(x), <<Text(s)>>) = Text(W(x + s))
    <2>1. Step("counter", Text(x), Text(s)) = Text(W(x + s))
      BY TextNumber DEF Step, CounterStep, Text
    <2>2. PICK z, o : z = Text(x) /\ o = Text(s)
      OBVIOUS
    <2>3. \A q : InTurn("counter", z, <<q>>) = Step("counter", z, q)
      BY TurnsShort
    <2>4. InTurn("counter", z, <<o>>) = Step("counter", z, o)
      BY <2>3
    <2>5. QED
      BY <2>1, <2>2, <2>4
  <1>14. QED
    BY <1>11, <1>12, <1>13

(* So the operands of a counter may be merged anywhere among the others. *)
LEMMA CounterCollapse ==
  ASSUME NEW v, Valued(v), NEW a, Countable(a), NEW b, Countable(b), b # <<>>,
         NEW c, Countable(c)
  PROVE  LET m == <<CounterMerge(None, b)>>
         IN /\ Countable(m)
            /\ CounterMerge(v, (a \o m) \o c) = CounterMerge(v, (a \o b) \o c)
  <1> DEFINE m == <<CounterMerge(None, b)>>
  <1>1. PICK n \in Int : n = Number(v)
    BY DEF Valued
  <1>2. PICK r \in Int : InTurn("counter", Text(n), a) = Text(r)
    BY CounterResult
  <1>3. Countable(m)
    <2>1. PICK s \in Int : CounterMerge(None, b) = Text(s)
      BY CounterJoin, RunningTerm
    <2>2. IsList(m) /\ Len(m) = 1 /\ DOMAIN m = 1 .. 1 /\ m[1] = Text(s)
      BY <2>1, ListLaws, ListDomain
    <2> HIDE DEF m
    <2>3. QED
      BY <2>2, TextNumber DEF Countable
  <1>4. InTurn("counter", Text(r), m) = InTurn("counter", Text(r), b)
    BY CounterSum
  <1> HIDE DEF m
  <1>5. InTurn("counter", Text(n), a \o m) = InTurn("counter", Text(n), a \o b)
    BY <1>2, <1>3, <1>4, TurnsJoin DEF Countable
  <1>6. InTurn("counter", Text(n), (a \o m) \o c) = InTurn("counter", Text(n), (a \o b) \o c)
    <2>1. IsList(a \o m) /\ IsList(a \o b)
      BY <1>3, ListJoin DEF Countable
    <2>2. QED
      BY <1>5, <2>1, TurnsJoin DEF Countable
  <1>7. CounterMerge(v, (a \o m) \o c) = CounterMerge(v, (a \o b) \o c)
    BY <1>1, <1>6 DEF CounterMerge, Text
  <1>8. QED
    BY <1>3, <1>7 DEF m


-----------------------------------------------------------------------------
(* Layers *)

\* What the memtable, a file or the history may be
LayerOK(l) ==
  /\ l = Layer(l.over, l.value, l.operands)
  /\ l.over \in BOOLEAN /\ Valued(l.value) /\ (~l.over => l.value = None)
  /\ Countable(l.operands)

\* Applied, of a DB opened with the operator k
Gives(k, l) == IF l.operands = <<>> THEN l.value ELSE Merge(k, l.value, l.operands)

LEMMA LayerFields ==
  ASSUME NEW o, NEW v, NEW ops
  PROVE  /\ Layer(o, v, ops).over = o /\ Layer(o, v, ops).value = v
         /\ Layer(o, v, ops).operands = ops
         /\ o \in BOOLEAN /\ Valued(v) /\ (~o => v = None) /\ Countable(ops)
              => LayerOK(Layer(o, v, ops))
  BY DEF Layer, LayerOK

LEMMA AboveFields ==
  ASSUME NEW x, NEW y, ~y.over
  PROVE  /\ Above(x, y) = Layer(x.over, x.value, x.operands \o y.operands)
         /\ Above(x, y).over = x.over /\ Above(x, y).value = x.value
         /\ Above(x, y).operands = x.operands \o y.operands
  BY DEF Above, Layer

LEMMA JoinEmpty ==
  ASSUME NEW a, IsList(a), NEW b, IsList(b)
  PROVE  a \o b = <<>> <=> a = <<>> /\ b = <<>>
  <1>1. Len(a) \in Nat /\ Len(b) \in Nat /\ Len(a \o b) = Len(a) + Len(b) /\ IsList(a \o b)
    BY ListJoin DEF Joins
  <1>2. /\ a = <<>> <=> Len(a) = 0
        /\ b = <<>> <=> Len(b) = 0
        /\ a \o b = <<>> <=> Len(a \o b) = 0
    BY <1>1, ListLaws
  <1>3. QED
    BY <1>1, <1>2

\* Three lists may be joined from either side.
Associates(a, b, c) == (a \o b) \o c = a \o (b \o c)

LEMMA JoinThree ==
  ASSUME NEW a, IsList(a), NEW b, IsList(b), NEW c, IsList(c)
  PROVE  Associates(a, b, c)
  BY ListLaws DEF Associates

LEMMA EmptyLayer ==
  /\ Countable(<<>>) /\ LayerOK(Empty) /\ ~Empty.over /\ Empty.value = None
  /\ Empty.operands = <<>>
  /\ \A l : LayerOK(l) => Above(Empty, l) = l /\ Above(l, Empty) = l
  <1>1. Countable(<<>>)
    BY ListLaws, ListDomain DEF Countable
  <1>2. LayerOK(Empty) /\ ~Empty.over /\ Empty.value = None /\ Empty.operands = <<>>
    <2>1. Empty.over = FALSE /\ Empty.value = None /\ Empty.operands = <<>>
      BY DEF Empty, Layer
    <2>2. Empty = Layer(Empty.over, Empty.value, Empty.operands)
      BY DEF Empty, Layer
    <2>3. QED
      BY <1>1, <2>1, <2>2, RunningTerm DEF LayerOK
  <1>3. ASSUME NEW l, LayerOK(l) PROVE Above(Empty, l) = l /\ Above(l, Empty) = l
    <2>1. <<>> \o l.operands = l.operands /\ l.operands \o <<>> = l.operands
      BY <1>3, ListLaws DEF LayerOK, Countable
    <2>2. Above(l, Empty) = l
      BY <1>2, <1>3, <2>1 DEF Above, LayerOK
    <2>3. Above(Empty, l) = l
      <3>1. CASE l.over
        BY <3>1 DEF Above
      <3>2. CASE ~l.over
        BY <1>2, <1>3, <2>1, <3>2 DEF Above, LayerOK
      <3>3. QED
        BY <3>1, <3>2
    <2>4. QED
      BY <2>2, <2>3
  <1>4. QED
    BY <1>1, <1>2, <1>3

LEMMA AboveOK ==
  ASSUME NEW x, LayerOK(x), NEW y, LayerOK(y)
  PROVE  /\ LayerOK(Above(x, y))
         /\ \A z : LayerOK(z) => Above(Above(x, y), z) = Above(x, Above(y, z))
  <1>1. Countable(x.operands \o y.operands)
    BY CountableJoin DEF LayerOK
  <1>2. LayerOK(Above(x, y))
    <2>1. CASE y.over
      BY <2>1 DEF Above
    <2>2. CASE ~y.over
      <3>1. LayerOK(Layer(x.over, x.value, x.operands \o y.operands))
        BY <1>1, LayerFields DEF LayerOK
      <3>2. QED
        BY <2>2, <3>1 DEF Above
    <2>3. QED
      BY <2>1, <2>2
  <1>3. ASSUME NEW z, LayerOK(z)
        PROVE  Above(Above(x, y), z) = Above(x, Above(y, z))
    <2>1. (x.operands \o y.operands) \o z.operands = x.operands \o (y.operands \o z.operands)
      <3>1. IsList(x.operands) /\ IsList(y.operands) /\ IsList(z.operands)
        BY <1>3 DEF LayerOK, Countable
      <3>2. Associates(x.operands, y.operands, z.operands)
        BY <3>1, JoinThree
      <3>3. QED
        BY <3>2 DEF Associates
    <2>2. CASE z.over
      BY <2>2 DEF Above
    <2>3. CASE ~z.over /\ y.over
      <3>1. PICK w : w = Above(y, z)
        OBVIOUS
      <3>2. w = Layer(y.over, y.value, y.operands \o z.operands)
        BY <2>3, <3>1 DEF Above
      <3>3. w.over
        BY <2>3, <3>2 DEF Layer
      <3>4. Above(x, w) = w
        BY <3>3 DEF Above
      <3>5. Above(x, y) = y
        BY <2>3 DEF Above
      <3>6. QED
        BY <3>1, <3>4, <3>5
    <2>4. CASE ~z.over /\ ~y.over
      <3>1. ~Layer(y.over, y.value, y.operands \o z.operands).over
        BY <2>4, LayerFields
      <3>2. Above(x, Above(y, z)) = Layer(x.over, x.value, x.operands \o (y.operands \o z.operands))
        BY <2>4, <3>1, LayerFields DEF Above
      <3>3. Above(Above(x, y), z) = Layer(x.over, x.value, (x.operands \o y.operands) \o z.operands)
        BY <2>4, LayerFields DEF Above
      <3>4. QED
        BY <2>1, <3>2, <3>3
    <2>5. QED
      BY <2>2, <2>3, <2>4
  <1>4. QED
    BY <1>2, <1>3

(* Operands above a layer are merged with what the layer alone gives. *)
LEMMA GivesAbove ==
  ASSUME NEW k \in {"counter", "erlang", "bitset"}, NEW x, LayerOK(x),
         NEW y, LayerOK(y), ~y.over, y.operands # <<>>,
         k = "erlang" /\ x.operands # <<>> => Alike(Above(x, y).operands)
  PROVE  Gives(k, Above(x, y)) = Merge(k, Gives(k, x), y.operands)
  <1>1. Above(x, y).value = x.value /\ Above(x, y).operands = x.operands \o y.operands
    BY AboveFields
  <1>2. /\ Valued(x.value) /\ Countable(x.operands) /\ Countable(y.operands)
        /\ IsList(x.operands) /\ IsList(y.operands)
    BY DEF LayerOK, Countable
  <1>3. CASE x.operands = <<>>
    <2>1. Above(x, y).operands = y.operands
      BY <1>1, <1>2, <1>3, ListLaws
    <2>2. QED
      BY <1>1, <1>3, <2>1 DEF Gives
  <1>4. CASE x.operands # <<>>
    <2>1. x.operands \o y.operands # <<>>
      BY <1>2, <1>4, JoinEmpty
    <2>2. Merge(k, x.value, x.operands \o y.operands)
            = Merge(k, Merge(k, x.value, x.operands), y.operands)
      BY <1>1, <1>2, <1>4, MergeJoin
    <2>3. QED
      BY <1>1, <1>4, <2>1, <2>2 DEF Gives
  <1>5. QED
    BY <1>3, <1>4

LEMMA GivesValue ==
  ASSUME NEW k \in {"counter", "erlang", "bitset"}, NEW x, LayerOK(x)
  PROVE  Valued(Gives(k, x))
  BY MergeValue DEF Gives, LayerOK


(* Files are stacked one after the other. *)
StackOf(t, fs) == t[0] = Empty /\ \A i \in 1 .. Len(fs) : t[i] = Above(t[i - 1], fs[i])

LEMMA Stacking ==
  ASSUME NEW fs, Len(fs) \in Nat
  PROVE  \E t : StackOf(t, fs) /\ Stacked(fs) = t[Len(fs)]
  <1> DEFINE n == Len(fs)
             IsRun(f) == f = [i \in 0 .. n |->
                                IF i = 0 THEN Empty ELSE Above(f[i - 1], fs[i])]
             Upto(m, g) == /\ g[0] = Empty /\ DOMAIN g = 0 .. m
                           /\ g = [i \in 0 .. m |-> g[i]]
                           /\ \A i \in 1 .. m : g[i] = Above(g[i - 1], fs[i])
             Has(m) == \E g : Upto(m, g)
             Defined == {m \in Nat : Has(m)}
  <1> HIDE DEF Has
  <1>1. 0 \in Defined
    <2>1. Upto(0, [i \in 0 .. 0 |-> Empty])
      OBVIOUS
    <2>2. QED
      BY <2>1 DEF Has
  <1>2. ASSUME NEW m \in Nat, m \in Defined PROVE m + 1 \in Defined
    <2>1. PICK g : Upto(m, g)
      BY <1>2 DEF Has
    <2> DEFINE h == [i \in 0 .. m + 1 |-> IF i = m + 1 THEN Above(g[m], fs[m + 1]) ELSE g[i]]
    <2>2. h[0] = Empty /\ DOMAIN h = 0 .. m + 1 /\ h = [i \in 0 .. m + 1 |-> h[i]]
      BY <2>1
    <2>3. ASSUME NEW i \in 1 .. m + 1 PROVE h[i] = Above(h[i - 1], fs[i])
      <3>1. CASE i = m + 1
        <4>1. h[i] = Above(g[m], fs[m + 1]) /\ h[i - 1] = g[m]
          BY <3>1
        <4>2. QED
          BY <3>1, <4>1
      <3>2. CASE i # m + 1
        <4>1. i \in 1 .. m /\ h[i] = g[i] /\ h[i - 1] = g[i - 1]
          BY <3>2
        <4>2. QED
          BY <2>1, <4>1
      <3>3. QED
        BY <3>1, <3>2
    <2> HIDE DEF h
    <2>4. Upto(m + 1, h)
      BY <2>2, <2>3
    <2>5. Has(m + 1)
      BY <2>4 DEF Has
    <2>6. QED
      BY <2>5
  <1>3. n \in Defined
    <2> HIDE DEF Defined
    <2>1. Nat \subseteq Defined
      BY <1>1, <1>2, InductionSet
    <2>2. QED
      BY <2>1
  <1>4. PICK g : Upto(n, g)
    BY <1>3 DEF Has
  <1>5. IsRun(g)
    <2> DEFINE E(i) == IF i = 0 THEN Empty ELSE Above(g[i - 1], fs[i])
    <2>1. ASSUME NEW i \in 0 .. n PROVE g[i] = E(i)
      <3>1. CASE i = 0
        BY <1>4, <3>1
      <3>2. CASE i # 0
        <4>1. i \in 1 .. n
          BY <3>2
        <4>2. QED
          BY <1>4, <3>2, <4>1
      <3>3. QED
        BY <3>1, <3>2
    <2> HIDE DEF E
    <2>2. g = [i \in 0 .. n |-> E(i)]
      BY <1>4, <2>1
    <2>3. QED
      BY <2>2 DEF E
  <1>6. PICK t : t = (CHOOSE f : IsRun(f)) /\ Stacked(fs) = t[n]
    BY DEF Stacked
  <1>7. IsRun(t)
    BY <1>5, <1>6
  <1>8. t[0] = Empty
    <2>1. 0 \in 0 .. n
      OBVIOUS
    <2>2. QED
      BY <1>7, <2>1, Zenon
  <1>9. ASSUME NEW i \in 1 .. n PROVE t[i] = Above(t[i - 1], fs[i])
    <2>1. i \in 0 .. n /\ i # 0
      OBVIOUS
    <2>2. QED
      BY <1>7, <2>1, Zenon
  <1>10. StackOf(t, fs)
    BY <1>8, <1>9 DEF StackOf
  <1>11. QED
    BY <1>6, <1>10

LayersOK(fs) == IsList(fs) /\ \A i \in DOMAIN fs : LayerOK(fs[i])

LEMMA StackingOK ==
  ASSUME NEW fs, LayersOK(fs), NEW t, StackOf(t, fs)
  PROVE  \A i \in 0 .. Len(fs) : LayerOK(t[i])
  <1>1. Len(fs) \in Nat /\ DOMAIN fs = 1 .. Len(fs)
    BY ListDomain DEF LayersOK
  <1>2. PICK n \in Nat : n = Len(fs)
    BY <1>1
  <1> DEFINE I == {i \in Nat : i <= n => LayerOK(t[i])}
  <1>3. 0 \in I
    BY EmptyLayer DEF StackOf
  <1>4. ASSUME NEW i \in Nat, i \in I PROVE i + 1 \in I
    <2> SUFFICES ASSUME i + 1 <= n PROVE LayerOK(t[i + 1])
      OBVIOUS
    <2>1. i + 1 \in 1 .. n /\ (i + 1) - 1 = i /\ LayerOK(t[i])
      BY <1>4
    <2>2. t[i + 1] = Above(t[i], fs[i + 1]) /\ LayerOK(fs[i + 1])
      BY <1>1, <1>2, <2>1 DEF StackOf, LayersOK
    <2>3. QED
      BY <2>1, <2>2, AboveOK
  <1> HIDE DEF I
  <1>5. Nat \subseteq I
    BY <1>3, <1>4, InductionSet
  <1>6. ASSUME NEW i \in 0 .. Len(fs) PROVE LayerOK(t[i])
    <2>1. i \in Nat /\ i <= n
      BY <1>2
    <2>2. i \in I
      BY <1>5, <2>1
    <2>3. QED
      BY <2>1, <2>2 DEF I
  <1>7. QED
    BY <1>6

(* A stack of files is one part of it above the other. *)
LEMMA StackJoin ==
  ASSUME NEW a, LayersOK(a), NEW b, LayersOK(b), NEW c, Joins(a, b, c)
  PROVE  /\ Stacked(c) = Above(Stacked(a), Stacked(b))
         /\ LayerOK(Stacked(a)) /\ LayerOK(Stacked(b))
  <1>1. Len(a) \in Nat /\ Len(b) \in Nat /\ Len(c) \in Nat /\ DOMAIN b = 1 .. Len(b)
    BY DEF Joins
  <1>2. PICK n, m : /\ n = Len(a) /\ m = Len(b) /\ n \in Nat /\ m \in Nat /\ Len(c) = n + m
                    /\ \A i \in 1 .. n : c[i] = a[i]
                    /\ \A i \in 1 .. m : c[n + i] = b[i]
    BY Zenon DEF Joins
  <1>3. PICK t : StackOf(t, c) /\ Stacked(c) = t[Len(c)]
    BY <1>1, Stacking
  <1>4. PICK u : StackOf(u, a) /\ Stacked(a) = u[Len(a)]
    BY <1>1, Stacking
  <1>5. PICK w : StackOf(w, b) /\ Stacked(b) = w[Len(b)]
    BY <1>1, Stacking
  <1>6. n \in 0 .. Len(a) /\ m \in 0 .. Len(b) /\ \A i \in 0 .. m : i \in 0 .. Len(b)
    BY <1>2
  <1>7. LayerOK(u[n]) /\ \A i \in 0 .. m : LayerOK(w[i])
    BY <1>4, <1>5, <1>6, StackingOK
  <1> DEFINE First == {i \in Nat : i <= n => t[i] = u[i]}
             Second == {i \in Nat : i <= m => t[n + i] = Above(u[n], w[i])}
  <1>8. t[n] = u[n]
    <2>1. 0 \in First
      BY <1>3, <1>4 DEF StackOf
    <2>2. ASSUME NEW i \in Nat, i \in First PROVE i + 1 \in First
      <3> SUFFICES ASSUME i + 1 <= n PROVE t[i + 1] = u[i + 1]
        OBVIOUS
      <3>1. i + 1 \in 1 .. n /\ i + 1 \in 1 .. n + m /\ (i + 1) - 1 = i /\ t[i] = u[i]
        BY <1>2, <2>2
      <3>2. t[i + 1] = Above(t[i], c[i + 1]) /\ u[i + 1] = Above(u[i], a[i + 1])
        BY <1>2, <1>3, <1>4, <3>1 DEF StackOf
      <3>3. c[i + 1] = a[i + 1]
        BY <1>2, <3>1
      <3>4. QED
        BY <3>1, <3>2, <3>3
    <2> HIDE DEF First
    <2>3. n \in First
      BY <1>2, <2>1, <2>2, InductionSet
    <2>4. QED
      BY <1>2, <2>3 DEF First
  <1>9. t[n + m] = Above(u[n], w[m])
    <2>1. 0 \in Second
      <3>1. n + 0 = n /\ w[0] = Empty
        BY <1>2, <1>5 DEF StackOf
      <3>2. QED
        BY <1>7, <1>8, <3>1, EmptyLayer
    <2>2. ASSUME NEW i \in Nat, i \in Second PROVE i + 1 \in Second
      <3> SUFFICES ASSUME i + 1 <= m PROVE t[n + (i + 1)] = Above(u[n], w[i + 1])
        OBVIOUS
      <3>1. /\ i + 1 \in 1 .. m /\ n + (i + 1) \in 1 .. n + m /\ (i + 1) - 1 = i
            /\ (n + (i + 1)) - 1 = n + i /\ i \in 0 .. m
            /\ t[n + i] = Above(u[n], w[i])
        BY <1>2, <2>2
      <3>2. t[n + (i + 1)] = Above(t[n + i], c[n + (i + 1)])
        BY <1>2, <1>3, <3>1 DEF StackOf
      <3>3. c[n + (i + 1)] = b[i + 1] /\ w[i + 1] = Above(w[i], b[i + 1])
        BY <1>2, <1>5, <3>1 DEF StackOf
      <3>4. LayerOK(w[i]) /\ LayerOK(b[i + 1])
        BY <1>1, <1>2, <1>7, <3>1 DEF LayersOK
      <3>5. Above(Above(u[n], w[i]), b[i + 1]) = Above(u[n], Above(w[i], b[i + 1]))
        BY <1>7, <3>4, AboveOK
      <3>6. QED
        BY <3>1, <3>2, <3>3, <3>5
    <2> HIDE DEF Second
    <2>3. m \in Second
      BY <1>2, <2>1, <2>2, InductionSet
    <2>4. QED
      BY <1>2, <2>3 DEF Second
  <1>10. Len(a) = n /\ Len(b) = m /\ Len(c) = n + m /\ LayerOK(w[m])
    BY <1>2, <1>7
  <1>11. QED
    BY <1>3, <1>4, <1>5, <1>7, <1>8, <1>9, <1>10

LEMMA StackShort ==
  /\ Stacked(<<>>) = Empty
  /\ \A l : LayerOK(l) => Stacked(<<l>>) = l /\ LayersOK(<<l>>)
  <1>1. Stacked(<<>>) = Empty
    <2>1. Len(<<>>) = 0 /\ 0 \in Nat
      BY ListLaws
    <2>2. PICK t : StackOf(t, <<>>) /\ Stacked(<<>>) = t[Len(<<>>)]
      BY <2>1, Stacking
    <2>3. QED
      BY <2>1, <2>2 DEF StackOf
  <1>2. ASSUME NEW l, LayerOK(l) PROVE Stacked(<<l>>) = l /\ LayersOK(<<l>>)
    <2> DEFINE s == <<l>>
    <2>1. Len(s) = 1 /\ Len(s) \in Nat /\ s[1] = l /\ IsList(s) /\ DOMAIN s = 1 .. 1
      BY ListLaws, ListDomain
    <2> HIDE DEF s
    <2>2. PICK t : StackOf(t, s) /\ Stacked(s) = t[Len(s)]
      BY <2>1, Stacking
    <2>3. 1 \in 1 .. 1 /\ 1 - 1 = 0
      OBVIOUS
    <2>4. t[1] = Above(t[0], s[1]) /\ t[0] = Empty
      BY <2>1, <2>2, <2>3 DEF StackOf
    <2>5. t[1] = l
      BY <1>2, <2>1, <2>4, EmptyLayer
    <2>6. LayersOK(s)
      BY <1>2, <2>1 DEF LayersOK
    <2>7. QED
      BY <2>1, <2>2, <2>5, <2>6 DEF s
  <1>3. QED
    BY <1>1, <1>2


\* Written, of a DB opened with the operator k
Rewritten(k, l, bottom) ==
  IF l.over \/ bottom THEN Layer(TRUE, Gives(k, l), <<>>)
  ELSE IF Len(l.operands) < 2 THEN l
  ELSE Layer(FALSE, None, <<PartialMerge(k, l.operands)>>)

\* z is the layer y, which replaces nothing, above x.
Extends(x, y, z) ==
  z.over = x.over /\ z.value = x.value /\ z.operands = x.operands \o y.operands

LEMMA AboveExtends ==
  ASSUME NEW x, NEW y, ~y.over
  PROVE  Extends(x, y, Above(x, y))
  BY AboveFields DEF Extends

\* Every element of a is one of b.
Among(a, b) == \A i \in DOMAIN a : \E j \in DOMAIN b : a[i] = b[j]

LEMMA AmongJoin ==
  ASSUME NEW a, IsList(a), NEW b, IsList(b)
  PROVE  Among(a, a \o b) /\ Among(b, a \o b)
  <1>1. Joins(a, b, a \o b)
    BY ListJoin
  <1>2. /\ \A i \in DOMAIN a : i \in DOMAIN (a \o b) /\ (a \o b)[i] = a[i]
        /\ \A i \in DOMAIN b : Len(a) + i \in DOMAIN (a \o b) /\ (a \o b)[Len(a) + i] = b[i]
    BY <1>1 DEF Joins
  <1>3. QED
    BY <1>2 DEF Among

LEMMA AmongLaws ==
  /\ \A a : Among(a, a)
  /\ \A a : Among(<<>>, a)
  /\ \A a, b, c : Among(a, b) /\ Among(b, c) => Among(a, c)
  /\ \A a, b : Among(a, b) /\ Alike(b) => Alike(a)
  <1>1. \A a : Among(a, a)
    BY DEF Among
  <1>2. ASSUME NEW a PROVE Among(<<>>, a)
    <2>1. \A i : i \notin DOMAIN <<>>
      BY ListLaws, ListDomain
    <2>2. QED
      BY <2>1 DEF Among
  <1>3. \A a, b, c : Among(a, b) /\ Among(b, c) => Among(a, c)
    BY DEF Among
  <1>4. \A a, b : Among(a, b) /\ Alike(b) => Alike(a)
    BY DEF Among, Alike
  <1>5. QED
    BY <1>1, <1>2, <1>3, <1>4

LEMMA AmongOf ==
  ASSUME NEW a, IsList(a), NEW b, IsList(b), NEW c, Among(a, c), Among(b, c)
  PROVE  Among(a \o b, c)
  BY ListJoinHas DEF Among

(* A file gets a value over everything, or the layer as it is, or its
   operands merged without a value. *)
FullMerge(k, q, bottom, w) ==
  /\ q.over \/ bottom
  /\ w.over = TRUE /\ w.value = Gives(k, q) /\ w.operands = <<>>
AsItIs(q, bottom, w) == w = q /\ ~Collapses(q, bottom)
Collapse(k, q, bottom, w) ==
  /\ Collapses(q, bottom) /\ q.over = FALSE /\ q.operands # <<>>
  /\ w.over = FALSE /\ w.operands = <<Merge(k, None, q.operands)>>

LEMMA RewrittenCases ==
  ASSUME NEW k \in {"counter", "erlang", "bitset"}, NEW q, LayerOK(q),
         NEW bottom \in BOOLEAN, NEW w, w = Rewritten(k, q, bottom)
  PROVE  /\ LayerOK(w) /\ Len(w.operands) \in Nat /\ Len(w.operands) <= Len(q.operands)
         /\ \/ FullMerge(k, q, bottom, w)
            \/ AsItIs(q, bottom, w)
            \/ Collapse(k, q, bottom, w)
  <1>1. IsList(q.operands) /\ Len(q.operands) \in Nat /\ q.over \in BOOLEAN
    BY ListDomain DEF LayerOK, Countable
  <1>2. CASE q.over \/ bottom
    <2>1. w = Layer(TRUE, Gives(k, q), <<>>)
      BY <1>2 DEF Rewritten
    <2>2. w.over = TRUE /\ w.value = Gives(k, q) /\ w.operands = <<>>
      BY <2>1 DEF Layer
    <2>3. Valued(Gives(k, q)) /\ Countable(<<>>)
      BY GivesValue, EmptyLayer
    <2>4. LayerOK(w)
      BY <2>1, <2>2, <2>3 DEF LayerOK
    <2>5. Len(w.operands) = 0
      BY <2>2, ListLaws
    <2>6. FullMerge(k, q, bottom, w)
      BY <1>2, <2>2 DEF FullMerge
    <2>7. QED
      BY <1>1, <2>4, <2>5, <2>6
  <1>3. CASE ~q.over /\ ~bottom /\ Len(q.operands) < 2
    <2>1. w = q
      BY <1>3 DEF Rewritten
    <2>2. ~Collapses(q, bottom)
      BY <1>1, <1>3 DEF Collapses
    <2>3. AsItIs(q, bottom, w)
      BY <2>1, <2>2 DEF AsItIs
    <2>4. QED
      BY <1>1, <2>1, <2>3
  <1>4. CASE ~q.over /\ ~bottom /\ ~(Len(q.operands) < 2)
    <2> DEFINE m == Merge(k, None, q.operands)
    <2>1. w = Layer(FALSE, None, <<m>>)
      BY <1>4 DEF Rewritten, PartialMerge
    <2>2. w.over = FALSE /\ w.value = None /\ w.operands = <<m>>
      BY <2>1 DEF Layer
    <2>3. Valued(m)
      BY MergeValue, RunningTerm DEF LayerOK
    <2>4. Countable(<<m>>) /\ Len(<<m>>) = 1
      <3> DEFINE s == <<m>>
      <3>1. Len(s) = 1 /\ s[1] = m /\ IsList(s) /\ DOMAIN s = 1 .. 1
        BY ListLaws, ListDomain
      <3> HIDE DEF s, m
      <3>2. Countable(s)
        BY <2>3, <3>1 DEF Countable, Valued
      <3>3. QED
        BY <3>1, <3>2 DEF s
    <2> HIDE DEF m
    <2>5. LayerOK(w)
      BY <2>1, <2>2, <2>4, RunningTerm DEF LayerOK
    <2>6. Collapses(q, bottom) /\ q.operands # <<>>
      <3>1. Len(q.operands) >= 2
        BY <1>1, <1>4
      <3>2. QED
        BY <1>1, <1>4, <3>1, ListLaws DEF Collapses
    <2>7. Len(w.operands) = 1 /\ 1 <= Len(q.operands)
      BY <1>1, <1>4, <2>2, <2>4
    <2>8. Collapse(k, q, bottom, w)
      BY <1>1, <1>4, <2>2, <2>6 DEF Collapse, m
    <2>9. QED
      BY <1>1, <2>5, <2>7, <2>8
  <1>5. QED
    BY <1>2, <1>3, <1>4

(* What RocksDB writes to a file in place of the layer q, between what is
   below and what is above, leaves the key as it was, except that operands
   of another operator than the counter are lost when they collapse. *)
LEMMA RewrittenKeeps ==
  ASSUME NEW k \in {"counter", "erlang", "bitset"}, NEW p, LayerOK(p),
         NEW q, LayerOK(q), NEW r, LayerOK(r), NEW bottom \in BOOLEAN, bottom => p = Empty,
         NEW x, x = Above(Above(p, q), r),
         NEW y, y = Above(Above(p, Rewritten(k, q, bottom)), r)
  PROVE  /\ ~Collapses(q, bottom) => Among(y.operands, x.operands)
         /\ (k = "counter" \/ ~Collapses(q, bottom)) /\ (k = "erlang" => Alike(x.operands))
              => Gives(k, y) = Gives(k, x)
  <1>1. PICK w : w = Rewritten(k, q, bottom)
    OBVIOUS
  <1>2. /\ IsList(p.operands) /\ IsList(q.operands) /\ IsList(r.operands)
        /\ Countable(p.operands) /\ Countable(q.operands) /\ Countable(r.operands)
        /\ Valued(p.value)
    BY DEF LayerOK, Countable
  <1>3. CASE r.over
    <2>1. x = r /\ y = r
      BY <1>3 DEF Above
    <2>2. QED
      BY <2>1, AmongLaws
  <1>4. CASE AsItIs(q, bottom, w)
    <2>1. x = y
      BY <1>1, <1>4 DEF AsItIs
    <2>2. QED
      BY <2>1, AmongLaws
  <1>5. CASE ~r.over /\ FullMerge(k, q, bottom, w)
    <2>1. Above(p, q) = q /\ Above(p, w) = w
      <3>1. bottom => Above(p, q) = q
        BY EmptyLayer
      <3>2. q.over => Above(p, q) = q
        BY DEF Above
      <3>3. w.over
        BY <1>5 DEF FullMerge
      <3>4. QED
        BY <1>5, <3>1, <3>2, <3>3 DEF FullMerge, Above
    <2>2. x = Above(q, r) /\ y = Above(w, r)
      BY <1>1, <2>1
    <2>3. /\ x.value = q.value /\ x.operands = q.operands \o r.operands
          /\ y.value = Gives(k, q) /\ y.operands = r.operands
      <3>1. x.value = q.value /\ x.operands = q.operands \o r.operands
        <4>1. Extends(q, r, x)
          BY <1>5, <2>2, AboveExtends
        <4>2. QED
          BY <4>1 DEF Extends
      <3>2. y.value = w.value /\ y.operands = w.operands \o r.operands
        <4>1. Extends(w, r, y)
          BY <1>5, <2>2, AboveExtends
        <4>2. QED
          BY <4>1 DEF Extends
      <3>3. w.value = Gives(k, q) /\ w.operands = <<>>
        BY <1>5 DEF FullMerge
      <3>4. <<>> \o r.operands = r.operands
        BY <1>2, ListLaws
      <3>5. QED
        BY <3>1, <3>2, <3>3, <3>4
    <2>4. Among(y.operands, x.operands)
      BY <1>2, <2>3, AmongJoin
    <2>5. ASSUME k = "erlang" => Alike(x.operands)
          PROVE  Gives(k, y) = Gives(k, x)
      <3>1. CASE r.operands = <<>>
        <4>1. x.operands = q.operands
          BY <1>2, <2>3, <3>1, ListLaws
        <4>2. QED
          BY <2>3, <3>1, <4>1 DEF Gives
      <3>2. CASE r.operands # <<>>
        <4>1. k = "erlang" => Alike(Above(q, r).operands)
          BY <2>2, <2>5
        <4>2. Gives(k, Above(q, r)) = Merge(k, Gives(k, q), r.operands)
          BY <1>5, <3>2, <4>1, GivesAbove
        <4>3. QED
          BY <2>2, <2>3, <3>2, <4>2 DEF Gives
      <3>3. QED
        BY <3>1, <3>2
    <2>6. QED
      BY <2>4, <2>5
  <1>6. CASE ~r.over /\ Collapse(k, q, bottom, w)
    <2> SUFFICES ASSUME k = "counter" PROVE Gives(k, y) = Gives(k, x)
      BY <1>6 DEF Collapse
    <2> DEFINE m == <<CounterMerge(None, q.operands)>>
    <2>1. w.operands = m
      BY <1>6 DEF Merge, Collapse
    <2>2. x.value = p.value /\ x.operands = (p.operands \o q.operands) \o r.operands
      <3>1. Extends(p, q, Above(p, q)) /\ Extends(Above(p, q), r, x)
        BY <1>6, AboveExtends DEF Collapse
      <3>2. QED
        BY <3>1 DEF Extends
    <2>3. y.value = p.value /\ y.operands = (p.operands \o m) \o r.operands
      <3>1. Extends(p, w, Above(p, w)) /\ Extends(Above(p, w), r, y)
        BY <1>1, <1>6, AboveExtends DEF Collapse
      <3>2. QED
        BY <2>1, <3>1 DEF Extends
    <2>4. CounterMerge(p.value, (p.operands \o m) \o r.operands)
            = CounterMerge(p.value, (p.operands \o q.operands) \o r.operands)
      BY <1>2, <1>6, CounterCollapse DEF Collapse
    <2>5. x.operands # <<>> /\ y.operands # <<>>
      <3>1. m # <<>> /\ IsList(m)
        BY ListLaws
      <3> HIDE DEF m
      <3>2. /\ p.operands \o q.operands # <<>> /\ IsList(p.operands \o q.operands)
            /\ p.operands \o m # <<>> /\ IsList(p.operands \o m)
        BY <1>2, <1>6, <3>1, JoinEmpty, ListJoin DEF Collapse
      <3>3. QED
        BY <1>2, <2>2, <2>3, <3>2, JoinEmpty
    <2> HIDE DEF m
    <2>6. QED
      BY <2>2, <2>3, <2>4, <2>5 DEF Gives, Merge
  <1>7. QED
    <2>1. FullMerge(k, q, bottom, w) \/ AsItIs(q, bottom, w) \/ Collapse(k, q, bottom, w)
      BY <1>1, RewrittenCases
    <2>2. QED
      BY <1>3, <1>4, <1>5, <1>6, <2>1


-----------------------------------------------------------------------------
(* What a flush and a compaction do to the list of files *)

LEMMA ListEnd ==
  ASSUME NEW s, IsList(s), NEW e
  PROVE  /\ IsList(Append(s, e)) /\ Joins(s, <<e>>, Append(s, e))
         /\ Len(Append(s, e)) = Len(s) + 1
  <1> DEFINE U == {s[i] : i \in DOMAIN s} \cup {e}
  <1>1. s \in Seq({s[i] : i \in DOMAIN s}) /\ {s[i] : i \in DOMAIN s} \subseteq U /\ e \in U
    BY DEF IsList
  <1> HIDE DEF U
  <1>2. s \in Seq(U)
    BY <1>1, SeqMonotonic
  <1>3. /\ Append(s, e) \in Seq(U) /\ Len(Append(s, e)) = Len(s) + 1
        /\ \A i \in 1 .. Len(s) : Append(s, e)[i] = s[i]
        /\ Append(s, e)[Len(s) + 1] = e
    BY <1>1, <1>2, AppendProperties
  <1>4. IsList(Append(s, e)) /\ DOMAIN Append(s, e) = 1 .. Len(s) + 1
    BY <1>3, ListOver
  <1>5. Len(<<e>>) = 1 /\ <<e>>[1] = e /\ DOMAIN <<e>> = 1 .. 1
    BY ListLaws, ListDomain
  <1>6. Len(s) \in Nat /\ DOMAIN s = 1 .. Len(s)
    BY ListDomain
  <1>7. Joins(s, <<e>>, Append(s, e))
    <2>1. PICK a, b, c : a = s /\ b = <<e>> /\ c = Append(s, e)
      OBVIOUS
    <2>2. Joins(a, b, c)
      BY <1>3, <1>4, <1>5, <1>6, <2>1 DEF Joins
    <2>3. QED
      BY <2>1, <2>2
  <1>8. QED
    BY <1>3, <1>4, <1>7

LEMMA ListPart ==
  ASSUME NEW s, IsList(s), NEW m \in Int, NEW n \in Int, 1 <= m, m <= n + 1, n <= Len(s)
  PROVE  /\ IsList(SubSeq(s, m, n)) /\ Len(SubSeq(s, m, n)) = n + 1 - m
         /\ DOMAIN SubSeq(s, m, n) = 1 .. n + 1 - m
         /\ \A j \in 1 .. n + 1 - m : SubSeq(s, m, n)[j] = s[m + j - 1]
  <1> DEFINE U == {s[i] : i \in DOMAIN s}
  <1>1. s \in Seq(U)
    BY DEF IsList
  <1>2. Len(s) \in Nat /\ DOMAIN s = 1 .. Len(s)
    BY ListDomain
  <1> HIDE DEF U
  <1>3. /\ SubSeq(s, m, n) \in Seq(U) /\ Len(SubSeq(s, m, n)) = n + 1 - m
        /\ \A j \in 1 .. n + 1 - m : SubSeq(s, m, n)[j] = s[m + j - 1]
    <2>1. CASE m <= n
      <3>1. m \in 1 .. Len(s) + 1 /\ n \in m - 1 .. Len(s)
        BY <1>2, <2>1
      <3>2. QED
        BY <1>1, <3>1, SubSeqProperties
    <2>2. CASE ~(m <= n)
      <3>1. m \in 1 .. Len(s) + 1 /\ n \in m - 1 .. Len(s)
        BY <1>2, <2>2
      <3>2. QED
        BY <1>1, <3>1, SubSeqProperties
    <2>3. QED
      BY <2>1, <2>2
  <1>4. IsList(SubSeq(s, m, n)) /\ DOMAIN SubSeq(s, m, n) = 1 .. n + 1 - m
    BY <1>3, ListOver
  <1>5. QED
    BY <1>3, <1>4

LEMMA LayersJoin ==
  ASSUME NEW a, LayersOK(a), NEW b, LayersOK(b)
  PROVE  LayersOK(a \o b)
  <1>1. IsList(a \o b)
    BY ListJoin DEF LayersOK
  <1>2. ASSUME NEW i \in DOMAIN (a \o b) PROVE LayerOK((a \o b)[i])
    BY ListJoinHas DEF LayersOK
  <1>3. QED
    BY <1>1, <1>2 DEF LayersOK

LEMMA LayersPart ==
  ASSUME NEW s, LayersOK(s), NEW m \in Int, NEW n \in Int, 1 <= m, m <= n + 1, n <= Len(s)
  PROVE  LayersOK(SubSeq(s, m, n))
  <1>1. IsList(s) /\ Len(s) \in Nat /\ DOMAIN s = 1 .. Len(s)
    BY ListDomain DEF LayersOK
  <1> DEFINE t == SubSeq(s, m, n)
  <1>2. /\ IsList(t) /\ DOMAIN t = 1 .. n + 1 - m
        /\ \A j \in 1 .. n + 1 - m : t[j] = s[m + j - 1]
    BY <1>1, ListPart
  <1> HIDE DEF t
  <1>3. ASSUME NEW j \in DOMAIN t PROVE LayerOK(t[j])
    <2>1. j \in 1 .. n + 1 - m /\ m + j - 1 \in DOMAIN s
      BY <1>1, <1>2
    <2>2. QED
      BY <1>2, <2>1 DEF LayersOK
  <1>4. LayersOK(t)
    BY <1>2, <1>3 DEF LayersOK
  <1>5. QED
    BY <1>4 DEF t

\* What a compaction does to the files s, said of the list g itself
Compacted(s, i, w, g) == g = SubSeq(s, 1, i - 1) \o <<w>> \o SubSeq(s, i + 2, Len(s))

\* The files s become the files g when w takes the place of those at i and i + 1.
Joined(s, i, w, g) ==
  /\ IsList(g) /\ Len(g) = Len(s) - 1
  /\ \A j \in 1 .. i - 1 : g[j] = s[j]
  /\ g[i] = w
  /\ \A j \in i + 1 .. Len(s) - 1 : g[j] = s[j + 1]

LEMMA CompactJoins ==
  ASSUME NEW s, LayersOK(s), NEW i \in 1 .. Len(s) - 1, NEW w, LayerOK(w),
         NEW g, Compacted(s, i, w, g)
  PROVE  /\ Joined(s, i, w, g) /\ LayersOK(g)
         /\ \E p, r : /\ LayerOK(p) /\ LayerOK(r) /\ (i = 1 => p = Empty)
                      /\ Stacked(s) = Above(Above(p, Above(s[i], s[i + 1])), r)
                      /\ Stacked(g) = Above(Above(p, w), r)
  <1>1. IsList(s) /\ Len(s) \in Nat /\ DOMAIN s = 1 .. Len(s)
    BY ListDomain DEF LayersOK
  <1>2. PICK n \in Nat : n = Len(s)
    BY <1>1
  <1>3. i \in Nat /\ 1 <= i /\ i + 1 <= n /\ i \in DOMAIN s /\ i + 1 \in DOMAIN s
    BY <1>1, <1>2
  <1>4. PICK a : /\ a = SubSeq(s, 1, i - 1) /\ LayersOK(a) /\ IsList(a) /\ Len(a) = i - 1
                 /\ \A j \in 1 .. i - 1 : a[j] = s[j]
    <2>1. 1 \in Int /\ i - 1 \in Int /\ 1 <= 1 /\ 1 <= (i - 1) + 1 /\ i - 1 <= Len(s)
          /\ (i - 1) + 1 - 1 = i - 1
      BY <1>2, <1>3
    <2>2. LayersOK(SubSeq(s, 1, i - 1))
      BY <2>1, LayersPart
    <2>3. /\ Len(SubSeq(s, 1, i - 1)) = (i - 1) + 1 - 1
          /\ \A j \in 1 .. (i - 1) + 1 - 1 : SubSeq(s, 1, i - 1)[j] = s[1 + j - 1]
      BY <1>1, <2>1, ListPart
    <2>4. \A j \in 1 .. i - 1 : 1 + j - 1 = j
      BY <1>3
    <2>5. QED
      BY <2>1, <2>2, <2>3, <2>4 DEF LayersOK
  <1>5. PICK c : /\ c = SubSeq(s, i + 2, Len(s)) /\ LayersOK(c) /\ IsList(c)
                 /\ Len(c) = n - i - 1
                 /\ \A j \in 1 .. n - i - 1 : c[j] = s[i + 1 + j]
    <2>1. i + 2 \in Int /\ Len(s) \in Int /\ 1 <= i + 2 /\ i + 2 <= Len(s) + 1
          /\ Len(s) <= Len(s) /\ Len(s) + 1 - (i + 2) = n - i - 1
      BY <1>2, <1>3
    <2>2. LayersOK(SubSeq(s, i + 2, Len(s)))
      BY <2>1, LayersPart
    <2>3. /\ Len(SubSeq(s, i + 2, Len(s))) = Len(s) + 1 - (i + 2)
          /\ \A j \in 1 .. Len(s) + 1 - (i + 2) :
               SubSeq(s, i + 2, Len(s))[j] = s[i + 2 + j - 1]
      <3>1. PICK m, e : m = i + 2 /\ e = Len(s)
        OBVIOUS
      <3>2. m \in Int /\ e \in Int /\ 1 <= m /\ m <= e + 1 /\ e <= Len(s)
        BY <2>1, <3>1
      <3>3. /\ Len(SubSeq(s, m, e)) = e + 1 - m
            /\ \A j \in 1 .. e + 1 - m : SubSeq(s, m, e)[j] = s[m + j - 1]
        BY <1>1, <3>2, ListPart
      <3>4. QED
        BY <3>1, <3>3
    <2>4. ASSUME NEW j \in 1 .. n - i - 1
          PROVE  SubSeq(s, i + 2, Len(s))[j] = s[i + 1 + j]
      <3>1. i + 2 + j - 1 = i + 1 + j /\ j \in 1 .. Len(s) + 1 - (i + 2)
        BY <1>2, <1>3
      <3>2. QED
        BY <2>3, <3>1
    <2>5. IsList(SubSeq(s, i + 2, Len(s))) /\ Len(SubSeq(s, i + 2, Len(s))) = n - i - 1
      BY <2>1, <2>2, <2>3 DEF LayersOK
    <2>6. QED
      BY <2>2, <2>4, <2>5
  <1>6. LayerOK(s[i]) /\ LayerOK(s[i + 1])
    BY <1>3 DEF LayersOK
  <1>7. PICK x, y, z : x = <<s[i]>> /\ y = <<s[i + 1]>> /\ z = <<w>>
    OBVIOUS
  <1>8. /\ LayersOK(x) /\ Stacked(x) = s[i] /\ Len(x) = 1 /\ x[1] = s[i] /\ IsList(x)
        /\ LayersOK(y) /\ Stacked(y) = s[i + 1] /\ Len(y) = 1 /\ y[1] = s[i + 1] /\ IsList(y)
        /\ LayersOK(z) /\ Stacked(z) = w /\ Len(z) = 1 /\ z[1] = w /\ IsList(z)
    BY <1>6, <1>7, StackShort, ListLaws
  <1>9. PICK ax : LayersOK(ax) /\ IsList(ax) /\ Joins(a, x, ax)
    BY <1>4, <1>8, LayersJoin, ListJoin
  <1>10. PICK axy : LayersOK(axy) /\ IsList(axy) /\ Joins(ax, y, axy)
    BY <1>8, <1>9, LayersJoin, ListJoin
  <1>11. PICK az : az = a \o z /\ LayersOK(az) /\ IsList(az) /\ Joins(a, z, az)
    BY <1>4, <1>8, LayersJoin, ListJoin
  <1>12. g = az \o c
    BY <1>4, <1>5, <1>7, <1>11 DEF Compacted
  <1>13. LayersOK(g) /\ IsList(g) /\ Joins(az, c, g)
    BY <1>5, <1>11, <1>12, LayersJoin, ListJoin
  <1>14. Len(ax) = i /\ Len(axy) = i + 1 /\ Len(az) = i
    BY <1>3, <1>4, <1>8, <1>9, <1>10, <1>11 DEF Joins
  <1>15. Joins(axy, c, s)
    <2>1. ASSUME NEW j \in 1 .. i + 1 PROVE s[j] = axy[j]
      <3>1. CASE j <= i - 1
        <4>1. j \in 1 .. Len(a) /\ j \in 1 .. Len(ax)
          BY <1>3, <1>4, <1>14, <3>1
        <4>2. QED
          BY <1>3, <1>4, <1>9, <1>10, <3>1, <4>1 DEF Joins
      <3>2. CASE j = i
        <4>1. 1 \in 1 .. Len(x) /\ Len(a) + 1 = i /\ i \in 1 .. Len(ax)
          BY <1>3, <1>4, <1>8, <1>14
        <4>2. ax[Len(a) + 1] = x[1] /\ axy[i] = ax[i]
          BY <1>9, <1>10, <4>1 DEF Joins
        <4>3. QED
          BY <1>8, <3>2, <4>1, <4>2
      <3>3. CASE j = i + 1
        <4>1. 1 \in 1 .. Len(y) /\ Len(ax) + 1 = i + 1
          BY <1>3, <1>8, <1>14
        <4>2. axy[Len(ax) + 1] = y[1]
          BY <1>10, <4>1 DEF Joins
        <4>3. QED
          BY <1>8, <3>3, <4>1, <4>2
      <3>4. j <= i - 1 \/ j = i \/ j = i + 1
        BY <1>3
      <3>5. QED
        BY <3>1, <3>2, <3>3, <3>4
    <2>2. \A j \in 1 .. n - i - 1 : s[(i + 1) + j] = c[j]
      BY <1>5
    <2>3. DOMAIN axy = 1 .. Len(axy) /\ DOMAIN c = 1 .. Len(c)
      BY <1>5, <1>10, ListDomain
    <2>4. n = (i + 1) + (n - i - 1) /\ n - i - 1 \in Nat /\ i + 1 \in Nat
      BY <1>2, <1>3
    <2>5. QED
      BY <1>1, <1>2, <1>5, <1>14, <2>1, <2>2, <2>3, <2>4 DEF Joins
  <1>16. Joined(s, i, w, g)
    <2>1. Len(g) = n - 1
      <3>1. Len(g) = Len(az) + Len(c)
        BY <1>13 DEF Joins
      <3>2. Len(az) = i /\ Len(c) = n - i - 1
        BY <1>5, <1>14
      <3>3. i + (n - i - 1) = n - 1
        BY <1>2, <1>3
      <3>4. QED
        BY <3>1, <3>2, <3>3
    <2>2. ASSUME NEW j \in 1 .. i PROVE g[j] = az[j]
      BY <1>13, <1>14 DEF Joins
    <2>3. ASSUME NEW j \in 1 .. i - 1 PROVE g[j] = s[j]
      <3>1. j \in 1 .. i /\ j \in 1 .. Len(a)
        BY <1>3, <1>4
      <3>2. QED
        BY <1>4, <1>11, <2>2, <3>1 DEF Joins
    <2>4. g[i] = w
      <3>1. i \in 1 .. i /\ 1 \in 1 .. Len(z) /\ Len(a) + 1 = i
        BY <1>3, <1>4, <1>8
      <3>2. az[Len(a) + 1] = z[1]
        BY <1>11, <3>1 DEF Joins
      <3>3. QED
        BY <1>8, <2>2, <3>1, <3>2
    <2>5. ASSUME NEW j \in i + 1 .. n - 1 PROVE g[j] = s[j + 1]
      <3>1. j - i \in 1 .. n - i - 1 /\ j - i \in 1 .. Len(c) /\ i + (j - i) = j
            /\ (i + 1) + (j - i) = j + 1
        BY <1>2, <1>3, <1>5
      <3>2. g[i + (j - i)] = c[j - i]
        BY <1>13, <1>14, <3>1 DEF Joins
      <3>3. c[j - i] = s[(i + 1) + (j - i)]
        BY <1>5, <3>1
      <3>4. QED
        BY <3>1, <3>2, <3>3
    <2>6. QED
      BY <1>2, <1>13, <2>1, <2>3, <2>4, <2>5 DEF Joined
  <1>17. /\ Stacked(ax) = Above(Stacked(a), s[i]) /\ LayerOK(Stacked(a))
         /\ Stacked(axy) = Above(Stacked(ax), s[i + 1])
         /\ Stacked(az) = Above(Stacked(a), w)
    BY <1>4, <1>8, <1>9, <1>10, <1>11, StackJoin
  <1>18. /\ Stacked(s) = Above(Stacked(axy), Stacked(c)) /\ LayerOK(Stacked(c))
         /\ Stacked(g) = Above(Stacked(az), Stacked(c))
    BY <1>5, <1>10, <1>11, <1>13, <1>15, StackJoin
  <1>19. Above(Above(Stacked(a), s[i]), s[i + 1]) = Above(Stacked(a), Above(s[i], s[i + 1]))
    BY <1>6, <1>17, AboveOK
  <1>20. i = 1 => Stacked(a) = Empty
    <2>1. i = 1 => a = <<>>
      BY <1>4, ListLaws
    <2>2. QED
      BY <2>1, StackShort
  <1>21. PICK p, r : p = Stacked(a) /\ r = Stacked(c)
    OBVIOUS
  <1>22. QED
    BY <1>13, <1>16, <1>17, <1>18, <1>19, <1>20, <1>21
-----------------------------------------------------------------------------
(* The invariant *)

\* Everything that is stored for the key
Whole == Above(Stacked(files), mem)

(* Every file, and the memtable if it holds anything, has a write of its own
   and as many as it has operands: cut counts those of the files up to one. *)
RoomFor(cut) ==
  /\ cut[0] = 0
  /\ \A i \in 1 .. Len(files) :
       cut[i - 1] + 1 <= cut[i] /\ cut[i - 1] + Len(files[i].operands) <= cut[i]
  /\ cut[Len(files)] + Len(mem.operands) <= writes
  /\ mem # Empty => cut[Len(files)] + 1 <= writes
Room == \E cut \in [0 .. Len(files) -> 0 .. writes] : RoomFor(cut)

(* The types, the room, and what relates the files to the history: while
   nothing collapsed no operand is stored that was not written since the last
   put, and a read gives what the writes since then say. *)
KeyTypes ==
  /\ kind \in Kinds /\ writes \in 0 .. MaxWrites /\ collapsed \in BOOLEAN
  /\ LayersOK(files) /\ LayerOK(mem) /\ LayerOK(written)
  /\ Len(written.operands) <= writes
NothingForeign == ~collapsed => Among(Whole.operands, written.operands)
ReadsAsWritten ==
  /\ kind = "counter" \/ ~collapsed
  /\ kind = "erlang" => Alike(written.operands)
  => Gives(kind, Whole) = Gives(kind, written)
KeyIInv == KeyTypes /\ Room /\ NothingForeign /\ ReadsAsWritten

LEMMA KindOK ==
  ASSUME kind \in Kinds
  PROVE  kind \in {"counter", "erlang", "bitset"}
  BY StackAssumption

LEMMA AppliedGives ==
  ASSUME NEW l, NEW b
  PROVE  Applied(l) = Gives(kind, l) /\ Written(l, b) = Rewritten(kind, l, b)
  BY DEF Applied, Gives, Written, Rewritten

LEMMA WholeOK ==
  ASSUME KeyTypes
  PROVE  LayerOK(Stacked(files)) /\ LayerOK(Whole) /\ Len(files) \in Nat
  <1>1. LayersOK(files) /\ LayerOK(mem) /\ IsList(files) /\ IsList(<<>>)
    BY ListLaws DEF KeyTypes, LayersOK
  <1>2. LayersOK(<<>>)
    <2>1. \A i : i \notin DOMAIN <<>>
      BY ListLaws, ListDomain
    <2>2. QED
      BY <1>1, <2>1 DEF LayersOK
  <1>3. Joins(files, <<>>, files \o <<>>) /\ files \o <<>> = files
    BY <1>1, ListJoin, ListLaws
  <1>4. LayerOK(Stacked(files))
    BY <1>1, <1>2, <1>3, StackJoin
  <1>5. LayerOK(Whole)
    BY <1>1, <1>4, AboveOK DEF Whole
  <1>6. QED
    BY <1>1, <1>4, <1>5, ListDomain

(* What a flush or a compaction rewrites between the other layers *)
LEMMA RewriteKeeps ==
  ASSUME KeyTypes, NothingForeign, ReadsAsWritten,
         NEW p, LayerOK(p), NEW q, LayerOK(q), NEW r, LayerOK(r),
         NEW bottom \in BOOLEAN, bottom => p = Empty,
         Whole = Above(Above(p, q), r),
         Whole' = Above(Above(p, Rewritten(kind, q, bottom)), r),
         kind' = kind, written' = written,
         collapsed' = (collapsed \/ Collapses(q, bottom))
  PROVE  NothingForeign' /\ ReadsAsWritten'
  <1>1. PICK k, x, y, h : k = kind /\ x = Whole /\ y = Whole' /\ h = written
    OBVIOUS
  <1>2. k \in {"counter", "erlang", "bitset"}
    BY <1>1, KindOK DEF KeyTypes
  <1>3. x = Above(Above(p, q), r) /\ y = Above(Above(p, Rewritten(k, q, bottom)), r)
    BY <1>1
  <1>4. /\ ~Collapses(q, bottom) => Among(y.operands, x.operands)
        /\ (k = "counter" \/ ~Collapses(q, bottom)) /\ (k = "erlang" => Alike(x.operands))
             => Gives(k, y) = Gives(k, x)
    BY <1>2, <1>3, RewrittenKeeps
  <1>5. ~collapsed => Among(x.operands, h.operands)
    BY <1>1 DEF NothingForeign
  <1>6. ~collapsed' => ~collapsed /\ ~Collapses(q, bottom)
    OBVIOUS
  <1>7. ~collapsed' => Among(y.operands, h.operands)
    BY <1>4, <1>5, <1>6, AmongLaws
  <1>8. NothingForeign'
    BY <1>1, <1>7 DEF NothingForeign
  <1>9. ASSUME k = "counter" \/ ~collapsed', k = "erlang" => Alike(h.operands)
        PROVE  Gives(k, y) = Gives(k, h)
    <2>1. k = "counter" \/ (~collapsed /\ ~Collapses(q, bottom))
      BY <1>6, <1>9
    <2>2. k = "erlang" => Alike(x.operands)
      <3>1. k = "erlang" => Among(x.operands, h.operands) /\ Alike(h.operands)
        BY <1>5, <1>9, <2>1
      <3>2. QED
        BY <3>1, AmongLaws
    <2>3. Gives(k, y) = Gives(k, x)
      BY <1>4, <2>1, <2>2
    <2>4. Gives(k, x) = Gives(k, h)
      BY <1>1, <1>9, <2>1 DEF ReadsAsWritten
    <2>5. QED
      BY <2>3, <2>4
  <1>10. ReadsAsWritten'
    BY <1>1, <1>9 DEF ReadsAsWritten
  <1>11. QED
    BY <1>8, <1>10

\* A write puts a value over everything, or adds one operand.
IsWrite(l) ==
  /\ LayerOK(l)
  /\ \/ l.over /\ l.operands = <<>>
     \/ ~l.over /\ \E o : l.operands = <<o>>

LEMMA WriteKeeps ==
  ASSUME KeyTypes, NothingForeign, ReadsAsWritten, NEW l, IsWrite(l), WriteOp(l)
  PROVE  NothingForeign' /\ ReadsAsWritten'
  <1>1. PICK k, x, h : k = kind /\ x = Whole /\ h = written
    OBVIOUS
  <1>2. k \in {"counter", "erlang", "bitset"}
    BY <1>1, KindOK DEF KeyTypes
  <1>3. LayerOK(Stacked(files)) /\ LayerOK(x) /\ LayerOK(mem) /\ LayerOK(h) /\ LayerOK(l)
    BY <1>1, WholeOK DEF KeyTypes, IsWrite
  <1>4. PICK y, g : y = Whole' /\ g = written'
    OBVIOUS
  <1>5. y = Above(x, l) /\ g = Above(h, l) /\ kind' = k /\ collapsed' = collapsed
    <2>1. Above(Above(Stacked(files), mem), l) = Above(Stacked(files), Above(mem, l))
      BY <1>3, AboveOK
    <2>2. QED
      BY <1>1, <1>4, <2>1 DEF WriteOp, Whole
  <1>6. CASE l.over /\ l.operands = <<>>
    <2>1. y = l /\ g = l
      BY <1>5, <1>6 DEF Above
    <2>2. QED
      BY <1>4, <1>5, <2>1, AmongLaws DEF NothingForeign, ReadsAsWritten
  <1>7. CASE ~l.over /\ \E o : l.operands = <<o>>
    <2>1. PICK o : l.operands = <<o>>
      BY <1>7
    <2>2. l.operands # <<>> /\ IsList(l.operands)
      BY <2>1, ListLaws
    <2>3. Extends(x, l, y) /\ Extends(h, l, g) /\ IsList(x.operands) /\ IsList(h.operands)
      BY <1>3, <1>5, <1>7, AboveExtends DEF LayerOK, Countable
    <2>4. /\ Among(x.operands, y.operands) /\ Among(h.operands, g.operands)
          /\ Among(l.operands, g.operands)
      <3>1. /\ Among(x.operands, x.operands \o l.operands)
            /\ Among(h.operands, h.operands \o l.operands)
            /\ Among(l.operands, h.operands \o l.operands)
        BY <2>2, <2>3, AmongJoin
      <3>2. QED
        BY <2>3, <3>1 DEF Extends
    <2>5. ~collapsed => Among(y.operands, g.operands)
      <3>1. SUFFICES ASSUME ~collapsed PROVE Among(y.operands, g.operands)
        OBVIOUS
      <3>2. Among(x.operands, h.operands)
        BY <1>1, <3>1 DEF NothingForeign
      <3>3. Among(x.operands, g.operands)
        BY <2>4, <3>2, AmongLaws
      <3>4. Among(x.operands \o l.operands, g.operands)
        BY <2>2, <2>3, <2>4, <3>3, AmongOf
      <3>5. QED
        BY <2>3, <3>4 DEF Extends
    <2>6. NothingForeign'
      BY <1>4, <1>5, <2>5 DEF NothingForeign
    <2>7. ASSUME k = "counter" \/ ~collapsed, k = "erlang" => Alike(g.operands)
          PROVE  Gives(k, y) = Gives(k, g)
      <3>1. k = "erlang" => Alike(h.operands) /\ Alike(y.operands)
        <4>1. k = "erlang" => Among(y.operands, g.operands) /\ Alike(g.operands)
          BY <2>5, <2>7
        <4>2. QED
          BY <2>4, <4>1, AmongLaws
      <3>2. Gives(k, x) = Gives(k, h)
        BY <1>1, <2>7, <3>1 DEF ReadsAsWritten
      <3>3. Gives(k, y) = Merge(k, Gives(k, x), l.operands)
        <4>1. k = "erlang" => Alike(Above(x, l).operands)
          BY <1>5, <3>1
        <4>2. LayerOK(x) /\ LayerOK(l) /\ ~l.over /\ l.operands # <<>>
          BY <1>3, <1>7, <2>2
        <4>3. Gives(k, Above(x, l)) = Merge(k, Gives(k, x), l.operands)
          BY <1>2, <4>1, <4>2, GivesAbove
        <4>4. QED
          BY <1>5, <4>3
      <3>4. Gives(k, g) = Merge(k, Gives(k, h), l.operands)
        <4>1. k = "erlang" => Alike(Above(h, l).operands)
          BY <1>5, <2>7
        <4>2. LayerOK(h) /\ LayerOK(l) /\ ~l.over /\ l.operands # <<>>
          BY <1>3, <1>7, <2>2
        <4>3. Gives(k, Above(h, l)) = Merge(k, Gives(k, h), l.operands)
          BY <1>2, <4>1, <4>2, GivesAbove
        <4>4. QED
          BY <1>5, <4>3
      <3>5. QED
        BY <3>2, <3>3, <3>4
    <2>8. ReadsAsWritten'
      BY <1>4, <1>5, <2>7 DEF ReadsAsWritten
    <2>9. QED
      BY <2>6, <2>8
  <1>8. QED
    BY <1>6, <1>7 DEF IsWrite


(* What put, delete and merge write *)
LEMMA Writes ==
  ASSUME kind \in Kinds, Put \/ Delete \/ MergeOp
  PROVE  \E l : IsWrite(l) /\ WriteOp(l)
  <1>1. Countable(<<>>)
    BY EmptyLayer
  <1>2. CASE Put
    <2>1. PICK v \in Values[kind] : WriteOp(Layer(TRUE, v, <<>>))
      BY <1>2 DEF Put
    <2>2. v.type \in {"text", "bytes", "int", "list", "bin"}
          /\ (v.type = "text" => v.v[1] \in Int)
      BY StackAssumption
    <2>3. Valued(v)
      BY <2>2 DEF Valued, Lasting, Number
    <2>4. PICK l : l = Layer(TRUE, v, <<>>)
      OBVIOUS
    <2>5. l.over = TRUE /\ l.value = v /\ l.operands = <<>>
      BY <2>4 DEF Layer
    <2>6. IsWrite(l)
      BY <1>1, <2>3, <2>4, <2>5 DEF IsWrite, LayerOK
    <2>7. QED
      BY <2>1, <2>4, <2>6
  <1>3. CASE Delete
    <2>1. PICK l : l = Layer(TRUE, None, <<>>)
      OBVIOUS
    <2>2. l.over = TRUE /\ l.value = None /\ l.operands = <<>>
      BY <2>1 DEF Layer
    <2>3. IsWrite(l)
      BY <1>1, <2>1, <2>2, RunningTerm DEF IsWrite, LayerOK
    <2>4. QED
      BY <1>3, <2>1, <2>3 DEF Delete
  <1>4. CASE MergeOp
    <2>1. PICK o \in Operands[kind] : WriteOp(Layer(FALSE, None, <<o>>))
      BY <1>4 DEF MergeOp
    <2>2. o.type = "text" => o.v[1] \in Int
      BY StackAssumption
    <2>3. Number(o) \in Int
      BY <2>2 DEF Number
    <2>4. PICK s : s = <<o>>
      OBVIOUS
    <2>5. IsList(s) /\ DOMAIN s = 1 .. 1 /\ s[1] = o
      BY <2>4, ListLaws, ListDomain
    <2>6. Countable(s)
      BY <2>3, <2>5 DEF Countable
    <2>7. PICK l : l = Layer(FALSE, None, s)
      OBVIOUS
    <2>8. l.over = FALSE /\ l.value = None /\ l.operands = s
      BY <2>7 DEF Layer
    <2>9. IsWrite(l)
      BY <2>4, <2>6, <2>7, <2>8, RunningTerm DEF IsWrite, LayerOK
    <2>10. QED
      BY <2>1, <2>4, <2>7, <2>9
  <1>5. QED
    BY <1>2, <1>3, <1>4

LEMMA AboveRoom ==
  ASSUME NEW x, LayerOK(x), NEW y, LayerOK(y)
  PROVE  /\ Len(x.operands) \in Nat /\ Len(y.operands) \in Nat
         /\ Len(Above(x, y).operands) \in Nat
         /\ Len(Above(x, y).operands) <= Len(x.operands) + Len(y.operands)
  <1>1. IsList(x.operands) /\ IsList(y.operands)
    BY DEF LayerOK, Countable
  <1>2. Len(x.operands) \in Nat /\ Len(y.operands) \in Nat
    BY <1>1, ListDomain
  <1>3. CASE y.over
    <2>1. Above(x, y) = y
      BY <1>3 DEF Above
    <2>2. PICK n \in Nat, m \in Nat : n = Len(x.operands) /\ m = Len(y.operands)
      BY <1>2
    <2>3. m <= n + m
      OBVIOUS
    <2>4. QED
      BY <1>2, <2>1, <2>2, <2>3
  <1>4. CASE ~y.over
    <2>1. Above(x, y).operands = x.operands \o y.operands
      BY <1>4, AboveExtends DEF Extends
    <2>2. Len(x.operands \o y.operands) = Len(x.operands) + Len(y.operands)
      BY <1>1, ListJoin DEF Joins
    <2>3. PICK n \in Nat, m \in Nat : n = Len(x.operands) /\ m = Len(y.operands)
      BY <1>2
    <2>4. Len(Above(x, y).operands) = n + m
      BY <2>1, <2>2, <2>3
    <2>5. n + m \in Nat /\ n + m <= n + m
      OBVIOUS
    <2>6. QED
      BY <1>2, <2>3, <2>4, <2>5
  <1>5. QED
    BY <1>3, <1>4

LEMMA WriteRoom ==
  ASSUME NEW l, IsWrite(l)
  PROVE  Len(l.operands) \in {0, 1}
  BY ListLaws DEF IsWrite

LEMMA WriteTypes ==
  ASSUME KeyTypes, Room, NEW l, IsWrite(l), WriteOp(l)
  PROVE  KeyTypes' /\ Room'
  <1>1. LayerOK(mem) /\ LayerOK(written) /\ LayerOK(l) /\ Len(files) \in Nat
    BY WholeOK DEF KeyTypes, IsWrite
  <1>2. LayerOK(Above(mem, l)) /\ LayerOK(Above(written, l))
    BY <1>1, AboveOK
  <1>3. writes \in Nat /\ writes' = writes + 1 /\ writes' \in 0 .. MaxWrites
    BY StackAssumption DEF KeyTypes, WriteOp
  <1>4. /\ Len(mem.operands) \in Nat /\ Len(mem'.operands) \in Nat
        /\ Len(mem'.operands) <= Len(mem.operands) + 1
        /\ Len(written'.operands) <= Len(written.operands) + 1
        /\ Len(written.operands) \in Nat /\ Len(written'.operands) \in Nat
    <2>1. Len(l.operands) \in {0, 1}
      BY WriteRoom
    <2>2. mem' = Above(mem, l) /\ written' = Above(written, l)
      BY DEF WriteOp
    <2>3. /\ Len(mem.operands) \in Nat /\ Len(Above(mem, l).operands) \in Nat
          /\ Len(Above(mem, l).operands) <= Len(mem.operands) + Len(l.operands)
          /\ Len(written.operands) \in Nat /\ Len(Above(written, l).operands) \in Nat
          /\ Len(Above(written, l).operands) <= Len(written.operands) + Len(l.operands)
      BY <1>1, AboveRoom
    <2>4. PICK n \in Nat, m \in Nat, u \in Nat, v \in Nat :
            /\ n = Len(mem.operands) /\ m = Len(written.operands)
            /\ u = Len(mem'.operands) /\ v = Len(written'.operands)
      BY <2>2, <2>3
    <2>5. u <= n + Len(l.operands) /\ v <= m + Len(l.operands)
      BY <2>2, <2>3, <2>4
    <2>6. u <= n + 1 /\ v <= m + 1
      <3>1. CASE Len(l.operands) = 0
        <4>1. u <= n + 0 /\ v <= m + 0
          BY <2>5, <3>1
        <4>2. QED
          BY <4>1
      <3>2. CASE Len(l.operands) = 1
        BY <2>5, <3>2
      <3>3. QED
        BY <2>1, <3>1, <3>2
    <2>7. QED
      BY <2>4, <2>6
  <1>5. KeyTypes'
    BY <1>2, <1>3, <1>4 DEF KeyTypes, WriteOp
  <1>6. PICK cut \in [0 .. Len(files) -> 0 .. writes] : RoomFor(cut)
    BY DEF Room
  <1>7. cut \in [0 .. Len(files) -> 0 .. writes + 1]
    BY <1>3, <1>6
  <1>8. RoomFor(cut)'
    <2>1. cut[Len(files)] \in Nat /\ cut[Len(files)] <= writes
      BY <1>1, <1>3, <1>6
    <2>2. cut[Len(files)] + Len(mem.operands) <= writes
      BY <1>6 DEF RoomFor
    <2>3. /\ cut[Len(files)] + Len(mem'.operands) <= writes + 1
          /\ cut[Len(files)] + 1 <= writes + 1
      <3>1. PICK c, u, v : c = cut[Len(files)] /\ u = Len(mem.operands)
                           /\ v = Len(mem'.operands)
        OBVIOUS
      <3>2. c \in Nat /\ u \in Nat /\ v \in Nat /\ writes \in Nat
        BY <1>3, <1>4, <2>1, <3>1
      <3>3. c <= writes /\ c + u <= writes /\ v <= u + 1
        BY <1>4, <2>1, <2>2, <3>1
      <3>4. c + v <= writes + 1 /\ c + 1 <= writes + 1
        BY <3>2, <3>3
      <3>5. QED
        BY <3>1, <3>4
    <2>4. QED
      BY <1>3, <1>6, <2>3 DEF RoomFor, WriteOp
  <1>9. Room'
    BY <1>3, <1>7, <1>8 DEF Room, WriteOp
  <1>10. QED
    BY <1>5, <1>9

LEMMA FlushKeeps ==
  ASSUME KeyIInv, Flush
  PROVE  KeyIInv'
  <1>1. /\ LayersOK(files) /\ LayerOK(mem) /\ LayerOK(Stacked(files)) /\ Len(files) \in Nat
        /\ LayerOK(Whole) /\ IsList(files) /\ DOMAIN files = 1 .. Len(files)
        /\ writes \in Nat /\ collapsed \in BOOLEAN
    BY WholeOK, ListDomain DEF KeyIInv, KeyTypes, LayersOK
  <1>2. kind \in {"counter", "erlang", "bitset"}
    BY KindOK DEF KeyIInv, KeyTypes
  <1>3. PICK w : w = Rewritten(kind, mem, FALSE)
    OBVIOUS
  <1>4. LayerOK(w) /\ Len(w.operands) \in Nat /\ Len(w.operands) <= Len(mem.operands)
    BY <1>1, <1>2, <1>3, RewrittenCases
  <1>5. files' = Append(files, w) /\ mem' = Empty
    BY <1>3, AppliedGives DEF Flush
  <1>6. PICK s : s = <<w>>
    OBVIOUS
  <1>7. LayersOK(s) /\ Stacked(s) = w /\ s[1] = w /\ Len(s) = 1 /\ IsList(s)
    BY <1>4, <1>6, StackShort, ListLaws
  <1>8. Joins(files, s, files') /\ IsList(files') /\ Len(files') = Len(files) + 1
    BY <1>1, <1>5, <1>6, ListEnd
  <1>9. /\ \A i \in 1 .. Len(files) : files'[i] = files[i]
        /\ files'[Len(files) + 1] = w
    <2>1. 1 \in 1 .. Len(s)
      BY <1>7
    <2>2. files'[Len(files) + 1] = s[1] /\ \A i \in 1 .. Len(files) : files'[i] = files[i]
      BY <1>8, <2>1 DEF Joins
    <2>3. QED
      BY <1>7, <2>2
  <1>10. LayersOK(files')
    <2>1. ASSUME NEW i \in DOMAIN files' PROVE LayerOK(files'[i])
      <3>1. i \in 1 .. Len(files) + 1
        BY <1>8, ListDomain
      <3>2. i \in 1 .. Len(files) \/ i = Len(files) + 1
        BY <1>1, <3>1
      <3>3. QED
        BY <1>1, <1>4, <1>9, <3>2 DEF LayersOK
    <2>2. QED
      BY <1>8, <2>1 DEF LayersOK
  <1>11. KeyTypes'
    BY <1>5, <1>10, EmptyLayer DEF KeyIInv, KeyTypes, Flush
  <1>12. Room'
    <2>1. PICK cut \in [0 .. Len(files) -> 0 .. writes] : RoomFor(cut)
      BY DEF KeyIInv, Room
    <2>2. PICK n \in Nat : n = Len(files)
      BY <1>1
    <2>3. PICK new : new = [i \in 0 .. n + 1 |-> IF i = n + 1 THEN writes ELSE cut[i]]
      OBVIOUS
    <2>4. new \in [0 .. Len(files') -> 0 .. writes']
      BY <1>1, <1>8, <2>1, <2>2, <2>3 DEF Flush
    <2>5. /\ new[n + 1] = writes /\ \A i \in 0 .. n : new[i] = cut[i]
      BY <2>2, <2>3
    <2>6. new[0] = 0
      BY <2>1, <2>2, <2>5 DEF RoomFor
    <2>7. ASSUME NEW i \in 1 .. n + 1
          PROVE  new[i - 1] + 1 <= new[i] /\ new[i - 1] + Len(files'[i].operands) <= new[i]
      <3>1. CASE i \in 1 .. n
        <4>1. i \in 0 .. n /\ i - 1 \in 0 .. n
          BY <2>2, <3>1
        <4>2. QED
          BY <1>9, <2>1, <2>2, <2>5, <3>1, <4>1 DEF RoomFor
      <3>2. CASE i = n + 1
        <4>1. i - 1 = n /\ n \in 0 .. n /\ cut[n] \in Nat
          BY <2>1, <2>2, <3>2
        <4>2. cut[n] + 1 <= writes /\ cut[n] + Len(mem.operands) <= writes
          BY <2>1, <2>2 DEF RoomFor, Flush
        <4>3. Len(mem.operands) \in Nat
          BY <1>1, AboveRoom
        <4>4. cut[n] + Len(w.operands) <= writes
          BY <1>1, <1>4, <4>1, <4>2, <4>3
        <4>5. QED
          BY <1>9, <2>2, <2>5, <3>2, <4>1, <4>2, <4>4
      <3>3. QED
        BY <2>2, <3>1, <3>2
    <2>8. Len(mem'.operands) = 0 /\ mem' = Empty
      BY <1>5, EmptyLayer, ListLaws
    <2>9. new[Len(files')] = writes /\ writes + 0 <= writes /\ writes' = writes
          /\ Len(files') = n + 1
      BY <1>1, <1>8, <2>2, <2>5 DEF Flush
    <2>10. RoomFor(new)'
      BY <2>6, <2>7, <2>8, <2>9 DEF RoomFor
    <2>11. QED
      BY <2>4, <2>10 DEF Room
  <1>13. Whole = Above(Above(Stacked(files), mem), Empty)
    BY <1>1, EmptyLayer DEF Whole
  <1>14. Whole' = Above(Above(Stacked(files), w), Empty)
    <2>1. Stacked(files') = Above(Stacked(files), w)
      BY <1>1, <1>7, <1>8, StackJoin
    <2>2. QED
      BY <1>5, <2>1 DEF Whole
  <1>15. NothingForeign' /\ ReadsAsWritten'
    <2>1. collapsed' = (collapsed \/ Collapses(mem, FALSE)) /\ kind' = kind /\ written' = written
      BY DEF Flush
    <2>2. LayerOK(Empty) /\ FALSE \in BOOLEAN
      BY EmptyLayer
    <2>3. QED
      BY <1>1, <1>3, <1>13, <1>14, <2>1, <2>2, RewriteKeeps DEF KeyIInv
  <1>16. QED
    BY <1>11, <1>12, <1>15 DEF KeyIInv


\* RoomFor, of files and a memtable that are named
RoomIn(cut, fs, m, w) ==
  /\ cut[0] = 0
  /\ \A i \in 1 .. Len(fs) :
       cut[i - 1] + 1 <= cut[i] /\ cut[i - 1] + Len(fs[i].operands) <= cut[i]
  /\ cut[Len(fs)] + Len(m.operands) <= w
  /\ m # Empty => cut[Len(fs)] + 1 <= w

(* The room of two files is room for the one that replaces them. *)
LEMMA JoinedRoom ==
  ASSUME NEW fs, LayersOK(fs), NEW gs, NEW i \in 1 .. Len(fs) - 1, NEW v,
         Joined(fs, i, v, gs), NEW m, NEW w \in Nat,
         NEW cut \in [0 .. Len(fs) -> 0 .. w], RoomIn(cut, fs, m, w),
         Len(v.operands) \in Nat,
         Len(v.operands) <= Len(fs[i].operands) + Len(fs[i + 1].operands)
  PROVE  \E new \in [0 .. Len(gs) -> 0 .. w] : RoomIn(new, gs, m, w)
  <1>1. PICK n \in Nat : n = Len(fs)
    BY ListDomain DEF LayersOK
  <1>2. i \in Nat /\ 1 <= i /\ i + 1 <= n /\ Len(gs) = n - 1 /\ n - 1 \in Nat
    BY <1>1 DEF Joined
  <1>3. PICK new : new = [j \in 0 .. n - 1 |-> IF j < i THEN cut[j] ELSE cut[j + 1]]
    OBVIOUS
  <1>4. \A j \in 0 .. n : cut[j] \in 0 .. w
    BY <1>1
  <1>5. new \in [0 .. Len(gs) -> 0 .. w]
    <2>1. ASSUME NEW j \in 0 .. n - 1 PROVE (IF j < i THEN cut[j] ELSE cut[j + 1]) \in 0 .. w
      <3>1. j \in 0 .. n /\ j + 1 \in 0 .. n
        BY <1>1
      <3>2. QED
        BY <1>4, <3>1
    <2>2. QED
      BY <1>2, <1>3, <2>1
  <1>6. /\ \A j \in 0 .. i - 1 : new[j] = cut[j]
        /\ \A j \in i .. n - 1 : new[j] = cut[j + 1]
    BY <1>2, <1>3
  <1>7. new[0] = 0
    <2>1. 0 \in 0 .. i - 1
      BY <1>2
    <2>2. QED
      BY <1>6, <2>1 DEF RoomIn
  <1>8. ASSUME NEW j \in 1 .. n - 1
        PROVE  new[j - 1] + 1 <= new[j] /\ new[j - 1] + Len(gs[j].operands) <= new[j]
    <2>1. CASE j <= i - 1
      <3>1. j \in 0 .. i - 1 /\ j - 1 \in 0 .. i - 1 /\ j \in 1 .. i - 1 /\ j \in 1 .. Len(fs)
        BY <1>1, <1>2, <2>1
      <3>2. gs[j] = fs[j]
        BY <3>1 DEF Joined
      <3>3. QED
        BY <1>6, <3>1, <3>2 DEF RoomIn
    <2>2. CASE j = i
      <3>1. i - 1 \in 0 .. i - 1 /\ i \in i .. n - 1 /\ i \in 1 .. Len(fs)
            /\ i + 1 \in 1 .. Len(fs) /\ (i + 1) - 1 = i /\ i - 1 \in 0 .. n /\ i \in 0 .. n
            /\ i + 1 \in 0 .. n
        BY <1>1, <1>2
      <3>2. new[i - 1] = cut[i - 1] /\ new[i] = cut[i + 1] /\ gs[i] = v
        BY <1>6, <3>1 DEF Joined
      <3>3. /\ cut[i - 1] + 1 <= cut[i] /\ cut[i - 1] + Len(fs[i].operands) <= cut[i]
            /\ cut[i] + 1 <= cut[i + 1] /\ cut[i] + Len(fs[i + 1].operands) <= cut[i + 1]
        BY <3>1 DEF RoomIn
      <3>4. /\ LayerOK(fs[i]) /\ LayerOK(fs[i + 1])
        BY <3>1, ListDomain DEF LayersOK
      <3>5. PICK a \in Nat, b \in Nat : a = Len(fs[i].operands) /\ b = Len(fs[i + 1].operands)
        BY <3>4, AboveRoom
      <3>6. PICK x \in Nat, y \in Nat, z \in Nat :
              x = cut[i - 1] /\ y = cut[i] /\ z = cut[i + 1]
        BY <1>4, <3>1
      <3>7. x + 1 <= y /\ x + a <= y /\ y + 1 <= z /\ y + b <= z
        BY <3>3, <3>5, <3>6
      <3>8. PICK l \in Nat : l = Len(v.operands) /\ l <= a + b
        BY <3>5
      <3>9. x + 1 <= z /\ x + l <= z
        BY <3>7, <3>8
      <3>10. QED
        BY <2>2, <3>2, <3>6, <3>8, <3>9
    <2>3. CASE i + 1 <= j
      <3>1. j \in i .. n - 1 /\ j - 1 \in i .. n - 1 /\ j + 1 \in 1 .. Len(fs)
            /\ (j + 1) - 1 = j /\ (j - 1) + 1 = j /\ j \in i + 1 .. Len(fs) - 1
        BY <1>1, <1>2, <2>3
      <3>2. new[j] = cut[j + 1] /\ new[j - 1] = cut[j] /\ gs[j] = fs[j + 1]
        <4>1. new[j - 1] = cut[(j - 1) + 1]
          BY <1>6, <3>1
        <4>2. QED
          BY <1>6, <3>1, <4>1 DEF Joined
      <3>3. cut[j] + 1 <= cut[j + 1] /\ cut[j] + Len(fs[j + 1].operands) <= cut[j + 1]
        <4>1. cut[(j + 1) - 1] + 1 <= cut[j + 1]
              /\ cut[(j + 1) - 1] + Len(fs[j + 1].operands) <= cut[j + 1]
          BY <3>1 DEF RoomIn
        <4>2. QED
          BY <3>1, <4>1
      <3>4. QED
        BY <3>2, <3>3
    <2>4. j <= i - 1 \/ j = i \/ i + 1 <= j
      BY <1>2
    <2>5. QED
      BY <2>1, <2>2, <2>3, <2>4
  <1>9. new[n - 1] = cut[n]
    <2>1. n - 1 \in i .. n - 1 /\ (n - 1) + 1 = n
      BY <1>2
    <2>2. QED
      BY <1>6, <2>1
  <1>10. RoomIn(new, gs, m, w)
    BY <1>1, <1>2, <1>7, <1>8, <1>9 DEF RoomIn
  <1>11. QED
    BY <1>5, <1>10

LEMMA CompactKeeps ==
  ASSUME KeyIInv, Compact
  PROVE  KeyIInv'
  <1>1. /\ LayersOK(files) /\ LayerOK(mem) /\ Len(files) \in Nat
        /\ IsList(files) /\ DOMAIN files = 1 .. Len(files)
        /\ writes \in Nat /\ collapsed \in BOOLEAN
    BY WholeOK, ListDomain DEF KeyIInv, KeyTypes, LayersOK
  <1>2. kind \in {"counter", "erlang", "bitset"}
    BY KindOK DEF KeyIInv, KeyTypes
  <1>3. PICK i \in 1 .. Len(files) - 1 :
          /\ files' = SubSeq(files, 1, i - 1)
                        \o <<Written(Above(files[i], files[i + 1]), i = 1)>>
                        \o SubSeq(files, i + 2, Len(files))
          /\ collapsed' = (collapsed \/ Collapses(Above(files[i], files[i + 1]), i = 1))
    BY DEF Compact
  <1>4. kind' = kind /\ mem' = mem /\ written' = written /\ writes' = writes
    BY DEF Compact
  <1>5. PICK both, bottom, w : /\ both = Above(files[i], files[i + 1]) /\ bottom = (i = 1)
                               /\ w = Rewritten(kind, both, bottom)
    OBVIOUS
  <1>6. files' = SubSeq(files, 1, i - 1) \o <<w>> \o SubSeq(files, i + 2, Len(files))
    <2>1. Written(both, bottom) = w
      BY <1>5, AppliedGives
    <2>2. Written(Above(files[i], files[i + 1]), i = 1) = w
      BY <1>5, <2>1
    <2>3. QED
      BY <1>3, <2>2
  <1>7. collapsed' = (collapsed \/ Collapses(both, bottom)) /\ bottom \in BOOLEAN
        /\ (bottom <=> i = 1)
    BY <1>3, <1>5
  <1>8. LayerOK(files[i]) /\ LayerOK(files[i + 1]) /\ LayerOK(both)
    <2>1. i \in DOMAIN files /\ i + 1 \in DOMAIN files
      BY <1>1
    <2>2. LayerOK(files[i]) /\ LayerOK(files[i + 1])
      BY <1>1, <2>1 DEF LayersOK
    <2>3. QED
      BY <1>5, <2>2, AboveOK
  <1>9. LayerOK(w) /\ Len(w.operands) \in Nat /\ Len(w.operands) <= Len(both.operands)
    BY <1>2, <1>5, <1>7, <1>8, RewrittenCases
  <1>10. PICK g : g = files'
    OBVIOUS
  <1>11. g = SubSeq(files, 1, i - 1) \o <<w>> \o SubSeq(files, i + 2, Len(files))
    BY <1>6, <1>10
  <1>12. PICK s : s = files
    OBVIOUS
  <1>13. Compacted(s, i, w, g) /\ i \in 1 .. Len(s) - 1
    BY <1>11, <1>12 DEF Compacted
  <1>14. /\ Joined(s, i, w, g) /\ LayersOK(g)
         /\ \E p, r : /\ LayerOK(p) /\ LayerOK(r) /\ (i = 1 => p = Empty)
                      /\ Stacked(s) = Above(Above(p, Above(s[i], s[i + 1])), r)
                      /\ Stacked(g) = Above(Above(p, w), r)
    BY <1>1, <1>9, <1>12, <1>13, CompactJoins
  <1>15. KeyTypes'
    BY <1>4, <1>7, <1>10, <1>14 DEF KeyIInv, KeyTypes
  <1>16. Room'
    <2>1. PICK cut \in [0 .. Len(files) -> 0 .. writes] : RoomFor(cut)
      BY DEF KeyIInv, Room
    <2>2. RoomIn(cut, files, mem, writes)
      BY <2>1 DEF RoomFor, RoomIn
    <2>3. Len(w.operands) <= Len(files[i].operands) + Len(files[i + 1].operands)
      <3>1. /\ Len(files[i].operands) \in Nat /\ Len(files[i + 1].operands) \in Nat
            /\ Len(both.operands) \in Nat
            /\ Len(both.operands) <= Len(files[i].operands) + Len(files[i + 1].operands)
        BY <1>5, <1>8, AboveRoom
      <3>2. PICK a \in Nat, b \in Nat, c \in Nat, d \in Nat :
              /\ a = Len(files[i].operands) /\ b = Len(files[i + 1].operands)
              /\ c = Len(both.operands) /\ d = Len(w.operands)
        BY <1>9, <3>1
      <3>3. c <= a + b /\ d <= c
        BY <1>9, <3>1, <3>2
      <3>4. d <= a + b
        BY <3>3
      <3>5. QED
        BY <3>2, <3>4
    <2>4. PICK m, u : m = mem /\ u = writes
      OBVIOUS
    <2>5. \E new \in [0 .. Len(g) -> 0 .. u] : RoomIn(new, g, m, u)
      <3>1. /\ LayersOK(s) /\ Joined(s, i, w, g) /\ u \in Nat /\ i \in 1 .. Len(s) - 1
            /\ cut \in [0 .. Len(s) -> 0 .. u] /\ RoomIn(cut, s, m, u)
            /\ Len(w.operands) <= Len(s[i].operands) + Len(s[i + 1].operands)
        BY <1>1, <1>12, <1>14, <2>1, <2>2, <2>3, <2>4
      <3>2. QED
        BY <1>9, <3>1, JoinedRoom
    <2>6. PICK new \in [0 .. Len(g) -> 0 .. u] : RoomIn(new, g, m, u)
      BY <2>5
    <2>7. RoomFor(new)'
      BY <1>4, <1>10, <2>4, <2>6 DEF RoomFor, RoomIn
    <2>8. QED
      BY <1>4, <1>10, <2>4, <2>6, <2>7 DEF Room
  <1>17. PICK p, r : /\ LayerOK(p) /\ LayerOK(r) /\ (i = 1 => p = Empty)
                     /\ Stacked(s) = Above(Above(p, Above(s[i], s[i + 1])), r)
                     /\ Stacked(g) = Above(Above(p, w), r)
    BY <1>14
  <1>18. PICK m : m = mem /\ LayerOK(m)
    BY <1>1
  <1>19. PICK t : t = Above(r, m) /\ LayerOK(t)
    BY <1>17, <1>18, AboveOK
  <1>20. Whole = Above(Above(p, both), t) /\ Whole' = Above(Above(p, w), t)
    <2>1. LayerOK(Above(p, both)) /\ LayerOK(Above(p, w))
      BY <1>8, <1>9, <1>17, AboveOK
    <2>2. /\ Above(Above(Above(p, both), r), m) = Above(Above(p, both), t)
          /\ Above(Above(Above(p, w), r), m) = Above(Above(p, w), t)
      BY <1>17, <1>18, <1>19, <2>1, AboveOK
    <2>3. Whole = Above(Stacked(s), m) /\ Whole' = Above(Stacked(g), m)
      BY <1>4, <1>10, <1>12, <1>18 DEF Whole
    <2>4. QED
      BY <1>5, <1>12, <1>17, <2>2, <2>3
  <1>21. NothingForeign' /\ ReadsAsWritten'
    <2>1. Whole' = Above(Above(p, Rewritten(kind, both, bottom)), t)
      BY <1>5, <1>20
    <2>2. bottom => p = Empty
      BY <1>7, <1>17
    <2>3. KeyTypes /\ NothingForeign /\ ReadsAsWritten
      BY DEF KeyIInv
    <2>4. QED
      BY <1>4, <1>7, <1>8, <1>17, <1>19, <1>20, <2>1, <2>2, <2>3, RewriteKeeps
  <1>22. QED
    BY <1>15, <1>16, <1>21 DEF KeyIInv

(* Nothing is stored at first; every write, flush and compaction keeps the
   invariant. *)
LEMMA KeyStarts == Init => KeyIInv
  <1> SUFFICES ASSUME Init PROVE KeyIInv
    OBVIOUS
  <1>1. LayersOK(<<>>) /\ Len(<<>>) = 0
    <2>1. \A i : i \notin DOMAIN <<>>
      BY ListLaws, ListDomain
    <2>2. QED
      BY <2>1, ListLaws DEF LayersOK
  <1>2. LayerOK(Empty) /\ Len(Empty.operands) = 0 /\ Above(Empty, Empty) = Empty
    BY EmptyLayer, ListLaws
  <1>3. KeyTypes
    <2>1. 0 \in 0 .. MaxWrites /\ 0 <= 0
      BY StackAssumption
    <2>2. QED
      BY <1>1, <1>2, <2>1 DEF Init, KeyTypes
  <1>4. Room
    <2>1. PICK cut : cut = [i \in 0 .. 0 |-> 0]
      OBVIOUS
    <2>2. cut \in [0 .. 0 -> 0 .. 0] /\ cut[0] = 0
      BY <2>1
    <2>3. RoomFor(cut)
      BY <1>1, <1>2, <2>2 DEF RoomFor, Init
    <2>4. QED
      BY <1>1, <2>2, <2>3 DEF Room, Init
  <1>5. Whole = Empty
    BY <1>2, StackShort DEF Init, Whole
  <1>6. QED
    BY <1>2, <1>3, <1>4, <1>5, AmongLaws DEF KeyIInv, NothingForeign, ReadsAsWritten, Init

LEMMA KeySteps == KeyIInv /\ [Next]_vars => KeyIInv'
  <1> SUFFICES ASSUME KeyIInv, [Next]_vars PROVE KeyIInv'
    OBVIOUS
  <1>1. CASE Put \/ Delete \/ MergeOp
    <2>1. PICK l : IsWrite(l) /\ WriteOp(l)
      BY <1>1, Writes DEF KeyIInv, KeyTypes
    <2>2. KeyTypes' /\ Room'
      BY <2>1, WriteTypes DEF KeyIInv
    <2>3. NothingForeign' /\ ReadsAsWritten'
      BY <2>1, WriteKeeps DEF KeyIInv
    <2>4. QED
      BY <2>2, <2>3 DEF KeyIInv
  <1>2. CASE Flush
    BY <1>2, FlushKeeps
  <1>3. CASE Compact
    BY <1>3, CompactKeeps
  <1>4. CASE UNCHANGED vars
    BY <1>4 DEF vars, KeyIInv, KeyTypes, Room, RoomFor, NothingForeign, ReadsAsWritten, Whole
  <1>5. QED
    BY <1>1, <1>2, <1>3, <1>4 DEF Next


LEMMA LayerRoom ==
  ASSUME NEW x, LayerOK(x)
  PROVE  Len(x.operands) \in Nat
  BY ListDomain DEF LayerOK, Countable

LEMMA RoomBounds ==
  ASSUME KeyTypes, Room
  PROVE  /\ Len(files) <= MaxWrites /\ Len(mem.operands) <= MaxWrites
         /\ Len(written.operands) <= MaxWrites
         /\ \A i \in DOMAIN files : Len(files[i].operands) <= MaxWrites
  <1>1. PICK cut \in [0 .. Len(files) -> 0 .. writes] : RoomFor(cut)
    BY DEF Room
  <1>2. PICK n \in Nat : n = Len(files)
    BY WholeOK
  <1>3. PICK w \in Nat, x \in Nat : w = writes /\ x = MaxWrites /\ w <= x
    BY StackAssumption DEF KeyTypes
  <1>4. DOMAIN files = 1 .. n /\ LayersOK(files) /\ LayerOK(mem) /\ LayerOK(written)
    BY <1>2, ListDomain DEF KeyTypes, LayersOK
  <1>5. \A i \in 0 .. n : cut[i] \in 0 .. w
    BY <1>1, <1>2, <1>3
  <1> DEFINE I == {i \in Nat : i <= n => i <= cut[i]}
  <1>6. 0 \in I
    BY <1>1, <1>2 DEF RoomFor
  <1>7. ASSUME NEW i \in Nat, i \in I PROVE i + 1 \in I
    <2> SUFFICES ASSUME i + 1 <= n PROVE i + 1 <= cut[i + 1]
      OBVIOUS
    <2>1. i + 1 \in 1 .. n /\ (i + 1) - 1 = i /\ i \in 0 .. n /\ i + 1 \in 0 .. n /\ i <= cut[i]
      BY <1>7
    <2>2. cut[i] + 1 <= cut[i + 1]
      <3>1. cut[(i + 1) - 1] + 1 <= cut[i + 1]
        BY <1>1, <1>2, <2>1 DEF RoomFor
      <3>2. QED
        BY <2>1, <3>1
    <2>3. PICK a \in Nat, b \in Nat : a = cut[i] /\ b = cut[i + 1]
      BY <1>5, <2>1
    <2>4. QED
      BY <2>1, <2>2, <2>3
  <1> HIDE DEF I
  <1>8. n \in I
    BY <1>6, <1>7, InductionSet
  <1>9. n <= x
    <2>1. n <= cut[n] /\ cut[n] \in 0 .. w
      BY <1>5, <1>8 DEF I
    <2>2. QED
      BY <1>3, <2>1
  <1>10. Len(mem.operands) <= x
    <2>1. PICK a \in Nat, b \in Nat : a = cut[n] /\ b = Len(mem.operands)
      <3>1. n \in 0 .. n /\ Len(mem.operands) \in Nat
        BY <1>4, LayerRoom
      <3>2. QED
        BY <1>5, <3>1
    <2>2. a + b <= w
      BY <1>1, <1>2, <1>3, <2>1 DEF RoomFor
    <2>3. b <= x
      BY <1>3, <2>2
    <2>4. QED
      BY <2>1, <2>3
  <1>11. Len(written.operands) <= x
    <2>1. PICK b \in Nat : b = Len(written.operands)
      BY <1>4, AboveRoom
    <2>2. b <= w
      BY <1>3, <2>1 DEF KeyTypes
    <2>3. QED
      BY <1>3, <2>1, <2>2
  <1>12. ASSUME NEW i \in 1 .. n PROVE Len(files[i].operands) <= x
    <2>1. LayerOK(files[i])
      BY <1>4 DEF LayersOK
    <2>2. i \in 0 .. n /\ i - 1 \in 0 .. n
      OBVIOUS
    <2>3. PICK a \in Nat, b \in Nat, c \in Nat :
            a = cut[i - 1] /\ b = Len(files[i].operands) /\ c = cut[i] /\ c <= w
      <3>1. Len(files[i].operands) \in Nat
        BY <2>1, LayerRoom
      <3>2. cut[i - 1] \in 0 .. w /\ cut[i] \in 0 .. w
        BY <1>5, <2>2
      <3>3. QED
        BY <3>1, <3>2
    <2>4. a + b <= c
      BY <1>1, <1>2, <2>3 DEF RoomFor
    <2>5. b <= x
      BY <1>3, <2>4
    <2>6. QED
      BY <2>3, <2>5
  <1>13. QED
    BY <1>2, <1>3, <1>4, <1>9, <1>10, <1>11, <1>12

LEMMA KeyTypesOK ==
  ASSUME KeyIInv
  PROVE  TypeOK
  <1>1. KeyTypes /\ Room
    BY DEF KeyIInv
  <1>2. /\ Len(files) <= MaxWrites /\ Len(mem.operands) <= MaxWrites
        /\ Len(written.operands) <= MaxWrites
        /\ \A i \in DOMAIN files : Len(files[i].operands) <= MaxWrites
    BY <1>1, RoomBounds
  <1>3. ASSUME NEW l \in {mem, written} \cup {files[i] : i \in DOMAIN files}
        PROVE  /\ l.over \in BOOLEAN /\ Lasting(l.value)
               /\ ~l.over => l.value = None
               /\ Len(l.operands) <= MaxWrites
    <2>1. LayerOK(l)
      BY <1>1, <1>3 DEF KeyTypes, LayersOK
    <2>2. Len(l.operands) <= MaxWrites
      BY <1>2, <1>3
    <2>3. QED
      BY <2>1, <2>2 DEF LayerOK, Valued
  <1>4. QED
    BY <1>1, <1>2, <1>3 DEF TypeOK, KeyTypes

LEMMA UnmixedAlike ==
  ASSUME Unmixed
  PROVE  Alike(written.operands)
  <1> DEFINE ops == written.operands
             terms == {IsEtf(ops[i]) : i \in DOMAIN ops}
                        \cup IF written.value = None THEN {} ELSE {IsEtf(written.value)}
  <1>1. terms # BOOLEAN
    BY DEF Unmixed
  <1>2. SUFFICES ASSUME NEW i \in DOMAIN ops, NEW j \in DOMAIN ops,
                        IsEtf(ops[i]), ~IsEtf(ops[j])
                 PROVE  FALSE
    BY DEF Alike
  <1>3. IsEtf(ops[i]) = TRUE /\ IsEtf(ops[j]) = FALSE
    BY <1>2 DEF IsEtf
  <1>4. TRUE \in terms /\ FALSE \in terms
    BY <1>2, <1>3, Zenon
  <1>5. terms \subseteq BOOLEAN
    BY DEF IsEtf
  <1>6. QED
    BY <1>1, <1>4, <1>5

LEMMA LossCollapses ==
  ASSUME KeyIInv
  PROVE  LossNeedsCollapse
  <1> SUFFICES ASSUME kind = "counter" \/ ~collapsed, kind = "erlang" => Unmixed
               PROVE  FlushInvisible
    BY DEF LossNeedsCollapse
  <1>1. Gives(kind, Whole) = Gives(kind, written)
    BY UnmixedAlike DEF KeyIInv, ReadsAsWritten
  <1>2. Read = Gives(kind, Whole) /\ Applied(written) = Gives(kind, written)
    BY AppliedGives DEF Read, Whole
  <1>3. QED
    BY <1>1, <1>2 DEF FlushInvisible

(* The inductive invariant of a key: what holds of its layers and of the
   history in every state, whatever RocksDB has flushed and compacted. *)
THEOREM KeyInvariance == Spec => []KeyIInv
  BY KeyStarts, KeySteps, PTL DEF Spec

(* Every layer is a value or operands over what is below, and there are never
   more of them than writes. *)
THEOREM KeyTypeOK == Spec => []TypeOK
  <1>1. KeyIInv => TypeOK
    BY KeyTypesOK
  <1>2. QED
    BY <1>1, KeyInvariance, PTL

(* MergeUntil may apply a merge operator of merge.rs in as many goes as it
   likes: what a read returns is what the writes say, unless operands that
   are no numbers of a counter were merged without their value. *)
THEOREM OnlyCollapsesLose == Spec => []LossNeedsCollapse
  <1>1. KeyIInv => LossNeedsCollapse
    BY LossCollapses
  <1>2. QED
    BY <1>1, KeyInvariance, PTL


-----------------------------------------------------------------------------
(* Bits *)

LEMMA FunctionList ==
  ASSUME NEW n \in Nat, NEW f, f = [i \in 1 .. n |-> f[i]]
  PROVE  IsList(f) /\ Len(f) = n /\ DOMAIN f = 1 .. n
  <1> DEFINE U == {f[i] : i \in 1 .. n}
  <1>1. f \in [1 .. n -> U]
    OBVIOUS
  <1> HIDE DEF U
  <1>2. f \in Seq(U) /\ DOMAIN f = 1 .. n
    BY <1>1, SeqDef
  <1>3. Len(f) = n
    BY <1>1, <1>2, LenProperties
  <1>4. QED
    BY <1>2, <1>3, ListOver

\* The byte and the bit in it that hold position p
Byte(p) == p \div ByteBits
Bit(p) == p % ByteBits

LEMMA Positions ==
  ASSUME NEW p \in Nat, NEW q \in Nat
  PROVE  /\ Byte(p) \in Nat
         /\ p = q <=> Byte(p) = Byte(q) /\ Bit(p) = Bit(q)
  <1>1. ByteBits \in Nat \ {0}
    BY WidthAssumption
  <1>2. PICK m \in Nat \ {0} : m = ByteBits
    BY <1>1
  <1> DEFINE Of(x, y, z) == x \in 0 .. m - 1 /\ y \in Int /\ z = m * y + x
  <1>3. \A z \in Nat : Of(z % m, z \div m, z)
    BY Division
  <1>4. Of(Bit(p), Byte(p), p) /\ Of(Bit(q), Byte(q), q)
    BY <1>2, <1>3 DEF Byte, Bit
  <1>5. PICK a \in Int, b \in Int, r \in 0 .. m - 1, s \in 0 .. m - 1 :
          a = Byte(p) /\ b = Byte(q) /\ r = Bit(p) /\ s = Bit(q)
    BY <1>4
  <1>6. p = m * a + r /\ q = m * b + s
    BY <1>5, <1>4
  <1>7. a \in Nat
    <2>1. CASE a < 0
      <3>1. a <= -1
        BY <2>1
      <3>2. m * a <= m * (-1)
        BY <3>1
      <3>3. m * a + r < 0
        BY <3>2
      <3>4. QED
        BY <1>6, <3>3
    <2>2. QED
      BY <2>1
  <1>8. a = b /\ r = s => p = q
    BY <1>6
  <1>9. p = q => a = b /\ r = s
    BY <1>5
  <1>10. QED
    BY <1>5, <1>7, <1>8, <1>9

LEMMA BitOfByte ==
  ASSUME NEW u, NEW p
  PROVE  BitOf(u, p) <=> Byte(p) < Len(u) /\ Bit(p) \in u[Byte(p) + 1]
  BY DEF BitOf, Byte, Bit

(* A bitset is made long enough with bytes without bits. *)
LongEnough(u, d) == IF d >= Len(u) THEN Resized(u, d + 1) ELSE u

LengthensTo(u, d, w) ==
  /\ IsList(w) /\ d < Len(w) /\ Len(u) <= Len(w)
  /\ \A j \in 1 .. Len(w) : w[j] = IF j <= Len(u) THEN u[j] ELSE {}

LEMMA ResizedBits ==
  ASSUME NEW u, IsList(u), NEW d \in Nat
  PROVE  LengthensTo(u, d, LongEnough(u, d))
  <1> SUFFICES ASSUME NEW w, w = IF d >= Len(u) THEN Resized(u, d + 1) ELSE u
               PROVE  /\ IsList(w) /\ d < Len(w) /\ Len(u) <= Len(w)
                      /\ \A j \in 1 .. Len(w) : w[j] = IF j <= Len(u) THEN u[j] ELSE {}
    BY DEF LengthensTo, LongEnough
  <1>1. Len(u) \in Nat /\ DOMAIN u = 1 .. Len(u)
    BY ListDomain
  <1>2. PICK n \in Nat : n = Len(u)
    BY <1>1
  <1>3. CASE ~(d >= Len(u))
    <2>1. w = u /\ d < n
      BY <1>2, <1>3
    <2>2. QED
      BY <1>2, <2>1
  <1>4. CASE d >= Len(u)
    <2>1. PICK z : z = [i \in 1 .. (d + 1 - n) |-> {}]
      OBVIOUS
    <2>2. d + 1 - n \in Nat
      BY <1>2, <1>4
    <2>3. IsList(z) /\ Len(z) = d + 1 - n /\ \A i \in 1 .. d + 1 - n : z[i] = {}
      <3>1. z = [i \in 1 .. (d + 1 - n) |-> z[i]]
        BY <2>1
      <3>2. IsList(z) /\ Len(z) = d + 1 - n
        BY <2>2, <3>1, FunctionList
      <3>3. QED
        BY <2>1, <3>2
    <2>4. w = u \o z
      BY <1>2, <1>4, <2>1 DEF Resized
    <2>5. IsList(w) /\ Joins(u, z, w)
      BY <2>3, <2>4, ListJoin
    <2>6. Len(w) = d + 1
      <3>1. Len(w) = Len(u) + Len(z)
        BY <2>5 DEF Joins
      <3>2. QED
        BY <1>2, <2>2, <2>3, <3>1
    <2>7. ASSUME NEW j \in 1 .. d + 1 PROVE w[j] = IF j <= n THEN u[j] ELSE {}
      <3>1. CASE j <= n
        BY <1>2, <2>5, <3>1 DEF Joins
      <3>2. CASE ~(j <= n)
        <4>1. j - n \in 1 .. d + 1 - n /\ j - n \in 1 .. Len(z) /\ n + (j - n) = j
          BY <1>2, <2>3, <3>2
        <4>2. w[n + (j - n)] = z[j - n]
          BY <1>2, <2>5, <4>1 DEF Joins
        <4>3. QED
          BY <2>3, <3>2, <4>1, <4>2
      <3>3. QED
        BY <3>1, <3>2
    <2>8. QED
      BY <1>2, <1>4, <2>5, <2>6, <2>7
  <1>5. QED
    BY <1>3, <1>4

LEMMA SetBits ==
  ASSUME NEW u, IsList(u), NEW q \in Nat, NEW p \in Nat
  PROVE  /\ IsList(SetBit(u, q))
         /\ BitOf(SetBit(u, q), p) <=> (p = q \/ BitOf(u, p))
  <1>1. PICK d \in Nat, e \in Nat : d = Byte(q) /\ e = Byte(p)
    BY Positions
  <1>2. PICK w : w = IF d >= Len(u) THEN Resized(u, d + 1) ELSE u
    OBVIOUS
  <1>3. /\ IsList(w) /\ d < Len(w) /\ Len(u) <= Len(w)
        /\ \A j \in 1 .. Len(w) : w[j] = IF j <= Len(u) THEN u[j] ELSE {}
    <2>1. LengthensTo(u, d, LongEnough(u, d))
      BY ResizedBits
    <2>2. w = LongEnough(u, d)
      BY <1>2 DEF LongEnough
    <2>3. LengthensTo(u, d, w)
      BY <2>1, <2>2
    <2>4. QED
      BY <2>3 DEF LengthensTo
  <1>4. PICK x : x = [w EXCEPT ![d + 1] = @ \cup {Bit(q)}]
    OBVIOUS
  <1>5. SetBit(u, q) = x
    BY <1>1, <1>2, <1>4 DEF SetBit, Byte, Bit
  <1>6. PICK n \in Nat, m \in Nat : n = Len(u) /\ m = Len(w) /\ DOMAIN w = 1 .. m
    BY <1>3, ListDomain
  <1>7. w = [i \in 1 .. m |-> w[i]]
    BY <1>3, <1>6 DEF IsList
  <1>8. x = [i \in 1 .. m |-> x[i]]
    BY <1>4, <1>7
  <1>9. IsList(x) /\ Len(x) = m
    BY <1>8, FunctionList
  <1>10. /\ x[d + 1] = w[d + 1] \cup {Bit(q)}
         /\ \A j \in 1 .. m : j # d + 1 => x[j] = w[j]
    <2>1. d + 1 \in 1 .. m
      BY <1>3, <1>6
    <2>2. QED
      BY <1>4, <1>7, <2>1
  <1>11. CASE e = d
    <2>1. p = q <=> Bit(p) = Bit(q)
      BY <1>1, <1>11, Positions
    <2>2. BitOf(x, p) <=> Bit(p) = Bit(q) \/ Bit(p) \in w[d + 1]
      BY <1>1, <1>3, <1>6, <1>9, <1>10, <1>11, BitOfByte
    <2>3. w[d + 1] = IF d + 1 <= n THEN u[d + 1] ELSE {}
      BY <1>3, <1>6
    <2>4. BitOf(u, p) <=> Bit(p) \in w[d + 1]
      <3>1. d < n <=> d + 1 <= n
        OBVIOUS
      <3>2. QED
        BY <1>1, <1>6, <1>11, <2>3, <3>1, BitOfByte
    <2>5. QED
      BY <1>5, <1>9, <2>1, <2>2, <2>4
  <1>12. CASE e # d
    <2>1. p # q
      BY <1>1, <1>12, Positions
    <2>2. CASE e < n
      <3>1. e + 1 \in 1 .. m /\ e + 1 # d + 1 /\ e + 1 <= n /\ e < m
        BY <1>3, <1>6, <1>12, <2>2
      <3>2. x[e + 1] = u[e + 1]
        BY <1>3, <1>6, <1>10, <3>1
      <3>3. QED
        BY <1>1, <1>5, <1>6, <1>9, <2>1, <2>2, <3>1, <3>2, BitOfByte
    <2>3. CASE ~(e < n)
      <3>1. ~BitOf(u, p)
        BY <1>1, <1>6, <2>3, BitOfByte
      <3>2. CASE e < m
        <4>1. e + 1 \in 1 .. m /\ e + 1 # d + 1 /\ ~(e + 1 <= n)
          BY <1>6, <1>12, <2>3, <3>2
        <4>2. x[e + 1] = {}
          BY <1>3, <1>6, <1>10, <4>1
        <4>3. ~BitOf(x, p)
          BY <1>1, <4>2, BitOfByte
        <4>4. QED
          BY <1>5, <1>9, <2>1, <3>1, <4>3
      <3>3. CASE ~(e < m)
        <4>1. ~BitOf(x, p)
          BY <1>1, <1>9, <3>3, BitOfByte
        <4>2. QED
          BY <1>5, <1>9, <2>1, <3>1, <4>1
      <3>4. QED
        BY <3>2, <3>3
    <2>4. QED
      BY <2>2, <2>3
  <1>13. QED
    BY <1>11, <1>12

LEMMA ClearBits ==
  ASSUME NEW u, IsList(u), NEW q \in Nat, NEW p \in Nat
  PROVE  /\ IsList(ClearBit(u, q))
         /\ BitOf(ClearBit(u, q), p) <=> (p # q /\ BitOf(u, p))
  <1>1. PICK d \in Nat, e \in Nat : d = Byte(q) /\ e = Byte(p)
    BY Positions
  <1>2. PICK n \in Nat : n = Len(u) /\ DOMAIN u = 1 .. n
    BY ListDomain
  <1>3. CASE ~(d < n)
    <2>1. ClearBit(u, q) = u
      BY <1>1, <1>2, <1>3 DEF ClearBit, Byte
    <2>2. p = q => ~BitOf(u, p)
      BY <1>1, <1>2, <1>3, BitOfByte
    <2>3. QED
      BY <2>1, <2>2
  <1>4. CASE d < n
    <2>1. PICK x : x = [u EXCEPT ![d + 1] = @ \ {Bit(q)}]
      OBVIOUS
    <2>2. ClearBit(u, q) = x
      BY <1>1, <1>2, <1>4, <2>1 DEF ClearBit, Byte, Bit
    <2>3. u = [i \in 1 .. n |-> u[i]]
      BY <1>2 DEF IsList
    <2>4. x = [i \in 1 .. n |-> x[i]]
      BY <2>1, <2>3
    <2>5. IsList(x) /\ Len(x) = n
      BY <2>4, FunctionList
    <2>6. /\ x[d + 1] = u[d + 1] \ {Bit(q)}
          /\ \A j \in 1 .. n : j # d + 1 => x[j] = u[j]
      <3>1. d + 1 \in 1 .. n
        BY <1>4
      <3>2. QED
        BY <2>1, <2>3, <3>1
    <2>7. CASE e = d
      <3>1. p = q <=> Bit(p) = Bit(q)
        BY <1>1, <2>7, Positions
      <3>2. BitOf(x, p) <=> Bit(p) # Bit(q) /\ Bit(p) \in u[d + 1]
        BY <1>1, <1>4, <2>5, <2>6, <2>7, BitOfByte
      <3>3. BitOf(u, p) <=> Bit(p) \in u[d + 1]
        BY <1>1, <1>2, <1>4, <2>7, BitOfByte
      <3>4. QED
        BY <2>2, <2>5, <3>1, <3>2, <3>3
    <2>8. CASE e # d
      <3>1. p # q
        BY <1>1, <2>8, Positions
      <3>2. CASE e < n
        <4>1. e + 1 \in 1 .. n /\ e + 1 # d + 1
          BY <2>8, <3>2
        <4>2. x[e + 1] = u[e + 1]
          BY <2>6, <4>1
        <4>3. QED
          BY <1>1, <1>2, <2>2, <2>5, <3>1, <4>2, BitOfByte
      <3>3. CASE ~(e < n)
        BY <1>1, <1>2, <2>2, <2>5, <3>1, <3>3, BitOfByte
      <3>4. QED
        BY <3>2, <3>3
    <2>9. QED
      BY <2>7, <2>8
  <1>5. QED
    BY <1>3, <1>4


\* An operand that says something about position p
About(o, p) == (o.type \in {"bit_set", "bit_clear"} /\ o.pos = p) \/ Blank(o)

LEMMA BitStepSays ==
  ASSUME NEW u, IsList(u), NEW o, o.type \in {"bit_set", "bit_clear"} => o.pos \in Nat,
         NEW p \in Nat
  PROVE  \E w : /\ IsList(w) /\ Step("bitset", Term("bytes", u), o) = Term("bytes", w)
                /\ About(o, p) => (BitOf(w, p) <=> o.type = "bit_set")
                /\ ~About(o, p) => (BitOf(w, p) <=> BitOf(u, p))
  <1> DEFINE x == Term("bytes", u)
  <1>1. x.v = u /\ Step("bitset", x, o) = BitStep(x, o)
    BY DEF Term, Step
  <1>2. Blank(o) => o.type = "bytes"
    BY DEF Blank
  <1> HIDE DEF x
  <1>3. CASE o.type = "bit_set"
    <2>1. Step("bitset", x, o) = Term("bytes", SetBit(u, o.pos))
      <3>1. BitStep(x, o) = Term("bytes", SetBit(x.v, o.pos))
        BY <1>2, <1>3 DEF BitStep
      <3>2. QED
        BY <1>1, <3>1
    <2>2. About(o, p) <=> o.pos = p
      BY <1>2, <1>3 DEF About
    <2>3. /\ IsList(SetBit(u, o.pos))
          /\ BitOf(SetBit(u, o.pos), p) <=> (p = o.pos \/ BitOf(u, p))
      BY <1>3, SetBits
    <2>4. QED
      BY <1>3, <2>1, <2>2, <2>3 DEF x
  <1>4. CASE o.type = "bit_clear"
    <2>1. Step("bitset", x, o) = Term("bytes", ClearBit(u, o.pos))
      <3>1. BitStep(x, o) = Term("bytes", ClearBit(x.v, o.pos))
        BY <1>2, <1>4 DEF BitStep
      <3>2. QED
        BY <1>1, <3>1
    <2>2. About(o, p) <=> o.pos = p
      BY <1>2, <1>4 DEF About
    <2>3. /\ IsList(ClearBit(u, o.pos))
          /\ BitOf(ClearBit(u, o.pos), p) <=> (p # o.pos /\ BitOf(u, p))
      BY <1>4, ClearBits
    <2>4. QED
      BY <1>4, <2>1, <2>2, <2>3 DEF x
  <1>5. CASE o.type \notin {"bit_set", "bit_clear"} /\ Blank(o)
    <2>1. Step("bitset", x, o) = Term("bytes", <<>>)
      BY <1>1, <1>5 DEF BitStep
    <2>2. IsList(<<>>) /\ ~BitOf(<<>>, p)
      <3>1. PICK e \in Nat : e = Byte(p)
        BY Positions
      <3>2. IsList(<<>>) /\ Len(<<>>) = 0
        BY ListLaws
      <3>3. ~(e < 0)
        OBVIOUS
      <3>4. QED
        BY <3>1, <3>2, <3>3, BitOfByte
    <2>3. QED
      BY <1>5, <2>1, <2>2 DEF About, x
  <1>6. CASE o.type \notin {"bit_set", "bit_clear"} /\ ~Blank(o)
    <2>1. Step("bitset", x, o) = x
      BY <1>1, <1>6 DEF BitStep
    <2>2. ~About(o, p)
      BY <1>6 DEF About
    <2>3. QED
      BY <2>1, <2>2 DEF x
  <1>7. QED
    BY <1>3, <1>4, <1>5, <1>6

\* The last of the first n operands that says something about p, if one does
LastAbout(ops, n, p, j) ==
  j \in 1 .. n /\ About(ops[j], p) /\ \A i \in 1 .. n : i > j => ~About(ops[i], p)

(* A bit of a merged bitset is the last thing said about it. *)
LEMMA BitsSaid ==
  ASSUME NEW v, IsList(v), NEW ops, IsList(ops),
         \A i \in DOMAIN ops : ops[i].type \in {"bit_set", "bit_clear"} => ops[i].pos \in Nat,
         NEW p \in Nat, NEW w, w = InTurn("bitset", Term("bytes", v), ops).v
  PROVE  \/ (\A i \in DOMAIN ops : ~About(ops[i], p)) /\ (BitOf(w, p) <=> BitOf(v, p))
         \/ \E j : /\ LastAbout(ops, Len(ops), p, j)
                   /\ BitOf(w, p) <=> ops[j].type = "bit_set"
  <1>1. Len(ops) \in Nat /\ DOMAIN ops = 1 .. Len(ops)
    BY ListDomain
  <1>2. PICK n \in Nat : n = Len(ops)
    BY <1>1
  <1>3. PICK t : TurnsOf(t, "bitset", Term("bytes", v), ops)
                 /\ InTurn("bitset", Term("bytes", v), ops) = t[Len(ops)]
    BY <1>1, Turns
  <1> DEFINE Silent(i, u) == /\ \A k \in 1 .. i : ~About(ops[k], p)
                             /\ BitOf(u, p) <=> BitOf(v, p)
             Said(i, j, u) == /\ LastAbout(ops, i, p, j)
                              /\ BitOf(u, p) <=> ops[j].type = "bit_set"
             So(i, u) == /\ t[i] = Term("bytes", u) /\ IsList(u)
                         /\ Silent(i, u) \/ \E j : Said(i, j, u)
             Has(i) == \E u : So(i, u)
             I == {i \in Nat : i <= n => Has(i)}
  <1>4. 0 \in I
    <2>1. t[0] = Term("bytes", v)
      BY <1>3 DEF TurnsOf
    <2>2. Silent(0, v)
      OBVIOUS
    <2> HIDE DEF Silent, Said
    <2>3. So(0, v)
      BY <2>1, <2>2
    <2> HIDE DEF So
    <2>4. QED
      BY <2>3
  <1>5. ASSUME NEW i \in Nat, i \in I PROVE i + 1 \in I
    <2> SUFFICES ASSUME i + 1 <= n PROVE Has(i + 1)
      OBVIOUS
    <2>1. i + 1 \in 1 .. Len(ops) /\ (i + 1) - 1 = i /\ Has(i) /\ i + 1 \in DOMAIN ops
      BY <1>1, <1>2, <1>5
    <2>2. PICK u : So(i, u)
      BY <2>1
    <2>3. PICK o : o = ops[i + 1]
      OBVIOUS
    <2>4. t[i + 1] = Step("bitset", Term("bytes", u), o)
      BY <1>3, <2>1, <2>2, <2>3 DEF TurnsOf
    <2>5. PICK x : /\ IsList(x) /\ Step("bitset", Term("bytes", u), o) = Term("bytes", x)
                   /\ About(o, p) => (BitOf(x, p) <=> o.type = "bit_set")
                   /\ ~About(o, p) => (BitOf(x, p) <=> BitOf(u, p))
      <3>1. IsList(u) /\ (o.type \in {"bit_set", "bit_clear"} => o.pos \in Nat)
        BY <2>1, <2>2, <2>3
      <3>2. QED
        BY <3>1, BitStepSays
    <2>6. CASE About(o, p)
      <3>1. LastAbout(ops, i + 1, p, i + 1)
        BY <2>3, <2>6 DEF LastAbout
      <3>2. Said(i + 1, i + 1, x)
        BY <2>3, <2>5, <2>6, <3>1
      <3> HIDE DEF Said, Silent
      <3>3. So(i + 1, x)
        BY <2>4, <2>5, <3>2
      <3> HIDE DEF So
      <3>4. QED
        BY <3>3
    <2>7. CASE ~About(o, p)
      <3>1. \A k \in 1 .. i + 1 : k \in 1 .. i \/ k = i + 1
        OBVIOUS
      <3>2. CASE Silent(i, u)
        <4>1. Silent(i + 1, x)
          BY <2>3, <2>5, <2>7, <3>1, <3>2
        <4> HIDE DEF Said, Silent
        <4>2. So(i + 1, x)
          BY <2>4, <2>5, <4>1
        <4> HIDE DEF So
        <4>3. QED
          BY <4>2
      <3>3. CASE \E j : Said(i, j, u)
        <4>1. PICK j : Said(i, j, u)
          BY <3>3
        <4>2. LastAbout(ops, i + 1, p, j)
          <5>1. j \in 1 .. i + 1 /\ About(ops[j], p)
            BY <4>1 DEF LastAbout
          <5>2. ASSUME NEW k \in 1 .. i + 1, k > j PROVE ~About(ops[k], p)
            BY <2>3, <2>7, <3>1, <4>1, <5>2 DEF LastAbout
          <5>3. QED
            BY <5>1, <5>2 DEF LastAbout
        <4>3. Said(i + 1, j, x)
          BY <2>5, <2>7, <4>1, <4>2
        <4> HIDE DEF Said, Silent
        <4>4. So(i + 1, x)
          BY <2>4, <2>5, <4>3
        <4> HIDE DEF So
        <4>5. QED
          BY <4>4
      <3>4. QED
        BY <2>2, <3>2, <3>3
    <2>8. QED
      BY <2>6, <2>7
  <1> HIDE DEF I
  <1>6. n \in I
    BY <1>4, <1>5, InductionSet
  <1>7. PICK u : So(n, u)
    BY <1>6 DEF I
  <1>8. w = u
    <2>1. t[n] = Term("bytes", u) /\ Term("bytes", u).v = u
      BY <1>7 DEF Term
    <2>2. QED
      BY <1>2, <1>3, <2>1
  <1>9. QED
    BY <1>1, <1>2, <1>7, <1>8


\* The history holds what a caller wrote.
SaidOK ==
  /\ written.value \in Values[kind] \cup {None}
  /\ \A i \in DOMAIN written.operands : written.operands[i] \in Operands[kind]
BitIInv == KeyIInv /\ SaidOK

LEMMA BitStarts == Init => BitIInv
  <1> SUFFICES ASSUME Init PROVE BitIInv
    OBVIOUS
  <1>1. \A i : i \notin DOMAIN <<>>
    BY ListLaws, ListDomain
  <1>2. written.value = None /\ written.operands = <<>>
    BY EmptyLayer DEF Init
  <1>3. QED
    BY <1>1, <1>2, KeyStarts DEF BitIInv, SaidOK

LEMMA BitSteps == BitIInv /\ [Next]_vars => BitIInv'
  <1> SUFFICES ASSUME BitIInv, [Next]_vars PROVE BitIInv'
    OBVIOUS
  <1>1. KeyIInv' /\ SaidOK
    BY KeySteps DEF BitIInv
  <1> SUFFICES SaidOK'
    BY <1>1 DEF BitIInv
  <1>2. IsList(written.operands)
    BY DEF BitIInv, KeyIInv, KeyTypes, LayerOK, Countable
  <1>3. \A i : i \notin DOMAIN <<>>
    BY ListLaws, ListDomain
  <1>4. ASSUME NEW v \in Values[kind] \cup {None}, WriteOp(Layer(TRUE, v, <<>>))
        PROVE  SaidOK'
    <2>1. written' = Layer(TRUE, v, <<>>)
      BY <1>4 DEF WriteOp, Above, Layer
    <2>2. written'.value = v /\ written'.operands = <<>> /\ kind' = kind
      BY <1>4, <2>1 DEF WriteOp, Layer
    <2>3. QED
      BY <1>3, <2>2 DEF SaidOK
  <1>5. CASE Put
    BY <1>4, <1>5 DEF Put
  <1>6. CASE Delete
    BY <1>4, <1>6 DEF Delete
  <1>7. CASE MergeOp
    <2>1. PICK o \in Operands[kind] : WriteOp(Layer(FALSE, None, <<o>>))
      BY <1>7 DEF MergeOp
    <2>2. PICK s : s = <<o>> /\ IsList(s) /\ DOMAIN s = 1 .. 1 /\ s[1] = o
      BY ListLaws, ListDomain
    <2>3. PICK l : l = Layer(FALSE, None, s)
      OBVIOUS
    <2>4. ~l.over /\ l.operands = s /\ written' = Above(written, l) /\ kind' = kind
      BY <2>1, <2>2, <2>3 DEF WriteOp, Layer
    <2>5. Extends(written, l, written')
      BY <2>4, AboveExtends
    <2>6. PICK c : c = written.operands \o s
      OBVIOUS
    <2>7. written'.value = written.value /\ written'.operands = c
      BY <2>4, <2>5, <2>6 DEF Extends
    <2>8. ASSUME NEW i \in DOMAIN c PROVE c[i] \in Operands[kind]
      <3>1. \/ \E j \in DOMAIN written.operands : c[i] = written.operands[j]
            \/ \E j \in DOMAIN s : c[i] = s[j]
        BY <1>2, <2>2, <2>6, ListJoinHas
      <3>2. QED
        BY <2>2, <3>1 DEF BitIInv, SaidOK
    <2>9. QED
      BY <1>1, <2>4, <2>7, <2>8 DEF SaidOK
  <1>8. CASE Flush \/ Compact \/ UNCHANGED vars
    BY <1>1, <1>8 DEF SaidOK, Flush, Compact, vars
  <1>9. QED
    BY <1>5, <1>6, <1>7, <1>8 DEF Next

\* LastSays, of a history that is named
Says(layer, p) ==
  LET said == {i \in DOMAIN layer.operands : About(layer.operands[i], p)}
  IN IF said = {} THEN BitOf(layer.value.v, p)
     ELSE layer.operands[CHOOSE i \in said : \A j \in said : j <= i].type = "bit_set"

LEMMA BitsRead ==
  ASSUME BitIInv, kind = "bitset", ~collapsed, NEW p \in Nat
  PROVE  BitOf(Read.v, p) = LastSays(p)
  <1>1. PICK h : h = written
    OBVIOUS
  <1>2. LastSays(p) = Says(h, p)
    BY <1>1 DEF LastSays, Says, About
  <1>3. Read = Gives("bitset", h)
    <2>1. Gives(kind, Whole) = Gives(kind, written)
      BY DEF BitIInv, KeyIInv, ReadsAsWritten
    <2>2. Read = Gives(kind, Whole)
      BY AppliedGives DEF Read, Whole
    <2>3. QED
      BY <1>1, <2>1, <2>2
  <1>4. kind \in Kinds /\ LayerOK(h) /\ IsList(h.operands)
    BY <1>1 DEF BitIInv, KeyIInv, KeyTypes, LayerOK, Countable
  <1>5. IsList(h.value.v)
    <2>1. None.v = <<>> /\ IsList(<<>>)
      BY ListLaws DEF None, Term
    <2>2. h.value \in Values[kind] => IsList(h.value.v)
      BY <1>4, StackAssumption
    <2>3. h.value \in Values[kind] \cup {None}
      BY <1>1 DEF BitIInv, SaidOK
    <2>4. QED
      BY <2>1, <2>2, <2>3
  <1>6. \A i \in DOMAIN h.operands :
          h.operands[i].type \in {"bit_set", "bit_clear"} => h.operands[i].pos \in Nat
    <2>1. \A i \in DOMAIN h.operands : h.operands[i] \in Operands[kind]
      BY <1>1 DEF BitIInv, SaidOK
    <2>2. \A t \in Operands[kind] : t.type \in {"bit_set", "bit_clear"} => t.pos \in Nat
      BY <1>4, StackAssumption
    <2>3. QED
      BY <2>1, <2>2
  <1>7. PICK ops, v : ops = h.operands /\ v = h.value.v
    OBVIOUS
  <1> DEFINE said == {i \in DOMAIN ops : About(ops[i], p)}
  <1>8. Says(h, p) = IF said = {} THEN BitOf(v, p)
                     ELSE ops[CHOOSE i \in said : \A j \in said : j <= i].type = "bit_set"
    BY <1>7 DEF Says
  <1>9. CASE ops = <<>>
    <2>1. Read.v = v
      BY <1>3, <1>7, <1>9 DEF Gives
    <2>2. \A i : i \notin DOMAIN ops
      BY <1>9, ListLaws, ListDomain
    <2>3. said = {}
      BY <2>2
    <2> HIDE DEF said
    <2>4. QED
      BY <1>2, <1>8, <2>1, <2>3
  <1>10. CASE ops # <<>>
    <2>1. PICK w : w = InTurn("bitset", Term("bytes", v), ops).v
      OBVIOUS
    <2>2. Read.v = w
      BY <1>3, <1>7, <1>10, <2>1 DEF Gives, Merge, BitsetMerge
    <2>3. \/ (\A i \in DOMAIN ops : ~About(ops[i], p)) /\ (BitOf(w, p) <=> BitOf(v, p))
          \/ \E j : /\ LastAbout(ops, Len(ops), p, j)
                    /\ BitOf(w, p) <=> ops[j].type = "bit_set"
      BY <1>4, <1>5, <1>6, <1>7, <2>1, BitsSaid
    <2>4. BitOf(w, p) \in BOOLEAN /\ BitOf(v, p) \in BOOLEAN
      BY DEF BitOf
    <2>5. CASE (\A i \in DOMAIN ops : ~About(ops[i], p)) /\ (BitOf(w, p) <=> BitOf(v, p))
      <3>1. said = {}
        BY <2>5
      <3> HIDE DEF said
      <3>2. QED
        BY <1>2, <1>8, <2>2, <2>4, <2>5, <3>1
    <2>6. CASE \E j : /\ LastAbout(ops, Len(ops), p, j)
                      /\ BitOf(w, p) <=> ops[j].type = "bit_set"
      <3>1. PICK j : /\ LastAbout(ops, Len(ops), p, j)
                     /\ BitOf(w, p) <=> ops[j].type = "bit_set"
        BY <2>6
      <3>2. DOMAIN ops = 1 .. Len(ops) /\ Len(ops) \in Nat
        BY <1>4, <1>7, ListDomain
      <3>3. j \in said /\ j \in Nat /\ \A i \in said : i \in Nat /\ i <= j
        BY <3>1, <3>2 DEF LastAbout
      <3>4. \A m \in said : (\A i \in said : i <= m) => m = j
        <4> HIDE DEF said
        <4>1. ASSUME NEW m \in said, \A i \in said : i <= m PROVE m = j
          <5>1. j <= m /\ m <= j /\ m \in Nat /\ j \in Nat
            BY <3>3, <4>1
          <5>2. QED
            BY <5>1
        <4>2. QED
          BY <4>1
      <3> HIDE DEF said
      <3>5. (CHOOSE i \in said : \A m \in said : m <= i) = j
        BY <3>3, <3>4
      <3>6. Says(h, p) = (ops[j].type = "bit_set")
        BY <1>8, <3>3, <3>5
      <3>7. QED
        BY <1>2, <2>2, <2>4, <3>1, <3>6
    <2>7. QED
      BY <2>3, <2>5, <2>6
  <1>11. QED
    BY <1>9, <1>10

(* bitset_merge_operator: a bit is the last thing that was written about it,
   beyond the end of the bytes too, as long as no operands were merged
   without the bytes below. *)
THEOREM BitsAsWritten == Spec => []BitsReadAsWritten
  <1>1. Spec => []BitIInv
    BY BitStarts, BitSteps, PTL DEF Spec
  <1>2. BitIInv => BitsReadAsWritten
    <2> SUFFICES ASSUME BitIInv, kind = "bitset", ~collapsed, NEW p \in 0 .. (3 * ByteBits)
                 PROVE  BitOf(Read.v, p) = LastSays(p)
      BY DEF BitsReadAsWritten
    <2>1. p \in Nat
      OBVIOUS
    <2>2. QED
      BY <2>1, BitsRead
  <1>3. QED
    BY <1>1, <1>2, PTL


-----------------------------------------------------------------------------
(* Splices *)

\* r is s with the elements of new in place of those from one position to another.
Spliced(s, from, new, to, r) ==
  /\ IsList(r) /\ Len(r) = from + Len(new) + (Len(s) - to)
  /\ \A i \in 1 .. from : r[i] = s[i]
  /\ \A i \in 1 .. Len(new) : r[from + i] = new[i]
  /\ \A i \in to + 1 .. Len(s) : r[from + Len(new) + (i - to)] = s[i]

LEMMA SameList ==
  ASSUME NEW a, IsList(a), NEW b, IsList(b), Len(a) = Len(b),
         \A i \in 1 .. Len(a) : a[i] = b[i]
  PROVE  a = b
  <1>1. Len(a) \in Nat /\ DOMAIN a = 1 .. Len(a) /\ DOMAIN b = 1 .. Len(a)
    BY ListDomain
  <1>2. PICK U : a \in Seq(U)
    BY DEF IsList
  <1>3. PICK V : b \in Seq(V)
    BY DEF IsList
  <1>4. a \in [1 .. Len(a) -> U] /\ b \in [1 .. Len(a) -> V]
    BY <1>2, <1>3, LenProperties
  <1>5. a = [i \in 1 .. Len(a) |-> a[i]] /\ b = [i \in 1 .. Len(a) |-> b[i]]
    BY <1>4
  <1>6. QED
    BY <1>5

LEMMA SpliceSpliced ==
  ASSUME NEW s, IsList(s), NEW new, IsList(new), NEW from \in 0 .. Len(s), NEW to \in 0 .. Len(s)
  PROVE  Spliced(s, from, new, to, Splice(s, from, new, to))
  <1>1. PICK n \in Nat, m \in Nat : n = Len(s) /\ m = Len(new)
    BY ListDomain
  <1>2. from \in Nat /\ to \in Nat /\ from <= n /\ to <= n
    BY <1>1
  <1>3. PICK a : /\ a = SubSeq(s, 1, from) /\ IsList(a) /\ Len(a) = from
                 /\ \A j \in 1 .. from : a[j] = s[j]
    <2>1. 1 \in Int /\ from \in Int /\ 1 <= 1 /\ 1 <= from + 1 /\ from <= Len(s)
          /\ from + 1 - 1 = from /\ \A j \in 1 .. from : 1 + j - 1 = j
      BY <1>1, <1>2
    <2>2. /\ IsList(SubSeq(s, 1, from)) /\ Len(SubSeq(s, 1, from)) = from + 1 - 1
          /\ \A j \in 1 .. from + 1 - 1 : SubSeq(s, 1, from)[j] = s[1 + j - 1]
      BY <2>1, ListPart
    <2>3. QED
      BY <2>1, <2>2
  <1>4. PICK c : /\ c = SubSeq(s, to + 1, Len(s)) /\ IsList(c) /\ Len(c) = n - to
                 /\ \A j \in 1 .. n - to : c[j] = s[to + j]
    <2>1. to + 1 \in Int /\ n \in Int /\ 1 <= to + 1 /\ to + 1 <= n + 1 /\ n <= Len(s)
          /\ n + 1 - (to + 1) = n - to /\ \A j \in 1 .. n - to : (to + 1) + j - 1 = to + j
      BY <1>1, <1>2
    <2>2. /\ IsList(SubSeq(s, to + 1, n)) /\ Len(SubSeq(s, to + 1, n)) = n + 1 - (to + 1)
          /\ \A j \in 1 .. n + 1 - (to + 1) : SubSeq(s, to + 1, n)[j] = s[(to + 1) + j - 1]
      BY <2>1, ListPart
    <2>3. PICK c : c = SubSeq(s, to + 1, n)
      OBVIOUS
    <2>4. c = SubSeq(s, to + 1, Len(s)) /\ IsList(c) /\ Len(c) = n - to
      BY <1>1, <2>1, <2>2, <2>3
    <2>5. ASSUME NEW j \in 1 .. n - to PROVE c[j] = s[to + j]
      <3>1. j \in 1 .. n + 1 - (to + 1) /\ (to + 1) + j - 1 = to + j
        BY <2>1
      <3>2. c[j] = s[(to + 1) + j - 1]
        BY <2>2, <2>3, <3>1
      <3>3. QED
        BY <3>1, <3>2
    <2>6. QED
      BY <2>4, <2>5
  <1>5. PICK ab : ab = a \o new /\ IsList(ab) /\ Joins(a, new, ab)
    BY <1>3, ListJoin
  <1>6. PICK r : r = ab \o c /\ IsList(r) /\ Joins(ab, c, r)
    BY <1>4, <1>5, ListJoin
  <1>7. Splice(s, from, new, to) = r
    BY <1>3, <1>4, <1>5, <1>6 DEF Splice
  <1>8. /\ Len(ab) = from + m /\ Len(r) = from + m + (n - to)
        /\ \A j \in 1 .. from : ab[j] = s[j]
        /\ \A j \in 1 .. m : ab[from + j] = new[j]
        /\ \A j \in 1 .. from + m : r[j] = ab[j]
    <2>1. Len(ab) = from + m
      BY <1>1, <1>3, <1>5 DEF Joins
    <2>2. Len(r) = from + m + (n - to)
      BY <1>4, <1>6, <2>1 DEF Joins
    <2>3. \A j \in 1 .. from : ab[j] = s[j]
      BY <1>3, <1>5 DEF Joins
    <2>4. \A j \in 1 .. m : ab[from + j] = new[j]
      BY <1>1, <1>3, <1>5 DEF Joins
    <2>5. \A j \in 1 .. from + m : r[j] = ab[j]
      BY <1>6, <2>1 DEF Joins
    <2>6. QED
      BY <2>1, <2>2, <2>3, <2>4, <2>5
  <1>9. \A j \in 1 .. from : r[j] = s[j]
    BY <1>1, <1>2, <1>8
  <1>10. \A j \in 1 .. m : r[from + j] = new[j]
    <2>1. \A j \in 1 .. m : from + j \in 1 .. from + m
      BY <1>1, <1>2
    <2>2. QED
      BY <1>8, <2>1
  <1>11. ASSUME NEW i \in to + 1 .. n PROVE r[from + m + (i - to)] = s[i]
    <2>1. i - to \in 1 .. n - to /\ to + (i - to) = i
      BY <1>1, <1>2
    <2>2. c[i - to] = s[to + (i - to)]
      BY <1>4, <2>1
    <2>3. r[Len(ab) + (i - to)] = c[i - to]
      BY <1>4, <1>6, <2>1 DEF Joins
    <2>4. QED
      BY <1>8, <2>1, <2>2, <2>3
  <1>12. Spliced(s, from, new, to, r)
    BY <1>1, <1>6, <1>8, <1>9, <1>10, <1>11 DEF Spliced
  <1>13. QED
    BY <1>7, <1>12

LEMMA SplicedSame ==
  ASSUME NEW s, IsList(s), NEW new, IsList(new), NEW from \in 0 .. Len(s), NEW to \in 0 .. Len(s),
         NEW r, Spliced(s, from, new, to, r), NEW q, Spliced(s, from, new, to, q)
  PROVE  r = q
  <1>1. PICK n \in Nat, m \in Nat : n = Len(s) /\ m = Len(new)
    BY ListDomain
  <1>2. from \in Nat /\ to \in Nat /\ from <= n /\ to <= n
    BY <1>1
  <1>3. PICK l : l = from + m + (n - to) /\ l \in Nat
    BY <1>2
  <1>4. IsList(r) /\ IsList(q) /\ Len(r) = l /\ Len(q) = l
    BY <1>1, <1>3 DEF Spliced
  <1>5. ASSUME NEW i \in 1 .. l PROVE r[i] = q[i]
    <2>1. CASE i <= from
      <3>1. i \in 1 .. from
        BY <1>3, <2>1
      <3>2. QED
        BY <3>1 DEF Spliced
    <2>2. CASE ~(i <= from) /\ i <= from + m
      <3>1. i - from \in 1 .. m /\ from + (i - from) = i
        BY <1>1, <1>2, <2>2
      <3>2. r[from + (i - from)] = new[i - from] /\ q[from + (i - from)] = new[i - from]
        BY <1>1, <3>1 DEF Spliced
      <3>3. QED
        BY <3>1, <3>2
    <2>3. CASE ~(i <= from + m)
      <3>1. PICK j : j = i - from - m + to
        OBVIOUS
      <3>2. j \in to + 1 .. n /\ from + m + (j - to) = i
        BY <1>1, <1>2, <1>3, <2>3, <3>1
      <3>3. r[from + m + (j - to)] = s[j] /\ q[from + m + (j - to)] = s[j]
        BY <1>1, <3>2 DEF Spliced
      <3>4. QED
        BY <3>2, <3>3
    <2>4. QED
      BY <2>1, <2>2, <2>3
  <1>6. QED
    BY <1>4, <1>5, SameList

(* A splice is known by what it has where. *)
LEMMA SpliceIs ==
  ASSUME NEW s, IsList(s), NEW new, IsList(new), NEW from \in 0 .. Len(s), NEW to \in 0 .. Len(s),
         NEW r, Spliced(s, from, new, to, r)
  PROVE  r = Splice(s, from, new, to)
  BY SpliceSpliced, SplicedSame


(* Elements put in one after the other *)

\* r is s with the first i elements of e put in at one position.
Inserted(s, at, e, i, r) ==
  /\ IsList(r) /\ Len(r) = Len(s) + i
  /\ \A j \in 1 .. at : r[j] = s[j]
  /\ \A j \in 1 .. i : r[at + j] = e[j]
  /\ \A j \in at + 1 .. Len(s) : r[i + j] = s[j]

LEMMA InsertedIs ==
  ASSUME NEW s, IsList(s), NEW e, IsList(e), NEW at \in 0 .. Len(s),
         NEW r, Inserted(s, at, e, Len(e), r)
  PROVE  r = Splice(s, at, e, at)
  <1>1. PICK n \in Nat, m \in Nat : n = Len(s) /\ m = Len(e)
    BY ListDomain
  <1>2. at \in Nat /\ at <= n
    BY <1>1
  <1>3. Len(r) = at + m + (n - at)
    BY <1>1, <1>2 DEF Inserted
  <1>4. ASSUME NEW j \in at + 1 .. n PROVE r[at + m + (j - at)] = s[j]
    <2>1. at + m + (j - at) = m + j
      BY <1>1, <1>2
    <2>2. r[m + j] = s[j]
      BY <1>1 DEF Inserted
    <2>3. QED
      BY <2>1, <2>2
  <1>5. Spliced(s, at, e, at, r)
    BY <1>1, <1>3, <1>4 DEF Spliced, Inserted
  <1>6. QED
    BY <1>5, SpliceIs

LEMMA InsertedSame ==
  ASSUME NEW s, IsList(s), NEW e, NEW at \in 0 .. Len(s), NEW i \in Nat,
         NEW r, Inserted(s, at, e, i, r), NEW q, Inserted(s, at, e, i, q)
  PROVE  r = q
  <1>1. PICK n \in Nat : n = Len(s)
    BY ListDomain
  <1>2. at \in Nat /\ at <= n
    BY <1>1
  <1>3. IsList(r) /\ IsList(q) /\ Len(r) = n + i /\ Len(q) = n + i
    BY <1>1 DEF Inserted
  <1>4. ASSUME NEW j \in 1 .. n + i PROVE r[j] = q[j]
    <2>1. CASE j <= at
      <3>1. j \in 1 .. at
        BY <2>1
      <3>2. QED
        BY <3>1 DEF Inserted
    <2>2. CASE ~(j <= at) /\ j <= at + i
      <3>1. j - at \in 1 .. i /\ at + (j - at) = j
        BY <1>2, <2>2
      <3>2. r[at + (j - at)] = e[j - at] /\ q[at + (j - at)] = e[j - at]
        BY <3>1 DEF Inserted
      <3>3. QED
        BY <3>1, <3>2
    <2>3. CASE ~(j <= at + i)
      <3>1. j - i \in at + 1 .. n /\ i + (j - i) = j
        BY <1>2, <2>3
      <3>2. r[i + (j - i)] = s[j - i] /\ q[i + (j - i)] = s[j - i]
        BY <1>1, <3>1 DEF Inserted
      <3>3. QED
        BY <3>1, <3>2
    <2>4. QED
      BY <2>1, <2>2, <2>3
  <1>5. QED
    BY <1>3, <1>4, SameList

\* q is r with x put in at position p.
Opened(r, p, x, q) ==
  /\ IsList(q) /\ Len(q) = Len(r) + 1
  /\ \A j \in 1 .. p - 1 : q[j] = r[j]
  /\ q[p] = x
  /\ \A j \in p .. Len(r) : q[j + 1] = r[j]

LEMMA InsertAtOpens ==
  ASSUME NEW r, IsList(r), NEW p \in 1 .. Len(r) + 1, NEW x
  PROVE  Opened(r, p, x, InsertAt(r, p, x))
  <1>1. PICK l \in Nat : l = Len(r)
    BY ListDomain
  <1>2. PICK f : f = p - 1 /\ f \in 0 .. Len(r) /\ f + 1 = p /\ f \in Nat
    BY <1>1
  <1>3. PICK y : y = <<x>> /\ IsList(y) /\ Len(y) = 1 /\ y[1] = x
    BY ListLaws
  <1>4. PICK q : q = Splice(r, f, y, f)
    OBVIOUS
  <1>5. Spliced(r, f, y, f, q)
    BY <1>2, <1>3, <1>4, SpliceSpliced
  <1>6. InsertAt(r, p, x) = q
    BY <1>2, <1>3, <1>4 DEF InsertAt, Splice
  <1>7. Len(q) = l + 1
    BY <1>1, <1>2, <1>3, <1>5 DEF Spliced
  <1>8. q[p] = x
    <2>1. 1 \in 1 .. Len(y)
      BY <1>3
    <2>2. q[f + 1] = y[1]
      BY <1>5, <2>1 DEF Spliced
    <2>3. QED
      BY <1>2, <1>3, <2>2
  <1>9. ASSUME NEW j \in p .. Len(r) PROVE q[j + 1] = r[j]
    <2>1. j \in f + 1 .. Len(r) /\ f + 1 + (j - f) = j + 1
      BY <1>1, <1>2
    <2>2. q[f + Len(y) + (j - f)] = r[j]
      BY <1>5, <2>1 DEF Spliced
    <2>3. QED
      BY <1>3, <2>1, <2>2
  <1>10. IsList(q) /\ \A j \in 1 .. p - 1 : q[j] = r[j]
    BY <1>2, <1>5 DEF Spliced
  <1>11. Opened(r, p, x, q)
    BY <1>1, <1>7, <1>8, <1>9, <1>10 DEF Opened
  <1>12. QED
    BY <1>6, <1>11

LEMMA InsertOne ==
  ASSUME NEW s, IsList(s), NEW e, NEW at \in 0 .. Len(s), NEW i \in Nat \ {0},
         NEW r, Inserted(s, at, e, i - 1, r)
  PROVE  Inserted(s, at, e, i, InsertAt(r, at + i, e[i]))
  <1>1. PICK n \in Nat : n = Len(s)
    BY ListDomain
  <1>2. at \in Nat /\ at <= n
    BY <1>1
  <1>3. IsList(r) /\ Len(r) = n + i - 1
    BY <1>1 DEF Inserted
  <1>4. at + i \in 1 .. Len(r) + 1
    BY <1>2, <1>3
  <1>5. PICK q, p, x : q = InsertAt(r, p, x) /\ p = at + i /\ x = e[i]
    OBVIOUS
  <1>6. /\ IsList(q) /\ Len(q) = Len(r) + 1
        /\ \A j \in 1 .. p - 1 : q[j] = r[j]
        /\ q[p] = x
        /\ \A j \in p .. Len(r) : q[j + 1] = r[j]
    <2>1. p \in 1 .. Len(r) + 1
      BY <1>4, <1>5
    <2>2. Opened(r, p, x, q)
      BY <1>3, <1>5, <2>1, InsertAtOpens
    <2>3. QED
      BY <2>2 DEF Opened
  <1>7. Len(q) = n + i
    BY <1>1, <1>3, <1>6
  <1>8. ASSUME NEW j \in 1 .. at PROVE q[j] = s[j]
    <2>1. j \in 1 .. p - 1
      BY <1>2, <1>5
    <2>2. QED
      BY <1>6, <2>1 DEF Inserted
  <1>9. ASSUME NEW j \in 1 .. i PROVE q[at + j] = e[j]
    <2>1. CASE j = i
      BY <1>5, <1>6, <2>1
    <2>2. CASE j # i
      <3>1. j \in 1 .. i - 1 /\ at + j \in 1 .. p - 1
        BY <1>2, <1>5, <2>2
      <3>2. QED
        BY <1>6, <3>1 DEF Inserted
    <2>3. QED
      BY <2>1, <2>2
  <1>10. ASSUME NEW j \in at + 1 .. n PROVE q[i + j] = s[j]
    <2>1. (i - 1) + j \in p .. Len(r) /\ ((i - 1) + j) + 1 = i + j
      BY <1>2, <1>3, <1>5
    <2>2. q[((i - 1) + j) + 1] = r[(i - 1) + j]
      BY <1>6, <2>1
    <2>3. r[(i - 1) + j] = s[j]
      BY <1>1 DEF Inserted
    <2>4. QED
      BY <2>1, <2>2, <2>3
  <1>11. Inserted(s, at, e, i, q)
    BY <1>1, <1>6, <1>7, <1>8, <1>9, <1>10 DEF Inserted
  <1>12. QED
    BY <1>5, <1>11

(* The loop of insert calls is a splice. *)
LEMMA InsertAllSplices ==
  ASSUME NEW s, IsList(s), NEW e, IsList(e), NEW at \in 0 .. Len(s)
  PROVE  InsertAll(s, at, e) = Splice(s, at, e, at)
  <1> DEFINE n == Len(e)
             IsRun(f) == f = [i \in 0 .. n |->
                                IF i = 0 THEN s ELSE InsertAt(f[i - 1], at + i, e[i])]
             Has(i) == \E r : Inserted(s, at, e, i, r)
             g == [i \in 0 .. n |-> CHOOSE r : Inserted(s, at, e, i, r)]
             I == {i \in Nat : Has(i)}
  <1>1. n \in Nat /\ Len(s) \in Nat
    BY ListDomain
  <1>2. Inserted(s, at, e, 0, s)
    <2>1. \A j \in at + 1 .. Len(s) : 0 + j = j
      BY <1>1
    <2>2. Len(s) + 0 = Len(s)
      BY <1>1
    <2>3. QED
      BY <2>1, <2>2 DEF Inserted
  <1> HIDE DEF Has
  <1>3. 0 \in I
    BY <1>2 DEF Has
  <1>4. ASSUME NEW i \in Nat, i \in I PROVE i + 1 \in I
    <2>1. PICK r : Inserted(s, at, e, i, r)
      BY <1>4 DEF Has
    <2>2. i + 1 \in Nat \ {0} /\ (i + 1) - 1 = i
      OBVIOUS
    <2>3. Inserted(s, at, e, i + 1, InsertAt(r, at + (i + 1), e[i + 1]))
      BY <2>1, <2>2, InsertOne
    <2>4. Has(i + 1)
      BY <2>3 DEF Has
    <2>5. QED
      BY <2>4
  <1> HIDE DEF I
  <1>5. Nat \subseteq I
    BY <1>3, <1>4, InductionSet
  <1>6. ASSUME NEW i \in 0 .. n PROVE Inserted(s, at, e, i, g[i])
    <2>1. Has(i)
      BY <1>1, <1>5 DEF I
    <2>2. QED
      BY <2>1 DEF Has
  <1>7. DOMAIN g = 0 .. n /\ g = [i \in 0 .. n |-> g[i]]
    OBVIOUS
  <1> HIDE DEF g
  <1>8. IsRun(g)
    <2> DEFINE E(i) == IF i = 0 THEN s ELSE InsertAt(g[i - 1], at + i, e[i])
    <2>1. ASSUME NEW i \in 0 .. n PROVE g[i] = E(i)
      <3>1. CASE i = 0
        <4>1. i \in Nat /\ Inserted(s, at, e, i, g[i]) /\ Inserted(s, at, e, i, s)
          BY <1>2, <1>6, <3>1
        <4>2. g[i] = s
          BY <4>1, InsertedSame
        <4>3. QED
          BY <3>1, <4>2
      <3>2. CASE i # 0
        <4>1. i \in Nat \ {0} /\ i - 1 \in 0 .. n
          BY <1>1, <3>2
        <4>2. Inserted(s, at, e, i - 1, g[i - 1]) /\ Inserted(s, at, e, i, g[i])
          BY <1>6, <4>1
        <4>3. Inserted(s, at, e, i, InsertAt(g[i - 1], at + i, e[i]))
          BY <4>1, <4>2, InsertOne
        <4>4. g[i] = InsertAt(g[i - 1], at + i, e[i])
          BY <4>1, <4>2, <4>3, InsertedSame
        <4>5. QED
          BY <3>2, <4>4
      <3>3. QED
        BY <3>1, <3>2
    <2> HIDE DEF E
    <2>2. g = [i \in 0 .. n |-> E(i)]
      BY <1>7, <2>1
    <2>3. QED
      BY <2>2 DEF E
  <1>9. PICK t : t = (CHOOSE f : IsRun(f)) /\ InsertAll(s, at, e) = t[n]
    BY DEF InsertAll
  <1>10. IsRun(t)
    BY <1>8, <1>9
  <1> DEFINE J == {i \in Nat : i <= n => Inserted(s, at, e, i, t[i])}
  <1>11. 0 \in J
    <2>1. 0 \in 0 .. n
      BY <1>1
    <2>2. t[0] = s
      BY <1>10, <2>1, Zenon
    <2>3. QED
      BY <1>2, <2>2
  <1>12. ASSUME NEW i \in Nat, i \in J PROVE i + 1 \in J
    <2> SUFFICES ASSUME i + 1 <= n PROVE Inserted(s, at, e, i + 1, t[i + 1])
      OBVIOUS
    <2>1. PICK k : k = i + 1 /\ k \in 0 .. n /\ k # 0 /\ k - 1 = i /\ k \in Nat \ {0}
      BY <1>1
    <2>2. Inserted(s, at, e, k - 1, t[k - 1])
      BY <1>1, <1>12, <2>1
    <2>3. t[k] = InsertAt(t[k - 1], at + k, e[k])
      BY <1>10, <2>1, Zenon
    <2>4. Inserted(s, at, e, k, InsertAt(t[k - 1], at + k, e[k]))
      BY <2>1, <2>2, InsertOne
    <2>5. QED
      BY <2>1, <2>3, <2>4
  <1> HIDE DEF J
  <1>13. Nat \subseteq J
    BY <1>11, <1>12, InductionSet
  <1>14. Inserted(s, at, e, n, t[n])
    <2>1. n \in J
      BY <1>1, <1>13
    <2>2. QED
      BY <1>1, <2>1 DEF J
  <1>15. QED
    BY <1>9, <1>14, InsertedIs


(* Positions: a negative number becomes one beyond every value that fits. *)

\* z is q times all words of a usize, and r.
Parts(z, q, r) == q \in Int /\ r \in 0 .. UsizeWords - 1 /\ z = UsizeWords * q + r

LEMMA UsizeIs ==
  ASSUME NEW z \in Int, NEW q, NEW r, Parts(z, q, r)
  PROVE  Usize(z) = r
  <1>1. PICK m \in Nat \ {0} : m = UsizeWords
    BY WidthAssumption
  <1>2. z % m \in 0 .. m - 1 /\ z \div m \in Int /\ z = m * (z \div m) + (z % m)
    BY Division
  <1>3. PICK b \in Int, c \in 0 .. m - 1 : c = z % m /\ z = m * b + c
    BY <1>2
  <1>4. PICK u \in Int, v \in 0 .. m - 1 : v = r /\ z = m * u + v
    BY <1>1 DEF Parts
  <1>5. m * b + c = m * u + v
    BY <1>3, <1>4
  <1>6. c = v
    BY <1>5, DivisionUnique
  <1>7. QED
    BY <1>1, <1>3, <1>4, <1>6 DEF Usize

\* Values of length l have room below the positions that negative numbers become.
FitsIn(l) == l \in Nat /\ l + I32Half < UsizeWords
I32 == -I32Half .. I32Half - 1

LEMMA PositionOf ==
  ASSUME NEW l, FitsIn(l), NEW p \in I32
  PROVE  /\ Usize(p) \in Nat
         /\ 0 <= p => Usize(p) = p
         /\ p < 0 => Usize(p) > l
  <1>1. PICK m \in Nat \ {0}, h \in Nat \ {0} : m = UsizeWords /\ h = I32Half
    BY WidthAssumption
  <1>2. l \in Nat /\ l + h < m /\ p \in -h .. h - 1 /\ p \in Int
    BY <1>1 DEF FitsIn, I32
  <1>3. CASE 0 <= p
    <2>1. Parts(p, 0, p) /\ p \in Nat
      BY <1>1, <1>2, <1>3 DEF Parts
    <2>2. Usize(p) = p
      BY <1>2, <2>1, UsizeIs
    <2>3. QED
      BY <1>3, <2>1, <2>2
  <1>4. CASE ~(0 <= p)
    <2>1. PICK r \in Int : r = m + p
      BY <1>2
    <2>2. Parts(p, -1, r) /\ r \in Nat /\ r > l
      BY <1>1, <1>2, <1>4, <2>1 DEF Parts
    <2>3. Usize(p) = r
      BY <1>2, <2>2, UsizeIs
    <2>4. QED
      BY <1>2, <1>4, <2>2, <2>3
  <1>5. QED
    BY <1>3, <1>4

(* The end of a range of n elements from p: the sum, or beyond the value *)
LEMMA EndOf ==
  ASSUME NEW l, FitsIn(l), NEW p \in 0 .. l, NEW n \in I32
  PROVE  /\ 0 <= p + n => Usize(p + Usize(n)) = p + n
         /\ p + n < 0 => Usize(p + Usize(n)) > l
         /\ Usize(p + Usize(n)) \in Nat
  <1>1. PICK m \in Nat \ {0}, h \in Nat \ {0} : m = UsizeWords /\ h = I32Half
    BY WidthAssumption
  <1>2. l \in Nat /\ l + h < m /\ n \in -h .. h - 1 /\ n \in Int /\ p \in Nat /\ p <= l
    BY <1>1 DEF FitsIn, I32
  <1>3. CASE 0 <= n
    <2>1. Usize(n) = n
      BY <1>3, PositionOf
    <2>2. Parts(p + n, 0, p + n) /\ p + n \in Int
      BY <1>1, <1>2, <1>3 DEF Parts
    <2>3. Usize(p + n) = p + n
      BY <2>2, UsizeIs
    <2>4. QED
      BY <1>2, <1>3, <2>1, <2>3
  <1>4. CASE n < 0
    <2>1. PICK r \in Int : r = m + n
      BY <1>2
    <2>2. Parts(n, -1, r)
      BY <1>1, <1>2, <1>4, <2>1 DEF Parts
    <2>3. Usize(n) = r
      BY <1>2, <2>2, UsizeIs
    <2>4. PICK z \in Int : z = p + r
      BY <1>2, <2>1
    <2>5. CASE 0 <= p + n
      <3>1. Parts(z, 1, p + n)
        BY <1>1, <1>2, <1>4, <2>1, <2>4, <2>5 DEF Parts
      <3>2. Usize(z) = p + n
        BY <3>1, UsizeIs
      <3>3. QED
        BY <1>2, <2>3, <2>4, <2>5, <3>2
    <2>6. CASE p + n < 0
      <3>1. Parts(z, 0, z) /\ z > l /\ z \in Nat
        BY <1>1, <1>2, <1>4, <2>1, <2>4, <2>6 DEF Parts
      <3>2. Usize(z) = z
        BY <3>1, UsizeIs
      <3>3. QED
        BY <1>2, <2>3, <2>4, <2>6, <3>1, <3>2
    <2>7. QED
      BY <1>2, <2>5, <2>6
  <1>5. QED
    BY <1>2, <1>3, <1>4

-----------------------------------------------------------------------------
(* The edits *)

LEMMA DrainSplices ==
  ASSUME NEW s, IsList(s), NEW from \in 0 .. Len(s), NEW to \in 0 .. Len(s)
  PROVE  /\ Drain(s, from, to) = Splice(s, from, <<>>, to)
         /\ IsList(Drain(s, from, to)) /\ Len(Drain(s, from, to)) = from + (Len(s) - to)
  <1>1. PICK n \in Nat : n = Len(s)
    BY ListDomain
  <1>2. IsList(<<>>) /\ Len(<<>>) = 0
    BY ListLaws
  <1>3. PICK a : a = SubSeq(s, 1, from) /\ IsList(a)
    <2>1. 1 \in Int /\ from \in Int /\ 1 <= 1 /\ 1 <= from + 1 /\ from <= Len(s)
      BY <1>1
    <2>2. QED
      BY <2>1, ListPart
  <1>4. a \o <<>> = a
    BY <1>3, ListLaws
  <1>5. Drain(s, from, to) = Splice(s, from, <<>>, to)
    BY <1>3, <1>4 DEF Drain, Splice
  <1>6. Spliced(s, from, <<>>, to, Splice(s, from, <<>>, to))
    BY <1>2, SpliceSpliced
  <1>7. QED
    BY <1>1, <1>2, <1>5, <1>6 DEF Spliced

LEMMA RemoveAtSplices ==
  ASSUME NEW s, IsList(s), NEW p \in 0 .. Len(s) - 1
  PROVE  RemoveAt(s, p + 1) = Splice(s, p, <<>>, p + 1) /\ IsList(RemoveAt(s, p + 1))
  <1>1. PICK n \in Nat : n = Len(s)
    BY ListDomain
  <1>2. p \in 0 .. Len(s) /\ p + 1 \in 0 .. Len(s) /\ (p + 1) - 1 = p
    BY <1>1
  <1>3. RemoveAt(s, p + 1) = Drain(s, p, p + 1)
    BY <1>2 DEF RemoveAt, Drain
  <1>4. QED
    BY <1>2, <1>3, DrainSplices

LEMMA SetSplices ==
  ASSUME NEW s, IsList(s), NEW p \in 0 .. Len(s) - 1, NEW new, IsList(new),
         NEW x, NEW r, r = [s EXCEPT ![p + 1] = x]
  PROVE  /\ IsList(r)
         /\ Len(new) = 1 /\ x = new[1] => r = Splice(s, p, new, p + 1)
  <1>1. PICK n \in Nat : n = Len(s) /\ DOMAIN s = 1 .. n
    BY ListDomain
  <1>2. p + 1 \in 1 .. n /\ p \in Nat
    BY <1>1
  <1>3. \A i \in 1 .. n : r[i] = IF i = p + 1 THEN x ELSE s[i]
    BY <1>1
  <1>4. r = [i \in 1 .. n |-> r[i]]
    BY <1>1
  <1>5. IsList(r) /\ Len(r) = n
    BY <1>4, FunctionList
  <1>6. ASSUME Len(new) = 1, x = new[1] PROVE r = Splice(s, p, new, p + 1)
    <2>1. p \in 0 .. Len(s) /\ p + 1 \in 0 .. Len(s) /\ n = p + 1 + (n - (p + 1))
      BY <1>1, <1>2
    <2>2. \A i \in 1 .. p : r[i] = s[i]
      BY <1>2, <1>3
    <2>3. ASSUME NEW i \in 1 .. Len(new) PROVE r[p + i] = new[i]
      BY <1>2, <1>3, <1>6
    <2>4. ASSUME NEW i \in p + 1 + 1 .. n PROVE r[p + 1 + (i - (p + 1))] = s[i]
      <3>1. p + 1 + (i - (p + 1)) = i /\ i \in 1 .. n /\ i # p + 1
        BY <1>2
      <3>2. QED
        BY <1>3, <3>1
    <2>5. Spliced(s, p, new, p + 1, r)
      BY <1>1, <1>5, <1>6, <2>1, <2>2, <2>3, <2>4 DEF Spliced
    <2>6. QED
      BY <2>1, <2>5, SpliceIs
  <1>7. QED
    BY <1>5, <1>6

LEMMA AppendSplices ==
  ASSUME NEW s, IsList(s), NEW e, IsList(e)
  PROVE  s \o e = Splice(s, Len(s), e, Len(s)) /\ IsList(s \o e)
  <1>1. PICK n \in Nat : n = Len(s)
    BY ListDomain
  <1>2. PICK c : c = s \o e /\ IsList(c) /\ Joins(s, e, c)
    BY ListJoin
  <1>3. Len(s) \in 0 .. Len(s) /\ Len(c) = Len(s) + Len(e) + (Len(s) - Len(s))
    BY <1>1, <1>2 DEF Joins
  <1>4. \A i \in Len(s) + 1 .. Len(s) : FALSE
    BY <1>1
  <1>5. Spliced(s, Len(s), e, Len(s), c)
    BY <1>2, <1>3, <1>4 DEF Spliced, Joins
  <1>6. QED
    BY <1>2, <1>3, <1>5, SpliceIs


LEMMA SpliceCases ==
  ASSUME NEW s, NEW o
  PROVE  /\ o.type \in {"list_append", "binary_append"} =>
              ~Reversed(s, o) /\ SpliceOf(s, o) = Splice(s, Len(s), o.v, Len(s))
         /\ o.type = "list_prepend" => ~Reversed(s, o) /\ SpliceOf(s, o) = Splice(s, 0, o.v, 0)
         /\ o.type = "list_set" =>
              ~Reversed(s, o) /\ SpliceOf(s, o) =
                IF Inside(s, o, o.pos + 1) THEN Splice(s, o.pos, o.v, o.pos + 1) ELSE s
         /\ o.type = "list_delete" =>
              ~Reversed(s, o) /\ SpliceOf(s, o) =
                IF Inside(s, o, o.pos + 1) THEN Splice(s, o.pos, <<>>, o.pos + 1) ELSE s
         /\ o.type \in {"list_insert", "binary_insert"} =>
              ~Reversed(s, o) /\ SpliceOf(s, o) =
                IF Inside(s, o, o.pos) THEN Splice(s, o.pos, o.v, o.pos) ELSE s
  BY DEF SpliceOf, Reversed

LEMMA SpliceRanges ==
  ASSUME NEW s, NEW o
  PROVE  /\ o.type = "list_delete_range" =>
              /\ Reversed(s, o) <=> 0 <= o.n /\ o.n < o.pos /\ o.pos < Len(s)
              /\ SpliceOf(s, o) = IF Inside(s, o, o.n) /\ o.pos < Len(s)
                                  THEN Splice(s, o.pos, <<>>, o.n) ELSE s
         /\ o.type \in {"binary_erase", "binary_replace"} =>
              (Reversed(s, o) <=> o.n < 0 /\ 0 <= o.pos + o.n /\ o.pos <= Len(s))
         /\ o.type = "binary_erase" =>
              SpliceOf(s, o) = IF Inside(s, o, o.pos + o.n)
                               THEN Splice(s, o.pos, <<>>, o.pos + o.n) ELSE s
         /\ o.type = "binary_replace" =>
              SpliceOf(s, o) = IF Inside(s, o, o.pos + o.n)
                               THEN Splice(s, o.pos, o.v, o.pos + o.n) ELSE s
  BY DEF SpliceOf, Reversed

LEMMA StepCases ==
  ASSUME NEW t, t # Aborted, NEW o
  PROVE  /\ o.type = "list_append" => ErlangStep(t, o) = ListAppend(t, o)
         /\ o.type = "list_prepend" => ErlangStep(t, o) = ListPrepend(t, o)
         /\ o.type = "list_set" => ErlangStep(t, o) = ListSet(t, o)
         /\ o.type = "list_delete" => ErlangStep(t, o) = ListDelete(t, o)
         /\ o.type = "list_delete_range" => ErlangStep(t, o) = ListDeleteRange(t, o)
         /\ o.type = "list_insert" => ErlangStep(t, o) = ListInsert(t, o)
         /\ o.type = "binary_append" => ErlangStep(t, o) = BinAppend(t, o)
         /\ o.type = "binary_erase" => ErlangStep(t, o) = BinErase(t, o)
         /\ o.type = "binary_insert" => ErlangStep(t, o) = BinInsert(t, o)
         /\ o.type = "binary_replace" => ErlangStep(t, o) = BinReplace(t, o)
  BY DEF ErlangStep

\* What an edit of a value s does: it is the splice, or aborts.
Edited(type, s, o, result) ==
  result = IF Reversed(s, o) THEN Aborted ELSE Term(type, SpliceOf(s, o))

\* An operand as a caller may write it
EditOK(o) ==
  /\ IsList(o.v) /\ o.pos \in I32 /\ o.n \in I32
  /\ o.type = "list_set" => Len(o.v) = 1

LEMMA Within ==
  ASSUME NEW s, IsList(s), FitsIn(Len(s)), NEW o, EditOK(o)
  PROVE  /\ Usize(o.pos) < Len(s) <=> 0 <= o.pos /\ o.pos < Len(s)
         /\ Usize(o.pos) <= Len(s) <=> 0 <= o.pos /\ o.pos <= Len(s)
         /\ 0 <= o.pos => Usize(o.pos) = o.pos
         /\ o.pos \in Int /\ o.n \in Int /\ Len(s) \in Nat
  <1>1. Len(s) \in Nat
    BY ListDomain
  <1>2. I32Half \in Nat
    BY WidthAssumption
  <1>3. o.pos \in Int /\ o.n \in Int
    BY <1>2 DEF EditOK, I32
  <1>4. /\ Usize(o.pos) \in Nat
        /\ 0 <= o.pos => Usize(o.pos) = o.pos
        /\ o.pos < 0 => Usize(o.pos) > Len(s)
    BY PositionOf DEF EditOK
  <1>5. QED
    BY <1>1, <1>3, <1>4

LEMMA EditsAtEnds ==
  ASSUME NEW t, NEW s, IsList(s), NEW o, EditOK(o)
  PROVE  /\ o.type = "list_append" /\ s = ListOf(t) => Edited("list", s, o, ListAppend(t, o))
         /\ o.type = "list_prepend" /\ s = ListOf(t) => Edited("list", s, o, ListPrepend(t, o))
         /\ o.type = "binary_append" /\ s = BinOf(t) => Edited("bin", s, o, BinAppend(t, o))
  <1>1. IsList(o.v) /\ Len(s) \in Nat
    BY ListDomain DEF EditOK
  <1>2. s \o o.v = Splice(s, Len(s), o.v, Len(s))
    BY <1>1, AppendSplices
  <1>3. InsertAll(s, 0, o.v) = Splice(s, 0, o.v, 0)
    <2>1. 0 \in 0 .. Len(s)
      BY <1>1
    <2>2. QED
      BY <1>1, <2>1, InsertAllSplices
  <1>4. QED
    BY <1>2, <1>3, SpliceCases DEF Edited, ListAppend, ListPrepend, BinAppend

LEMMA EditsAtPosition ==
  ASSUME NEW t, NEW s, IsList(s), FitsIn(Len(s)), NEW o, EditOK(o)
  PROVE  /\ o.type = "list_set" /\ s = ListOf(t) => Edited("list", s, o, ListSet(t, o))
         /\ o.type = "list_delete" /\ s = ListOf(t) => Edited("list", s, o, ListDelete(t, o))
         /\ o.type = "list_insert" /\ s = ListOf(t) => Edited("list", s, o, ListInsert(t, o))
         /\ o.type = "binary_insert" /\ s = BinOf(t) => Edited("bin", s, o, BinInsert(t, o))
  <1>1. /\ IsList(o.v) /\ Len(s) \in Nat /\ o.pos \in Int
        /\ Usize(o.pos) < Len(s) <=> 0 <= o.pos /\ o.pos < Len(s)
        /\ Usize(o.pos) <= Len(s) <=> 0 <= o.pos /\ o.pos <= Len(s)
        /\ 0 <= o.pos => Usize(o.pos) = o.pos
    BY Within DEF EditOK
  <1>2. /\ Inside(s, o, o.pos + 1) <=> Usize(o.pos) < Len(s)
        /\ Inside(s, o, o.pos) <=> Usize(o.pos) <= Len(s)
    BY <1>1 DEF Inside
  <1>3. ASSUME Usize(o.pos) < Len(s)
        PROVE  /\ RemoveAt(s, Usize(o.pos) + 1) = Splice(s, o.pos, <<>>, o.pos + 1)
               /\ o.type = "list_set" =>
                    [s EXCEPT ![Usize(o.pos) + 1] = o.v[1]] = Splice(s, o.pos, o.v, o.pos + 1)
    <2>1. Usize(o.pos) = o.pos /\ o.pos \in 0 .. Len(s) - 1
      BY <1>1, <1>3
    <2>2. RemoveAt(s, o.pos + 1) = Splice(s, o.pos, <<>>, o.pos + 1)
      BY <2>1, RemoveAtSplices
    <2>3. ASSUME o.type = "list_set"
          PROVE  [s EXCEPT ![o.pos + 1] = o.v[1]] = Splice(s, o.pos, o.v, o.pos + 1)
      <3>1. PICK x, new, p : x = o.v[1] /\ new = o.v /\ p = o.pos
        OBVIOUS
      <3>2. IsList(new) /\ Len(new) = 1 /\ x = new[1] /\ p \in 0 .. Len(s) - 1
        BY <1>1, <2>1, <2>3, <3>1 DEF EditOK
      <3>3. PICK r : r = [s EXCEPT ![p + 1] = x]
        OBVIOUS
      <3>4. r = Splice(s, p, new, p + 1)
        BY <3>2, <3>3, SetSplices
      <3>5. QED
        BY <3>1, <3>3, <3>4
    <2>4. QED
      BY <2>1, <2>2, <2>3
  <1>4. ASSUME Usize(o.pos) <= Len(s)
        PROVE  InsertAll(s, Usize(o.pos), o.v) = Splice(s, o.pos, o.v, o.pos)
    <2>1. Usize(o.pos) = o.pos /\ o.pos \in 0 .. Len(s)
      BY <1>1, <1>4
    <2>2. QED
      BY <1>1, <2>1, InsertAllSplices
  <1>5. o.type = "list_set" /\ s = ListOf(t) => Edited("list", s, o, ListSet(t, o))
    BY <1>2, <1>3, SpliceCases DEF Edited, ListSet
  <1>6. o.type = "list_delete" /\ s = ListOf(t) => Edited("list", s, o, ListDelete(t, o))
    BY <1>2, <1>3, SpliceCases DEF Edited, ListDelete
  <1>7. o.type = "list_insert" /\ s = ListOf(t) => Edited("list", s, o, ListInsert(t, o))
    BY <1>2, <1>4, SpliceCases DEF Edited, ListInsert
  <1>8. o.type = "binary_insert" /\ s = BinOf(t) => Edited("bin", s, o, BinInsert(t, o))
    BY <1>2, <1>4, SpliceCases DEF Edited, BinInsert
  <1>9. QED
    BY <1>5, <1>6, <1>7, <1>8

LEMMA EditsOfRange ==
  ASSUME NEW t, NEW s, IsList(s), FitsIn(Len(s)), NEW o, EditOK(o),
         o.type = "list_delete_range", s = ListOf(t)
  PROVE  Edited("list", s, o, ListDeleteRange(t, o))
  <1>1. PICK p \in Int, n \in Int, l \in Nat : p = o.pos /\ n = o.n /\ l = Len(s)
    BY Within
  <1>2. PICK start, end : start = Usize(p) /\ end = Usize(n)
    OBVIOUS
  <1>3. /\ start \in Nat /\ end \in Nat
        /\ 0 <= p => start = p
        /\ p < 0 => start > l
        /\ 0 <= n => end = n
        /\ n < 0 => end > l
    BY <1>1, <1>2, PositionOf DEF EditOK
  <1>4. ListDeleteRange(t, o) = IF ~(start < l /\ end <= l) THEN Term("list", s)
                                ELSE IF start > end THEN Aborted
                                ELSE Term("list", Drain(s, start, end))
    BY <1>1, <1>2 DEF ListDeleteRange
  <1>5. Reversed(s, o) <=> start < l /\ end <= l /\ start > end
    BY <1>1, <1>3, SpliceRanges
  <1>6. Inside(s, o, o.n) /\ o.pos < Len(s) <=> start < l /\ end <= l /\ ~(start > end)
    BY <1>1, <1>3 DEF Inside
  <1>7. ASSUME start < l, end <= l, ~(start > end)
        PROVE  Drain(s, start, end) = Splice(s, o.pos, <<>>, o.n)
    <2>1. start = o.pos /\ end = o.n /\ start \in 0 .. Len(s) /\ end \in 0 .. Len(s)
      BY <1>1, <1>3, <1>7
    <2>2. QED
      BY <2>1, DrainSplices
  <1>8. SpliceOf(s, o) = IF start < l /\ end <= l /\ ~(start > end)
                         THEN Drain(s, start, end) ELSE s
    BY <1>6, <1>7, SpliceRanges
  <1>9. QED
    BY <1>3, <1>4, <1>5, <1>8 DEF Edited

LEMMA EditsOfCount ==
  ASSUME NEW t, NEW s, IsList(s), FitsIn(Len(s)), NEW o, EditOK(o), s = BinOf(t)
  PROVE  /\ o.type = "binary_erase" => Edited("bin", s, o, BinErase(t, o))
         /\ o.type = "binary_replace" => Edited("bin", s, o, BinReplace(t, o))
  <1>1. PICK p \in Int, n \in Int, l \in Nat : p = o.pos /\ n = o.n /\ l = Len(s)
    BY Within
  <1>2. PICK start, end : start = Usize(p) /\ end = Usize(start + Usize(n))
    OBVIOUS
  <1>3. /\ start \in Nat
        /\ 0 <= p => start = p
        /\ p < 0 => start > l
    BY <1>1, <1>2, PositionOf DEF EditOK
  <1>4. ASSUME 0 <= p, p <= l
        PROVE  /\ start = p /\ end \in Nat
               /\ 0 <= p + n => end = p + n
               /\ p + n < 0 => end > l
    <2>1. p \in 0 .. l /\ start = p
      BY <1>1, <1>3, <1>4
    <2>2. n \in I32 /\ FitsIn(l)
      BY <1>1 DEF EditOK
    <2>3. QED
      BY <1>2, <2>1, <2>2, EndOf
  <1> DEFINE Good == start <= l /\ end <= l
  <1>5. Good <=> 0 <= p /\ p <= l /\ 0 <= p + n /\ p + n <= l
    BY <1>1, <1>3, <1>4
  <1>6. Good => start = p /\ end = p + n /\ p \in 0 .. l /\ p + n \in 0 .. l
    BY <1>1, <1>4, <1>5
  <1>7. o.type \in {"binary_erase", "binary_replace"} =>
          (Reversed(s, o) <=> Good /\ start > end)
    <2>1. o.type \in {"binary_erase", "binary_replace"} =>
            (Reversed(s, o) <=> n < 0 /\ 0 <= p + n /\ p <= l)
      BY <1>1, SpliceRanges
    <2>2. n < 0 /\ 0 <= p + n /\ p <= l <=> Good /\ start > end
      BY <1>1, <1>5, <1>6
    <2>3. QED
      BY <2>1, <2>2
  <1>8. Inside(s, o, o.pos + o.n) <=> Good /\ ~(start > end)
    BY <1>1, <1>5, <1>6 DEF Inside
  <1>9. ASSUME Good, ~(start > end)
        PROVE  /\ Drain(s, start, end) = Splice(s, o.pos, <<>>, o.pos + o.n)
               /\ InsertAll(Drain(s, start, end), start, o.v)
                    = Splice(s, o.pos, o.v, o.pos + o.n)
    <2>1. /\ start = o.pos /\ end = o.pos + o.n
          /\ start \in 0 .. Len(s) /\ end \in 0 .. Len(s) /\ start <= end
      BY <1>1, <1>6, <1>9
    <2>2. PICK d : /\ d = Drain(s, start, end) /\ d = Splice(s, start, <<>>, end)
                   /\ IsList(d) /\ Len(d) = start + (Len(s) - end)
      BY <2>1, DrainSplices
    <2>3. start \in 0 .. Len(d) /\ IsList(o.v)
      <3>1. PICK a, b, e, m : a = start /\ b = end /\ e = Len(s) /\ m = Len(d)
        OBVIOUS
      <3>2. a \in 0 .. e /\ b \in 0 .. e /\ e \in Nat /\ m = a + (e - b)
        BY <1>1, <2>1, <2>2, <3>1
      <3>3. a \in 0 .. m
        BY <3>2
      <3>4. IsList(o.v)
        BY <1>3 DEF EditOK
      <3>5. QED
        BY <3>1, <3>3, <3>4
    <2>4. PICK r : r = InsertAll(d, start, o.v) /\ r = Splice(d, start, o.v, start)
      BY <2>2, <2>3, InsertAllSplices
    <2>5. Spliced(d, start, o.v, start, r)
      BY <2>2, <2>3, <2>4, SpliceSpliced
    <2>6. Spliced(s, start, <<>>, end, d) /\ Len(<<>>) = 0
      BY <2>1, <2>2, ListLaws, SpliceSpliced
    <2>7. Spliced(s, start, o.v, end, r)
      <3>1. PICK m \in Nat : m = Len(o.v)
        BY <2>3, ListDomain
      <3>2. start \in Nat /\ end \in Nat /\ start <= l /\ end <= l
            /\ Len(d) = start + (l - end)
        BY <1>1, <2>1, <2>2
      <3>3. IsList(r) /\ Len(r) = start + m + (l - end)
        <4>1. Len(r) = start + m + (Len(d) - start)
          BY <2>5, <3>1 DEF Spliced
        <4>2. QED
          BY <2>5, <3>1, <3>2, <4>1 DEF Spliced
      <3>4. ASSUME NEW i \in 1 .. start PROVE r[i] = s[i]
        BY <2>5, <2>6 DEF Spliced
      <3>5. \A i \in 1 .. Len(o.v) : r[start + i] = o.v[i]
        BY <2>5 DEF Spliced
      <3>6. ASSUME NEW i \in end + 1 .. l PROVE r[start + m + (i - end)] = s[i]
        <4>1. PICK j, k : j = start + (i - end) /\ k = start + (l - end)
          OBVIOUS
        <4>2. /\ j \in start + 1 .. k /\ Len(d) = k
              /\ start + m + (j - start) = start + m + (i - end)
              /\ start + 0 + (i - end) = j
          <5>1. i \in Int /\ end + 1 <= i /\ i <= l
            BY <1>1, <3>2
          <5>2. j \in Int /\ k \in Int /\ start + 1 <= j /\ j <= k
            BY <1>1, <3>2, <4>1, <5>1
          <5>3. start + m + (j - start) = start + m + (i - end) /\ start + 0 + (i - end) = j
            <6>1. PICK x \in Int, y \in Int, z \in Int : x = start /\ y = end /\ z = i
              BY <3>2, <5>1
            <6>2. PICK u \in Nat : u = m
              BY <3>1
            <6>3. /\ x + u + ((x + (z - y)) - x) = x + u + (z - y)
                  /\ x + 0 + (z - y) = x + (z - y)
              OBVIOUS
            <6>4. QED
              BY <4>1, <6>1, <6>2, <6>3
          <5>4. QED
            BY <3>2, <4>1, <5>2, <5>3
        <4>3. r[start + m + (j - start)] = d[j]
          BY <2>5, <3>1, <4>2 DEF Spliced
        <4>4. d[start + 0 + (i - end)] = s[i]
          BY <1>1, <2>6 DEF Spliced
        <4>5. QED
          BY <4>2, <4>3, <4>4
      <3>7. QED
        BY <1>1, <3>1, <3>3, <3>4, <3>5, <3>6 DEF Spliced
    <2>8. r = Splice(s, start, o.v, end)
      BY <2>1, <2>3, <2>7, SpliceIs
    <2>9. QED
      BY <2>1, <2>2, <2>4, <2>8
  <1>10. /\ BinErase(t, o) = IF ~Good THEN Term("bin", s)
                             ELSE IF start > end THEN Aborted
                             ELSE Term("bin", Drain(s, start, end))
         /\ BinReplace(t, o) = IF ~Good THEN Term("bin", s)
                               ELSE IF start > end THEN Aborted
                               ELSE Term("bin", InsertAll(Drain(s, start, end), start, o.v))
    BY <1>1, <1>2 DEF BinErase, BinReplace
  <1> HIDE DEF Good
  <1>11. /\ o.type = "binary_erase" =>
              SpliceOf(s, o) = IF Good /\ ~(start > end) THEN Drain(s, start, end) ELSE s
         /\ o.type = "binary_replace" =>
              SpliceOf(s, o) = IF Good /\ ~(start > end)
                               THEN InsertAll(Drain(s, start, end), start, o.v) ELSE s
    BY <1>8, <1>9, SpliceRanges
  <1>12. QED
    BY <1>7, <1>10, <1>11 DEF Edited


-----------------------------------------------------------------------------
(* Whatever is stored is a list, with positions that are numbers. *)

Formed(t) ==
  /\ IsList(t.v)
  /\ t.type \notin {"bit_set", "bit_clear"} => t.pos \in Int /\ t.n \in Int

LEMMA TermFormed ==
  /\ \A type \in {"none", "text", "int", "list", "bin", "abort"} :
       \A v : IsList(v) => Formed(Term(type, v))
  /\ Formed(None) /\ Formed(Aborted)
  <1>1. \A type \in {"none", "text", "int", "list", "bin", "abort"} :
          \A v : IsList(v) => Formed(Term(type, v))
    BY DEF Term, Formed
  <1>2. IsList(<<>>)
    BY ListLaws
  <1>3. QED
    BY <1>1, <1>2 DEF None, Aborted

\* What is kept of the first i elements
KeptOf(t, s, e) ==
  /\ t[0] = <<>>
  /\ \A i \in 1 .. Len(s) :
       t[i] = IF Contains(e, s[i]) THEN t[i - 1] ELSE Append(t[i - 1], s[i])

LEMMA Keeping ==
  ASSUME NEW s, NEW e, Len(s) \in Nat
  PROVE  \E t : KeptOf(t, s, e) /\ Retained(s, e) = t[Len(s)]
  <1> DEFINE n == Len(s)
             Keep(k, i) == IF Contains(e, s[i]) THEN k ELSE Append(k, s[i])
             IsRun(f) == f = [i \in 0 .. n |->
                                IF i = 0 THEN <<>>
                                ELSE IF Contains(e, s[i]) THEN f[i - 1]
                                     ELSE Append(f[i - 1], s[i])]
             Upto(m, g) == /\ g[0] = <<>> /\ DOMAIN g = 0 .. m
                           /\ g = [i \in 0 .. m |-> g[i]]
                           /\ \A i \in 1 .. m : g[i] = Keep(g[i - 1], i)
             Has(m) == \E g : Upto(m, g)
             Defined == {m \in Nat : Has(m)}
  <1> HIDE DEF Has, Keep
  <1>1. 0 \in Defined
    <2>1. Upto(0, [i \in 0 .. 0 |-> <<>>])
      OBVIOUS
    <2>2. QED
      BY <2>1 DEF Has
  <1>2. ASSUME NEW m \in Nat, m \in Defined PROVE m + 1 \in Defined
    <2>1. PICK g : Upto(m, g)
      BY <1>2 DEF Has
    <2> DEFINE h == [i \in 0 .. m + 1 |-> IF i = m + 1 THEN Keep(g[m], m + 1) ELSE g[i]]
    <2>2. h[0] = <<>> /\ DOMAIN h = 0 .. m + 1 /\ h = [i \in 0 .. m + 1 |-> h[i]]
      BY <2>1
    <2>3. ASSUME NEW i \in 1 .. m + 1 PROVE h[i] = Keep(h[i - 1], i)
      <3>1. CASE i = m + 1
        <4>1. h[i] = Keep(g[m], m + 1) /\ h[i - 1] = g[m]
          BY <3>1
        <4>2. QED
          BY <3>1, <4>1
      <3>2. CASE i # m + 1
        <4>1. i \in 1 .. m /\ h[i] = g[i] /\ h[i - 1] = g[i - 1]
          BY <3>2
        <4>2. QED
          BY <2>1, <4>1
      <3>3. QED
        BY <3>1, <3>2
    <2> HIDE DEF h
    <2>4. Upto(m + 1, h)
      BY <2>2, <2>3
    <2>5. Has(m + 1)
      BY <2>4 DEF Has
    <2>6. QED
      BY <2>5
  <1>3. n \in Defined
    <2> HIDE DEF Defined
    <2>1. Nat \subseteq Defined
      BY <1>1, <1>2, InductionSet
    <2>2. QED
      BY <2>1
  <1>4. PICK g : Upto(n, g)
    BY <1>3 DEF Has
  <1>5. IsRun(g)
    <2> DEFINE E(i) == IF i = 0 THEN <<>>
                       ELSE IF Contains(e, s[i]) THEN g[i - 1] ELSE Append(g[i - 1], s[i])
    <2>1. ASSUME NEW i \in 0 .. n PROVE g[i] = E(i)
      <3>1. CASE i = 0
        BY <1>4, <3>1
      <3>2. CASE i # 0
        <4>1. i \in 1 .. n
          BY <3>2
        <4>2. QED
          BY <1>4, <3>2, <4>1 DEF Keep
      <3>3. QED
        BY <3>1, <3>2
    <2> HIDE DEF E
    <2>2. g = [i \in 0 .. n |-> E(i)]
      BY <1>4, <2>1
    <2>3. QED
      BY <2>2 DEF E
  <1>6. PICK t : t = (CHOOSE f : IsRun(f)) /\ Retained(s, e) = t[n]
    BY DEF Retained
  <1>7. IsRun(t)
    BY <1>5, <1>6
  <1>8. t[0] = <<>>
    <2>1. 0 \in 0 .. n
      OBVIOUS
    <2>2. QED
      BY <1>7, <2>1, Zenon
  <1>9. ASSUME NEW i \in 1 .. n
        PROVE  t[i] = IF Contains(e, s[i]) THEN t[i - 1] ELSE Append(t[i - 1], s[i])
    <2>1. i \in 0 .. n /\ i # 0
      OBVIOUS
    <2>2. QED
      BY <1>7, <2>1, Zenon
  <1>10. KeptOf(t, s, e)
    BY <1>8, <1>9 DEF KeptOf
  <1>11. QED
    BY <1>6, <1>10

LEMMA RetainedList ==
  ASSUME NEW s, IsList(s), NEW e
  PROVE  IsList(Retained(s, e))
  <1>1. PICK n \in Nat : n = Len(s)
    BY ListDomain
  <1>2. PICK t : KeptOf(t, s, e) /\ Retained(s, e) = t[n]
    BY <1>1, Keeping
  <1> DEFINE I == {i \in Nat : i <= n => IsList(t[i])}
  <1>3. 0 \in I
    BY <1>2, ListLaws DEF KeptOf
  <1>4. ASSUME NEW i \in Nat, i \in I PROVE i + 1 \in I
    <2> SUFFICES ASSUME i + 1 <= n PROVE IsList(t[i + 1])
      OBVIOUS
    <2>1. i + 1 \in 1 .. n /\ (i + 1) - 1 = i /\ IsList(t[i])
      BY <1>4
    <2>2. t[i + 1] = t[i] \/ t[i + 1] = Append(t[i], s[i + 1])
      BY <1>1, <1>2, <2>1 DEF KeptOf
    <2>3. QED
      BY <2>1, <2>2, ListEnd
  <1> HIDE DEF I
  <1>5. Nat \subseteq I
    BY <1>3, <1>4, InductionSet
  <1>6. IsList(t[n])
    <2>1. n \in I
      BY <1>5
    <2>2. QED
      BY <2>1 DEF I
  <1>7. QED
    BY <1>2, <1>6


LEMMA PartsListed ==
  ASSUME NEW t, IsList(t.v)
  PROVE  /\ IsList(ListOf(t)) /\ IsList(BinOf(t))
         /\ Len(ListOf(t)) \in {0, Len(t.v)} /\ Len(BinOf(t)) \in {0, Len(t.v)}
  BY ListLaws DEF ListOf, BinOf

LEMMA UsizeNat ==
  ASSUME NEW z \in Int
  PROVE  Usize(z) \in Nat
  <1>1. PICK m \in Nat \ {0} : m = UsizeWords
    BY WidthAssumption
  <1>2. z % m \in 0 .. m - 1
    BY Division
  <1>3. QED
    BY <1>1, <1>2 DEF Usize

LEMMA InsertAllList ==
  ASSUME NEW s, IsList(s), NEW e, IsList(e), NEW at \in Nat, at <= Len(s)
  PROVE  IsList(InsertAll(s, at, e))
  <1>1. at \in 0 .. Len(s)
    BY ListDomain
  <1>2. InsertAll(s, at, e) = Splice(s, at, e, at) /\ Spliced(s, at, e, at, Splice(s, at, e, at))
    BY <1>1, InsertAllSplices, SpliceSpliced
  <1>3. QED
    BY <1>2 DEF Spliced

LEMMA DrainList ==
  ASSUME NEW s, IsList(s), NEW from \in Nat, NEW to \in Nat, from <= to, to <= Len(s)
  PROVE  IsList(Drain(s, from, to)) /\ from <= Len(Drain(s, from, to))
  <1>1. PICK n \in Nat : n = Len(s)
    BY ListDomain
  <1>2. from \in 0 .. Len(s) /\ to \in 0 .. Len(s)
    BY <1>1
  <1>3. IsList(Drain(s, from, to)) /\ Len(Drain(s, from, to)) = from + (n - to)
    BY <1>1, <1>2, DrainSplices
  <1>4. QED
    BY <1>1, <1>3

LEMMA ListEditsFormed ==
  ASSUME NEW t, Formed(t), NEW o, IsList(o.v), o.pos \in Int, o.n \in Int
  PROVE  /\ Formed(ListAppend(t, o)) /\ Formed(ListPrepend(t, o)) /\ Formed(ListSubtract(t, o))
         /\ Formed(ListSet(t, o)) /\ Formed(ListDelete(t, o))
         /\ Formed(ListDeleteRange(t, o)) /\ Formed(ListInsert(t, o))
  <1>1. PICK s : s = ListOf(t) /\ IsList(s)
    BY PartsListed DEF Formed
  <1>2. PICK n \in Nat : n = Len(s)
    BY <1>1, ListDomain
  <1>3. PICK at, end : at = Usize(o.pos) /\ end = Usize(o.n) /\ at \in Nat /\ end \in Nat
    BY UsizeNat
  <1>4. \A v : IsList(v) => Formed(Term("list", v))
    BY TermFormed
  <1>5. Formed(ListAppend(t, o))
    BY <1>1, <1>4, AppendSplices DEF ListAppend
  <1>6. Formed(ListPrepend(t, o))
    <2>1. IsList(InsertAll(s, 0, o.v))
      BY <1>1, <1>2, InsertAllList
    <2>2. QED
      BY <1>1, <1>4, <2>1 DEF ListPrepend
  <1>7. Formed(ListSubtract(t, o))
    BY <1>1, <1>4, RetainedList DEF ListSubtract
  <1>8. Formed(ListSet(t, o))
    <2>1. ASSUME at < n PROVE IsList([s EXCEPT ![at + 1] = o.v[1]])
      <3>1. PICK r : r = [s EXCEPT ![at + 1] = o.v[1]]
        OBVIOUS
      <3>2. DOMAIN s = 1 .. n
        BY <1>1, <1>2, ListDomain
      <3>3. r = [i \in 1 .. n |-> r[i]]
        BY <3>1, <3>2
      <3>4. QED
        BY <3>1, <3>3, FunctionList
    <2>2. ListSet(t, o) = Term("list", IF at < n THEN [s EXCEPT ![at + 1] = o.v[1]] ELSE s)
      BY <1>1, <1>2, <1>3 DEF ListSet
    <2>3. QED
      BY <1>1, <1>4, <2>1, <2>2
  <1>9. Formed(ListDelete(t, o))
    <2>1. ASSUME at < n PROVE IsList(RemoveAt(s, at + 1))
      <3>1. at \in 0 .. Len(s) - 1
        BY <1>2, <1>3, <2>1
      <3>2. QED
        BY <1>1, <3>1, RemoveAtSplices
    <2>2. ListDelete(t, o) = Term("list", IF at < n THEN RemoveAt(s, at + 1) ELSE s)
      BY <1>1, <1>2, <1>3 DEF ListDelete
    <2>3. QED
      BY <1>1, <1>4, <2>1, <2>2
  <1>10. Formed(ListDeleteRange(t, o))
    <2>1. ASSUME end <= n, ~(at > end) PROVE IsList(Drain(s, at, end))
      BY <1>1, <1>2, <1>3, <2>1, DrainList
    <2>2. ListDeleteRange(t, o) = IF ~(at < n /\ end <= n) THEN Term("list", s)
                                  ELSE IF at > end THEN Aborted
                                  ELSE Term("list", Drain(s, at, end))
      BY <1>1, <1>2, <1>3 DEF ListDeleteRange
    <2>3. QED
      BY <1>1, <1>4, <2>1, <2>2, TermFormed
  <1>11. Formed(ListInsert(t, o))
    <2>1. ASSUME at <= n PROVE IsList(InsertAll(s, at, o.v))
      BY <1>1, <1>2, <1>3, <2>1, InsertAllList
    <2>2. ListInsert(t, o) = Term("list", IF at <= n THEN InsertAll(s, at, o.v) ELSE s)
      BY <1>1, <1>2, <1>3 DEF ListInsert
    <2>3. QED
      BY <1>1, <1>4, <2>1, <2>2
  <1>12. QED
    BY <1>5, <1>6, <1>7, <1>8, <1>9, <1>10, <1>11

LEMMA BinEditsFormed ==
  ASSUME NEW t, Formed(t), NEW o, IsList(o.v), o.pos \in Int, o.n \in Int
  PROVE  /\ Formed(BinAppend(t, o)) /\ Formed(BinErase(t, o))
         /\ Formed(BinInsert(t, o)) /\ Formed(BinReplace(t, o))
  <1>1. PICK s : s = BinOf(t) /\ IsList(s)
    BY PartsListed DEF Formed
  <1>2. PICK n \in Nat : n = Len(s)
    BY <1>1, ListDomain
  <1>3. PICK at, end : /\ at = Usize(o.pos) /\ end = Usize(at + Usize(o.n))
                       /\ at \in Nat /\ end \in Nat
    <2>1. Usize(o.pos) \in Nat /\ Usize(o.n) \in Nat
      BY UsizeNat
    <2>2. Usize(o.pos) + Usize(o.n) \in Int
      BY <2>1
    <2>3. Usize(Usize(o.pos) + Usize(o.n)) \in Nat
      BY <2>2, UsizeNat
    <2>4. QED
      BY <2>1, <2>3
  <1>4. \A v : IsList(v) => Formed(Term("bin", v))
    BY TermFormed
  <1>5. Formed(BinAppend(t, o))
    BY <1>1, <1>4, AppendSplices DEF BinAppend
  <1>6. Formed(BinInsert(t, o))
    <2>1. ASSUME at <= n PROVE IsList(InsertAll(s, at, o.v))
      BY <1>1, <1>2, <1>3, <2>1, InsertAllList
    <2>2. BinInsert(t, o) = Term("bin", IF at <= n THEN InsertAll(s, at, o.v) ELSE s)
      BY <1>1, <1>2, <1>3 DEF BinInsert
    <2>3. QED
      BY <1>1, <1>4, <2>1, <2>2
  <1>7. ASSUME end <= n, ~(at > end)
        PROVE  IsList(Drain(s, at, end)) /\ IsList(InsertAll(Drain(s, at, end), at, o.v))
    <2>1. PICK d : d = Drain(s, at, end) /\ IsList(d) /\ at <= Len(d)
      BY <1>1, <1>2, <1>3, <1>7, DrainList
    <2>2. QED
      BY <1>3, <2>1, InsertAllList
  <1>8. Formed(BinErase(t, o))
    <2>1. BinErase(t, o) = IF ~(at <= n /\ end <= n) THEN Term("bin", s)
                           ELSE IF at > end THEN Aborted
                           ELSE Term("bin", Drain(s, at, end))
      BY <1>1, <1>2, <1>3 DEF BinErase
    <2>2. QED
      BY <1>1, <1>4, <1>7, <2>1, TermFormed
  <1>9. Formed(BinReplace(t, o))
    <2>1. BinReplace(t, o) = IF ~(at <= n /\ end <= n) THEN Term("bin", s)
                             ELSE IF at > end THEN Aborted
                             ELSE Term("bin", InsertAll(Drain(s, at, end), at, o.v))
      BY <1>1, <1>2, <1>3 DEF BinReplace
    <2>2. QED
      BY <1>1, <1>4, <1>7, <2>1, TermFormed
  <1>10. QED
    BY <1>5, <1>6, <1>8, <1>9

LEMMA EditsFormed ==
  ASSUME NEW t, Formed(t), NEW o, Formed(o)
  PROVE  Formed(ErlangStep(t, o))
  <1>1. CASE o.type \in {"bit_set", "bit_clear"}
    <2>1. ErlangStep(t, o) = t \/ ErlangStep(t, o) = Aborted
      BY <1>1 DEF ErlangStep
    <2>2. QED
      BY <2>1, TermFormed
  <1>2. CASE o.type \notin {"bit_set", "bit_clear"}
    <2>1. IsList(o.v) /\ o.pos \in Int /\ o.n \in Int
      BY <1>2 DEF Formed
    <2>2. /\ Formed(ListAppend(t, o)) /\ Formed(ListPrepend(t, o)) /\ Formed(ListSubtract(t, o))
          /\ Formed(ListSet(t, o)) /\ Formed(ListDelete(t, o))
          /\ Formed(ListDeleteRange(t, o)) /\ Formed(ListInsert(t, o))
      BY <2>1, ListEditsFormed
    <2>3. /\ Formed(BinAppend(t, o)) /\ Formed(BinErase(t, o))
          /\ Formed(BinInsert(t, o)) /\ Formed(BinReplace(t, o))
      BY <2>1, BinEditsFormed
    <2>4. Formed(IntAdd(t, o))
      <3>1. PICK x : IntAdd(t, o) = Term("int", <<x>>)
        BY DEF IntAdd
      <3>2. IsList(<<x>>)
        BY ListLaws
      <3>3. QED
        BY <3>1, <3>2, TermFormed
    <2>5. Formed(Aborted)
      BY TermFormed
    <2>6. QED
      BY <2>2, <2>3, <2>4, <2>5 DEF ErlangStep
  <1>3. QED
    BY <1>1, <1>2

LEMMA TurnsFormed ==
  ASSUME NEW x, Formed(x), NEW ops, IsList(ops), \A i \in DOMAIN ops : Formed(ops[i])
  PROVE  Formed(InTurn("erlang", x, ops))
  <1> DEFINE k == "erlang"
  <1>1. Len(ops) \in Nat /\ DOMAIN ops = 1 .. Len(ops)
    BY ListDomain
  <1>2. PICK R : /\ x \in R /\ InTurn(k, x, ops) \in R
                 /\ \A S : (/\ x \in S
                            /\ \A y \in S, i \in 1 .. Len(ops) :
                                 Step(k, y, ops[i]) \in R => Step(k, y, ops[i]) \in S)
                           => InTurn(k, x, ops) \in S
    BY <1>1, TurnsWithin
  <1> DEFINE S == {y \in R : Formed(y)}
  <1>3. x \in S
    BY <1>2
  <1>4. ASSUME NEW y \in S, NEW i \in 1 .. Len(ops), Step(k, y, ops[i]) \in R
        PROVE  Step(k, y, ops[i]) \in S
    <2>1. Step(k, y, ops[i]) = IF IsEtf(ops[i]) THEN ErlangStep(y, ops[i]) ELSE y
      BY DEF Step
    <2>2. Formed(y) /\ Formed(ops[i])
      BY <1>1
    <2>3. Formed(ErlangStep(y, ops[i]))
      BY <2>2, EditsFormed
    <2>4. QED
      BY <1>4, <2>1, <2>2, <2>3
  <1> HIDE DEF S
  <1>5. InTurn(k, x, ops) \in S
    BY <1>2, <1>3, <1>4
  <1>6. QED
    BY <1>5 DEF S

(* What the operator makes of terms of this form has it again. *)
LEMMA ErlangFormed ==
  ASSUME NEW v, Valued(v), Formed(v), NEW ops, Countable(ops),
         \A i \in DOMAIN ops : Formed(ops[i])
  PROVE  Formed(Merge("erlang", v, ops))
  <1>1. Formed(Start(v)) /\ IsList(ops)
    BY TermFormed DEF Start, Countable
  <1>2. Formed(InTurn("erlang", Start(v), ops))
    BY <1>1, TurnsFormed
  <1>3. Formed(CounterMerge(v, ops))
    <2>1. PICK r \in Int : CounterMerge(v, ops) = Text(r)
      BY CounterJoin
    <2>2. IsList(<<r>>)
      BY ListLaws
    <2>3. QED
      BY <2>1, <2>2, TermFormed DEF Text
  <1>4. Merge("erlang", v, ops) = ErlangMerge(v, ops)
    BY DEF Merge
  <1>5. QED
    BY <1>2, <1>3, <1>4, ErlangValue


-----------------------------------------------------------------------------
(* The layers of a key with the erlang operator keep that form. *)

FormedLayer(l) == Formed(l.value) /\ \A i \in DOMAIN l.operands : Formed(l.operands[i])

LEMMA FormedEmpty ==
  /\ FormedLayer(Empty)
  /\ \A o, v : Formed(v) => FormedLayer(Layer(o, v, <<>>))
  /\ \A o, v, x : Formed(v) /\ Formed(x) => FormedLayer(Layer(o, v, <<x>>))
  <1>1. \A i : i \notin DOMAIN <<>>
    BY ListLaws, ListDomain
  <1>2. ASSUME NEW o, NEW v, Formed(v) PROVE FormedLayer(Layer(o, v, <<>>))
    BY <1>1, <1>2, LayerFields DEF FormedLayer
  <1>3. ASSUME NEW o, NEW v, NEW x, Formed(v), Formed(x) PROVE FormedLayer(Layer(o, v, <<x>>))
    <2>1. PICK s : s = <<x>> /\ DOMAIN s = 1 .. 1 /\ s[1] = x
      BY ListLaws, ListDomain
    <2>2. \A i \in DOMAIN s : Formed(s[i])
      BY <1>3, <2>1
    <2>3. FormedLayer(Layer(o, v, s))
      BY <1>3, <2>2, LayerFields DEF FormedLayer
    <2>4. QED
      BY <2>1, <2>3
  <1>4. FormedLayer(Empty)
    BY <1>2, TermFormed DEF Empty
  <1>5. QED
    BY <1>2, <1>3, <1>4

LEMMA FormedAbove ==
  ASSUME NEW x, LayerOK(x), FormedLayer(x), NEW y, LayerOK(y), FormedLayer(y)
  PROVE  FormedLayer(Above(x, y))
  <1>1. CASE y.over
    BY <1>1 DEF Above
  <1>2. CASE ~y.over
    <2>1. PICK z, c : z = Above(x, y) /\ c = x.operands \o y.operands
      OBVIOUS
    <2>2. Extends(x, y, z)
      BY <1>2, <2>1, AboveExtends
    <2>3. z.value = x.value /\ z.operands = c
      BY <2>1, <2>2 DEF Extends
    <2>4. IsList(x.operands) /\ IsList(y.operands)
      BY DEF LayerOK, Countable
    <2>5. ASSUME NEW i \in DOMAIN c PROVE Formed(c[i])
      <3>1. \/ \E j \in DOMAIN x.operands : c[i] = x.operands[j]
            \/ \E j \in DOMAIN y.operands : c[i] = y.operands[j]
        <4>1. PICK a, b : a = x.operands /\ b = y.operands
          OBVIOUS
        <4>2. IsList(a) /\ IsList(b) /\ c = a \o b
          BY <2>1, <2>4, <4>1
        <4>3. \A k \in DOMAIN (a \o b) :
                \/ \E j \in DOMAIN a : (a \o b)[k] = a[j]
                \/ \E j \in DOMAIN b : (a \o b)[k] = b[j]
          <5>1. IsList(a) /\ IsList(b)
            BY <4>2
          <5>2. QED
            BY <5>1, ListJoinHas
        <4>4. \A k \in DOMAIN c : \/ \E j \in DOMAIN a : c[k] = a[j]
                                 \/ \E j \in DOMAIN b : c[k] = b[j]
          BY <4>2, <4>3
        <4>5. QED
          BY <4>1, <4>4
      <3>2. QED
        BY <3>1 DEF FormedLayer
    <2>6. FormedLayer(z)
      BY <2>3, <2>5 DEF FormedLayer
    <2>7. QED
      BY <2>1, <2>6
  <1>3. QED
    BY <1>1, <1>2

LEMMA FormedGives ==
  ASSUME NEW l, LayerOK(l), FormedLayer(l)
  PROVE  Formed(Gives("erlang", l))
  <1>1. Valued(l.value) /\ Formed(l.value) /\ Countable(l.operands)
        /\ \A i \in DOMAIN l.operands : Formed(l.operands[i])
    BY DEF LayerOK, FormedLayer
  <1>2. Formed(Merge("erlang", l.value, l.operands))
    BY <1>1, ErlangFormed
  <1>3. QED
    BY <1>1, <1>2 DEF Gives

LEMMA FormedRewritten ==
  ASSUME NEW l, LayerOK(l), FormedLayer(l), NEW bottom \in BOOLEAN
  PROVE  FormedLayer(Rewritten("erlang", l, bottom))
  <1>1. FormedLayer(Layer(TRUE, Gives("erlang", l), <<>>))
    BY FormedGives, FormedEmpty
  <1>2. Formed(PartialMerge("erlang", l.operands))
    <2>1. Valued(None) /\ Formed(None)
      BY RunningTerm, TermFormed
    <2>2. Countable(l.operands) /\ \A i \in DOMAIN l.operands : Formed(l.operands[i])
      BY DEF LayerOK, FormedLayer
    <2>3. Formed(Merge("erlang", None, l.operands))
      BY <2>1, <2>2, ErlangFormed
    <2>4. QED
      BY <2>3 DEF PartialMerge
  <1>3. FormedLayer(Layer(FALSE, None, <<PartialMerge("erlang", l.operands)>>))
    BY <1>2, TermFormed, FormedEmpty
  <1>4. QED
    BY <1>1, <1>3 DEF Rewritten

FormedLayers(fs) == \A i \in DOMAIN fs : FormedLayer(fs[i])

LEMMA FormedStack ==
  ASSUME NEW fs, LayersOK(fs), FormedLayers(fs)
  PROVE  FormedLayer(Stacked(fs))
  <1>1. Len(fs) \in Nat /\ DOMAIN fs = 1 .. Len(fs)
    BY ListDomain DEF LayersOK
  <1>2. PICK n \in Nat : n = Len(fs)
    BY <1>1
  <1>3. PICK t : StackOf(t, fs) /\ Stacked(fs) = t[n]
    BY <1>2, Stacking
  <1>4. \A i \in 0 .. n : LayerOK(t[i])
    BY <1>2, <1>3, StackingOK
  <1> DEFINE I == {i \in Nat : i <= n => FormedLayer(t[i])}
  <1>5. 0 \in I
    BY <1>3, FormedEmpty DEF StackOf
  <1>6. ASSUME NEW i \in Nat, i \in I PROVE i + 1 \in I
    <2> SUFFICES ASSUME i + 1 <= n PROVE FormedLayer(t[i + 1])
      OBVIOUS
    <2>1. i + 1 \in 1 .. n /\ i \in 0 .. n /\ (i + 1) - 1 = i /\ FormedLayer(t[i])
      BY <1>6
    <2>2. /\ t[i + 1] = Above(t[i], fs[i + 1]) /\ LayerOK(fs[i + 1]) /\ LayerOK(t[i])
          /\ FormedLayer(fs[i + 1])
      BY <1>1, <1>2, <1>3, <1>4, <2>1 DEF StackOf, LayersOK, FormedLayers
    <2>3. QED
      BY <2>1, <2>2, FormedAbove
  <1> HIDE DEF I
  <1>7. Nat \subseteq I
    BY <1>5, <1>6, InductionSet
  <1>8. FormedLayer(t[n])
    <2>1. n \in I
      BY <1>7
    <2>2. QED
      BY <2>1 DEF I
  <1>9. QED
    BY <1>3, <1>8

\* What the memtable and the files hold is of that form.
StoredFormed == kind = "erlang" => FormedLayer(mem) /\ FormedLayers(files)
EditIInv == KeyIInv /\ StoredFormed

LEMMA EditStarts == Init => EditIInv
  <1> SUFFICES ASSUME Init PROVE EditIInv
    OBVIOUS
  <1>1. \A i : i \notin DOMAIN <<>>
    BY ListLaws, ListDomain
  <1>2. StoredFormed
    BY <1>1, FormedEmpty DEF Init, StoredFormed, FormedLayers
  <1>3. QED
    BY <1>2, KeyStarts DEF EditIInv

LEMMA WritesFormed ==
  ASSUME kind \in Kinds, Put \/ Delete \/ MergeOp
  PROVE  \E l : FormedLayer(l) /\ LayerOK(l) /\ WriteOp(l)
  <1>1. \A t \in Values[kind] \cup Operands[kind] : Formed(t)
    <2>1. I32Half \in Nat
      BY WidthAssumption
    <2>2. ASSUME NEW t \in Values[kind] \cup Operands[kind] PROVE Formed(t)
      <3>1. IsList(t.v)
            /\ (t.type \notin {"bit_set", "bit_clear"} =>
                  {t.pos, t.n} \subseteq -I32Half .. I32Half - 1)
        BY StackAssumption
      <3>2. QED
        BY <2>1, <3>1 DEF Formed
    <2>3. QED
      BY <2>2
  <1>2. CASE Put
    <2>1. PICK v \in Values[kind] : WriteOp(Layer(TRUE, v, <<>>))
      BY <1>2 DEF Put
    <2>2. PICK l : l = Layer(TRUE, v, <<>>) /\ FormedLayer(l)
      BY <1>1, FormedEmpty
    <2>3. v.type \in {"text", "bytes", "int", "list", "bin"}
          /\ (v.type = "text" => v.v[1] \in Int)
      BY StackAssumption
    <2>4. Valued(v)
      BY <2>3 DEF Valued, Lasting, Number
    <2>5. LayerOK(l)
      BY <2>2, <2>4, EmptyLayer DEF LayerOK, Layer
    <2>6. QED
      BY <2>1, <2>2, <2>5
  <1>3. CASE Delete
    <2>1. PICK l : l = Layer(TRUE, None, <<>>) /\ FormedLayer(l)
      BY FormedEmpty, TermFormed
    <2>2. LayerOK(l)
      BY <2>1, RunningTerm, EmptyLayer DEF LayerOK, Layer
    <2>3. QED
      BY <1>3, <2>1, <2>2 DEF Delete
  <1>4. CASE MergeOp
    <2>1. PICK o \in Operands[kind] : WriteOp(Layer(FALSE, None, <<o>>))
      BY <1>4 DEF MergeOp
    <2>2. PICK l, s : l = Layer(FALSE, None, s) /\ s = <<o>> /\ FormedLayer(l)
      BY <1>1, FormedEmpty, TermFormed
    <2>3. Countable(s)
      <3>1. o.type = "text" => o.v[1] \in Int
        BY StackAssumption
      <3>2. Number(o) \in Int
        BY <3>1 DEF Number
      <3>3. IsList(s) /\ DOMAIN s = 1 .. 1 /\ s[1] = o
        BY <2>2, ListLaws, ListDomain
      <3>4. QED
        BY <3>2, <3>3 DEF Countable
    <2>4. l.over = FALSE /\ l.value = None /\ l.operands = s
      BY <2>2 DEF Layer
    <2>5. LayerOK(l)
      BY <2>2, <2>3, <2>4, RunningTerm DEF LayerOK
    <2>6. QED
      BY <2>1, <2>2, <2>5
  <1>5. QED
    BY <1>2, <1>3, <1>4

LEMMA EditSteps == EditIInv /\ [Next]_vars => EditIInv'
  <1> SUFFICES ASSUME EditIInv, [Next]_vars PROVE EditIInv'
    OBVIOUS
  <1>1. KeyIInv' /\ KeyIInv /\ StoredFormed
    BY KeySteps DEF EditIInv
  <1>2. /\ kind \in Kinds /\ LayerOK(mem) /\ LayersOK(files) /\ IsList(files)
        /\ Len(files) \in Nat /\ DOMAIN files = 1 .. Len(files)
    BY <1>1, ListDomain DEF KeyIInv, KeyTypes, LayersOK
  <1> SUFFICES ASSUME kind = "erlang", FormedLayer(mem), FormedLayers(files), kind' = kind
               PROVE  FormedLayer(mem') /\ FormedLayers(files')
    <2>1. kind' = kind
      BY DEF Next, Put, Delete, MergeOp, WriteOp, Flush, Compact, vars
    <2>2. QED
      BY <1>1, <2>1 DEF EditIInv, StoredFormed
  <1>3. CASE Put \/ Delete \/ MergeOp
    <2>1. PICK l : FormedLayer(l) /\ LayerOK(l) /\ WriteOp(l)
      BY <1>2, <1>3, WritesFormed
    <2>2. mem' = Above(mem, l) /\ files' = files
      BY <2>1 DEF WriteOp
    <2>3. FormedLayer(Above(mem, l))
      BY <1>2, <2>1, FormedAbove
    <2>4. QED
      BY <2>2, <2>3
  <1>4. CASE Flush
    <2>1. PICK w : w = Rewritten("erlang", mem, FALSE) /\ FormedLayer(w)
      BY <1>2, FormedRewritten
    <2>2. files' = Append(files, w) /\ mem' = Empty
      BY <1>4, <2>1, AppliedGives DEF Flush
    <2>3. PICK g, s : g = Append(files, w) /\ s = <<w>> /\ Joins(files, s, g)
      BY <1>2, ListEnd
    <2>4. Len(s) = 1 /\ s[1] = w
      BY <2>3, ListLaws
    <2>5. ASSUME NEW i \in DOMAIN g PROVE FormedLayer(g[i])
      <3>1. i \in 1 .. Len(files) + 1
        BY <2>3, <2>4 DEF Joins
      <3>2. CASE i = Len(files) + 1
        <4>1. 1 \in 1 .. Len(s)
          BY <2>4
        <4>2. g[Len(files) + 1] = s[1]
          BY <2>3, <4>1 DEF Joins
        <4>3. QED
          BY <2>1, <2>4, <3>2, <4>2
      <3>3. CASE i # Len(files) + 1
        <4>1. i \in 1 .. Len(files)
          BY <1>2, <3>1, <3>3
        <4>2. QED
          BY <1>2, <2>3, <4>1 DEF Joins, FormedLayers
      <3>4. QED
        BY <3>2, <3>3
    <2>6. QED
      BY <2>2, <2>3, <2>5, FormedEmpty DEF FormedLayers
  <1>5. CASE Compact
    <2>1. PICK i \in 1 .. Len(files) - 1 :
            files' = SubSeq(files, 1, i - 1)
                       \o <<Written(Above(files[i], files[i + 1]), i = 1)>>
                       \o SubSeq(files, i + 2, Len(files))
      BY <1>5 DEF Compact
    <2>2. /\ LayerOK(files[i]) /\ LayerOK(files[i + 1])
          /\ FormedLayer(files[i]) /\ FormedLayer(files[i + 1])
      <3>1. i \in DOMAIN files /\ i + 1 \in DOMAIN files
        BY <1>2
      <3>2. QED
        BY <1>2, <3>1 DEF LayersOK, FormedLayers
    <2>3. PICK both, bottom, w : /\ both = Above(files[i], files[i + 1]) /\ bottom = (i = 1)
                                 /\ w = Rewritten("erlang", both, bottom)
      OBVIOUS
    <2>4. LayerOK(both) /\ FormedLayer(both) /\ bottom \in BOOLEAN
      BY <2>2, <2>3, AboveOK, FormedAbove
    <2>5. LayerOK(w) /\ FormedLayer(w)
      BY <2>3, <2>4, RewrittenCases, FormedRewritten
    <2>6. PICK g, s : g = files' /\ s = files
      OBVIOUS
    <2>7. g = SubSeq(s, 1, i - 1) \o <<w>> \o SubSeq(s, i + 2, Len(s))
      <3>1. Written(both, bottom) = w
        BY <2>3, AppliedGives
      <3>2. Written(Above(files[i], files[i + 1]), i = 1) = w
        BY <2>3, <3>1
      <3>3. QED
        BY <2>1, <2>6, <3>2
    <2>8. Compacted(s, i, w, g) /\ LayersOK(s) /\ i \in 1 .. Len(s) - 1
      BY <1>2, <2>6, <2>7 DEF Compacted
    <2>9. Joined(s, i, w, g)
      BY <2>5, <2>8, CompactJoins
    <2>10. ASSUME NEW j \in DOMAIN g PROVE FormedLayer(g[j])
      <3>1. PICK n \in Nat : n = Len(s) /\ DOMAIN s = 1 .. n
        BY <1>2, <2>6
      <3>2. Len(g) = n - 1 /\ DOMAIN g = 1 .. Len(g)
        BY <2>9, <3>1, ListDomain DEF Joined
      <3>3. j \in 1 .. n - 1 /\ i \in 1 .. n - 1
        BY <2>8, <3>1, <3>2
      <3>4. \A h \in 1 .. n : FormedLayer(s[h])
        BY <2>6, <3>1 DEF FormedLayers
      <3>5. CASE j = i
        BY <2>5, <2>9, <3>5 DEF Joined
      <3>6. CASE j < i
        <4>1. j \in 1 .. i - 1 /\ j \in 1 .. n
          BY <3>3, <3>6
        <4>2. QED
          BY <2>9, <3>4, <4>1 DEF Joined
      <3>7. CASE j > i
        <4>1. j \in i + 1 .. n - 1 /\ j + 1 \in 1 .. n
          BY <3>3, <3>7
        <4>2. QED
          BY <2>9, <3>1, <3>4, <4>1 DEF Joined
      <3>8. QED
        BY <3>3, <3>5, <3>6, <3>7
    <2>11. mem' = mem
      BY <1>5 DEF Compact
    <2>12. QED
      BY <2>6, <2>10, <2>11 DEF FormedLayers
  <1>6. CASE UNCHANGED vars
    BY <1>6 DEF vars
  <1>7. QED
    BY <1>3, <1>4, <1>5, <1>6 DEF Next

\* The value that is read, and a position beyond it, fit a usize.
ReadFits == Len(Read.v) + I32Half < UsizeWords

LEMMA EditsRead ==
  ASSUME EditIInv, ReadFits
  PROVE  EditsAreSplices
  <1> SUFFICES ASSUME kind = "erlang", Read # Aborted, NEW o \in Operands[kind], o.type \in Edits
               PROVE  LET bin == o.type \in OnBinaries
                          s == IF bin THEN BinOf(Read) ELSE ListOf(Read)
                      IN ErlangStep(Read, o) =
                           IF Reversed(s, o) THEN Aborted
                           ELSE Term(IF bin THEN "bin" ELSE "list", SpliceOf(s, o))
    BY DEF EditsAreSplices
  <1>1. PICK t : t = Read
    OBVIOUS
  <1>2. IsList(t.v)
    <2>1. LayerOK(mem) /\ LayersOK(files) /\ LayerOK(Stacked(files)) /\ LayerOK(Whole)
      BY WholeOK DEF EditIInv, KeyIInv, KeyTypes
    <2>2. FormedLayer(mem) /\ FormedLayer(Stacked(files))
      BY <2>1, FormedStack DEF EditIInv, StoredFormed
    <2>3. FormedLayer(Whole)
      BY <2>1, <2>2, FormedAbove DEF Whole
    <2>4. Read = Gives("erlang", Whole)
      BY AppliedGives DEF Read, Whole
    <2>5. QED
      BY <1>1, <2>1, <2>3, <2>4, FormedGives DEF Formed
  <1>3. I32Half \in Nat /\ UsizeWords \in Nat
    BY WidthAssumption
  <1>4. kind \in Kinds
    BY DEF EditIInv, KeyIInv, KeyTypes
  <1>5. o.type \notin {"bit_set", "bit_clear"}
    BY DEF Edits, OnBinaries
  <1>6. EditOK(o)
    <2>1. /\ IsList(o.v) /\ (o.type = "list_set" => Len(o.v) = 1)
          /\ {o.pos, o.n} \subseteq -I32Half .. I32Half - 1
      BY <1>4, <1>5, StackAssumption
    <2>2. QED
      BY <2>1 DEF EditOK, I32
  <1>7. PICK l, b : l = ListOf(t) /\ b = BinOf(t)
    OBVIOUS
  <1>8. IsList(l) /\ IsList(b) /\ FitsIn(Len(l)) /\ FitsIn(Len(b))
    <2>1. /\ IsList(l) /\ IsList(b)
          /\ Len(l) \in {0, Len(t.v)} /\ Len(b) \in {0, Len(t.v)}
      BY <1>2, <1>7, PartsListed
    <2>2. Len(t.v) \in Nat /\ Len(t.v) + I32Half < UsizeWords
      BY <1>1, <1>2, ListDomain DEF ReadFits
    <2>3. QED
      BY <1>3, <2>1, <2>2 DEF FitsIn
  <1>9. CASE o.type \in OnBinaries
    <2>1. Edited("bin", b, o, ErlangStep(t, o))
      BY <1>1, <1>6, <1>7, <1>8, <1>9, StepCases, EditsAtEnds, EditsAtPosition, EditsOfCount
         DEF OnBinaries
    <2>2. QED
      BY <1>1, <1>7, <1>9, <2>1 DEF Edited
  <1>10. CASE o.type \notin OnBinaries
    <2>1. Edited("list", l, o, ErlangStep(t, o))
      BY <1>1, <1>6, <1>7, <1>8, <1>10, StepCases, EditsAtEnds, EditsAtPosition, EditsOfRange
         DEF OnBinaries, Edits
    <2>2. QED
      BY <1>1, <1>7, <1>10, <2>1 DEF Edited
  <1>11. QED
    BY <1>9, <1>10

(* The edits of merge.rs are the splices they stand for, for all positions and
   counts an i32 can be, as long as the value that is read is shorter than the
   least position a negative number becomes.  A Vec is shorter than that by
   far: it has at most 2^63 elements, and i32::MIN as a usize is 2^64 - 2^31. *)
THEOREM EditsSplice == Spec => [](ReadFits => EditsAreSplices)
  <1>1. Spec => []EditIInv
    BY EditStarts, EditSteps, PTL DEF Spec
  <1>2. EditIInv => (ReadFits => EditsAreSplices)
    BY EditsRead
  <1>3. QED
    BY <1>1, <1>2, PTL
===============================================================================
