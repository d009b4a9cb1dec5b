-------------------------- MODULE RecordCodecProofs --------------------------
(***************************************************************************)
(* What is left of a record, and of a file of records, after it has been   *)
(* written and read, for any size of a byte, any amounts, addresses,       *)
(* hashes and records, and any memory behind the vectors that are read.    *)
(* Restored(b, heap, k, r) says it of one record, FileRead of a file; the  *)
(* properties of RecordCodec follow from IInv.                             *)
(*                                                                         *)
(* The loops of the code are recursive functions.  Nothing about one is    *)
(* known to the provers but its equations, and these only once a function  *)
(* that satisfies them is shown to exist; what it computes is then proved  *)
(* by induction, which rests on the least number that a set lacks.         *)
(***************************************************************************)
EXTENDS RecordCodec, SequenceTheorems, FiniteSetTheorems, WellFoundedInduction, TLAPS

-----------------------------------------------------------------------------
(* Arithmetic *)

\* The sizes of words.
LEMMA Sizes ==
    /\ Byte \in Nat \ {0} /\ Byte2 \in Nat \ {0} /\ Byte3 \in Nat \ {0} /\ Half \in Nat \ {0}
    /\ Half <= Whole /\ Whole \in Nat
<1>1. Byte \in Nat \ {0}
  BY ByteAssumption
<1>2. Byte2 \in Nat \ {0}
  BY <1>1 DEF Byte2
<1>3. Byte3 \in Nat \ {0}
  BY <1>1, <1>2 DEF Byte3
<1>4. Half \in Nat \ {0}
  BY <1>1, <1>3 DEF Half
<1>5. Half <= Whole /\ Whole \in Nat
  BY <1>4 DEF Whole
<1> QED
  BY <1>1, <1>2, <1>3, <1>4, <1>5

\* Quotient and remainder of an integer.
LEMMA DivisionInt == \A a \in Int, d \in Int : d > 0 => a = d * (a \div d) + (a % d)
OBVIOUS

\* Quotient and remainder of a natural number.
LEMMA Division ==
    \A a \in Nat, d \in Nat \ {0} :
        a \div d \in Nat /\ a % d \in 0..d - 1 /\ a = (a \div d) * d + (a % d)
<1> SUFFICES ASSUME NEW a \in Nat, NEW d \in Nat \ {0}
             PROVE  a \div d \in Nat /\ a % d \in 0..d - 1 /\ a = (a \div d) * d + (a % d)
  OBVIOUS
<1>1. a \div d \in Nat
  OBVIOUS
<1>2. a % d \in 0..d - 1
  OBVIOUS
<1>3. a = d * (a \div d) + (a % d)
  BY DivisionInt
<1>4. d * (a \div d) = (a \div d) * d
  BY <1>1
<1> QED
  BY <1>1, <1>2, <1>3, <1>4

\* Products are monotonic.
LEMMA TimesMonotone == \A x, y, d \in Nat : x <= y => x * d <= y * d
OBVIOUS

\* They are unique.
LEMMA DivisionUnique ==
    ASSUME NEW d \in Nat \ {0}, NEW q \in Nat, NEW r \in 0..d - 1,
           NEW p \in Nat, NEW s \in 0..d - 1,
           q * d + r = p * d + s
    PROVE  q = p /\ r = s
<1>1. ASSUME NEW x \in Nat, NEW y \in Nat, NEW t \in 0..d - 1, NEW u \in 0..d - 1,
             x * d + t = y * d + u, x < y
      PROVE  FALSE
  <2>1. (x + 1) * d <= y * d
    BY <1>1, TimesMonotone
  <2>2. (x + 1) * d = x * d + d
    OBVIOUS
  <2>3. x * d \in Nat /\ y * d \in Nat
    OBVIOUS
  <2> QED
    BY <1>1, <2>1, <2>2, <2>3
<1>2. ~(q < p) /\ ~(p < q)
  BY <1>1
<1>3. q = p
  BY <1>2
<1>4. q * d \in Nat
  OBVIOUS
<1> QED
  BY <1>3, <1>4

\* Dividing twice is dividing by the product.
LEMMA DivTwice ==
    ASSUME NEW a \in Nat, NEW c \in Nat \ {0}, NEW d \in Nat \ {0}
    PROVE  a \div (c * d) = (a \div c) \div d
<1> DEFINE q == a \div c
           r == a % c
           p == q \div d
           s == q % d
<1>1. q \in Nat /\ r \in 0..c - 1 /\ a = q * c + r
  BY Division
<1>2. p \in Nat /\ s \in 0..d - 1 /\ q = p * d + s
  BY <1>1, Division
<1> HIDE DEF q, r, p, s
<1>3. c * d \in Nat \ {0}
  OBVIOUS
<1>4. a = p * (c * d) + (s * c + r)
  <2>1. q * c = (p * d) * c + s * c
    BY <1>2
  <2>2. (p * d) * c = p * (c * d)
    BY <1>2
  <2>3. p * (c * d) \in Nat /\ s * c \in Nat
    BY <1>2
  <2> QED
    BY <1>1, <2>1, <2>2, <2>3
<1>5. s * c + r \in 0..(c * d) - 1
  <2>1. (s + 1) * c <= d * c
    BY <1>2, TimesMonotone
  <2>2. (s + 1) * c = s * c + c /\ d * c = c * d /\ s * c \in Nat
    BY <1>2
  <2> QED
    BY <1>1, <1>3, <2>1, <2>2
<1> DEFINE Q == a \div (c * d)
           R == a % (c * d)
<1>6. Q \in Nat /\ R \in 0..(c * d) - 1 /\ a = Q * (c * d) + R
  BY <1>3, Division
<1> HIDE DEF Q, R
<1>7. Q = p
  BY <1>2, <1>3, <1>4, <1>5, <1>6, DivisionUnique
<1> QED
  BY <1>7 DEF Q, p, q

\* A quotient is below f when the number is below f times the divisor.
LEMMA QuotientBelow ==
    ASSUME NEW d \in Nat \ {0}, NEW f \in Nat, NEW a \in Nat, a < f * d
    PROVE  a \div d < f
<1> DEFINE q == a \div d
           r == a % d
<1>1. q \in Nat /\ r \in 0..d - 1 /\ a = q * d + r
  BY Division
<1> HIDE DEF q, r
<1>2. CASE f <= q
  <2>1. f * d <= q * d
    BY <1>1, <1>2, TimesMonotone
  <2>2. f * d \in Nat /\ q * d \in Nat
    BY <1>1
  <2> QED
    BY <1>1, <2>1, <2>2
<1> QED
  BY <1>1, <1>2 DEF q

-----------------------------------------------------------------------------
(* Words *)

\* uint2bytes: the four bytes of a 32-bit number are its digits.
LEMMA Digits ==
    ASSUME NEW u \in 0..Half - 1
    PROVE  /\ Uint2bytes(u) \in Seq(0..Byte - 1) /\ Len(Uint2bytes(u)) = 4
           /\ Uint2bytes(u)[1] * Byte3 + Uint2bytes(u)[2] * Byte2
              + Uint2bytes(u)[3] * Byte + Uint2bytes(u)[4] = u
<1> DEFINE q1 == u \div Byte
           q2 == q1 \div Byte
           q3 == q2 \div Byte
           b1 == q3 % Byte
           b2 == q2 % Byte
           b3 == q1 % Byte
           b4 == u % Byte
<1>1. Byte \in Nat \ {0} /\ Byte2 \in Nat \ {0} /\ Byte3 \in Nat \ {0} /\ u \in Nat
  BY Sizes
<1>2. q1 \in Nat /\ b4 \in 0..Byte - 1 /\ u = q1 * Byte + b4
  BY <1>1, Division
<1>3. q2 \in Nat /\ b3 \in 0..Byte - 1 /\ q1 = q2 * Byte + b3
  BY <1>1, <1>2, Division
<1>4. q3 \in Nat /\ b2 \in 0..Byte - 1 /\ q2 = q3 * Byte + b2
  BY <1>1, <1>3, Division
<1>5. q2 = u \div Byte2
  BY <1>1, DivTwice DEF Byte2
<1>6. q3 = u \div Byte3
  <2>1. u \div (Byte2 * Byte) = (u \div Byte2) \div Byte
    BY <1>1, DivTwice
  <2> QED
    BY <1>5, <2>1, Zenon DEF Byte3
<1>7. q3 < Byte
  <2>1. u < Byte * Byte3
    BY <1>1, Sizes DEF Half
  <2> QED
    BY <1>1, <1>6, <2>1, QuotientBelow
<1>8. b1 = q3 /\ b1 \in 0..Byte - 1
  BY <1>1, <1>4, <1>7
<1>9. Uint2bytes(u) = <<b1, b2, b3, b4>>
  BY <1>5, <1>6 DEF Uint2bytes
<1> HIDE DEF q1, q2, q3, b1, b2, b3, b4
<1>10. b1 * Byte3 + b2 * Byte2 + b3 * Byte + b4 = u
  <2>1. q2 * Byte2 = b1 * Byte3 + b2 * Byte2
    BY <1>1, <1>4, <1>8 DEF Byte3
  <2>2. q1 * Byte = q2 * Byte2 + b3 * Byte
    BY <1>1, <1>3 DEF Byte2
  <2> QED
    BY <1>2, <2>1, <2>2
<1>11. <<b1, b2, b3, b4>> \in Seq(0..Byte - 1) /\ Len(<<b1, b2, b3, b4>>) = 4
  BY <1>2, <1>3, <1>4, <1>8
<1>12. Uint2bytes(u)[1] = b1 /\ Uint2bytes(u)[2] = b2 /\ Uint2bytes(u)[3] = b3
       /\ Uint2bytes(u)[4] = b4
  BY <1>9
<1> QED
  BY <1>9, <1>10, <1>11, <1>12, Zenon

\* The bytes w begin at position `at` of `bytes`.
At(bytes, at, w) ==
    /\ at + Len(w) <= Len(bytes)
    /\ \A i \in 1..Len(w) : bytes[at + i] = w[i]

\* bytes2uint reads what uint2bytes has written, wherever it stands.
LEMMA NumberKept ==
    ASSUME NEW bytes, NEW at \in Nat, NEW u \in 0..Half - 1, Len(bytes) \in Nat,
           At(bytes, at, Uint2bytes(u))
    PROVE  Bytes2uint(bytes, at) = u
<1> DEFINE w == Uint2bytes(u)
<1>1. Len(w) = 4 /\ w[1] * Byte3 + w[2] * Byte2 + w[3] * Byte + w[4] = u
  BY Digits
<1>2. bytes[at + 1] = w[1] /\ bytes[at + 2] = w[2] /\ bytes[at + 3] = w[3] /\ bytes[at + 4] = w[4]
  BY <1>1 DEF At
<1>3. ~(Len(bytes) < at + 4)
  BY <1>1 DEF At
<1>4. Bytes2uint(bytes, at) = u % Half
  BY <1>1, <1>2, <1>3 DEF Bytes2uint
<1>5. u % Half = u
  BY Sizes
<1> QED
  BY <1>4, <1>5

-----------------------------------------------------------------------------
(* Positions *)

Bytes == Seq(0..Byte - 1)

\* The elements and the length of two sequences in a row.
LEMMA Join ==
    ASSUME NEW s \in Bytes, NEW t \in Bytes
    PROVE  /\ s \o t \in Bytes /\ Len(s) \in Nat /\ Len(t) \in Nat /\ Len(s \o t) = Len(s) + Len(t)
           /\ \A i \in 1..Len(s) : (s \o t)[i] = s[i]
           /\ \A i \in 1..Len(t) : (s \o t)[Len(s) + i] = t[i]
BY DEF Bytes

\* What stands in s stands at the same position in s \o t.
LEMMA AtLeft ==
    ASSUME NEW s \in Bytes, NEW t \in Bytes, NEW w \in Bytes, NEW n \in Nat, At(s, n, w)
    PROVE  At(s \o t, n, w)
<1>1. Len(w) \in Nat /\ Len(s) \in Nat
  BY DEF Bytes
<1>2. n + Len(w) <= Len(s \o t)
  BY <1>1, Join DEF At
<1>3. ASSUME NEW i \in 1..Len(w) PROVE (s \o t)[n + i] = w[i]
  <2>1. n + i \in 1..Len(s)
    BY <1>1 DEF At
  <2>2. s[n + i] = w[i]
    BY DEF At
  <2>3. \A j \in 1..Len(s) : (s \o t)[j] = s[j]
    BY Join, Zenon
  <2> QED
    BY <2>1, <2>2, <2>3, Zenon
<1> QED
  BY <1>2, <1>3 DEF At

\* What stands in t stands Len(s) further in s \o t.
LEMMA AtRight ==
    ASSUME NEW s \in Bytes, NEW t \in Bytes, NEW w \in Bytes, NEW n \in Nat, At(t, n, w)
    PROVE  At(s \o t, Len(s) + n, w)
<1>1. Len(w) \in Nat /\ Len(s) \in Nat /\ Len(t) \in Nat
  BY DEF Bytes
<1>2. Len(s) + n + Len(w) <= Len(s \o t)
  BY <1>1, Join DEF At
<1>3. ASSUME NEW i \in 1..Len(w) PROVE (s \o t)[Len(s) + n + i] = w[i]
  <2>1. n + i \in 1..Len(t)
    BY <1>1 DEF At
  <2>2. t[n + i] = w[i]
    BY DEF At
  <2>3. Len(s) + n + i = Len(s) + (n + i)
    BY <1>1
  <2>4. \A j \in 1..Len(t) : (s \o t)[Len(s) + j] = t[j]
    BY Join, Zenon
  <2> QED
    BY <2>1, <2>2, <2>3, <2>4, Zenon
<1> QED
  BY <1>2, <1>3 DEF At

\* A sequence stands at the beginning of itself.
LEMMA AtStart == ASSUME NEW w \in Bytes PROVE At(w, 0, w)
BY DEF At, Bytes

\* The slice as long as w at the position of w is w.
LEMMA SliceIs ==
    ASSUME NEW s \in Bytes, NEW w \in Bytes, NEW n \in Nat, At(s, n, w)
    PROVE  Slice(s, n, n + Len(w)) = w
<1> DEFINE v == SubSeq(s, n + 1, n + Len(w))
<1>1. Len(w) \in Nat /\ Len(s) \in Nat /\ n + Len(w) <= Len(s)
  BY DEF At, Bytes
<1>2. v \in Bytes /\ Len(v) = Len(w)
  <2>1. \A i \in (n + 1)..(n + Len(w)) : s[i] \in 0..Byte - 1
    <3>1. \A i \in (n + 1)..(n + Len(w)) : i \in 1..Len(s)
      BY <1>1
    <3> QED
      BY <3>1, ElementOfSeq, Zenon DEF Bytes
  <2>2. n + 1 \in Int /\ n + Len(w) \in Int
    BY <1>1
  <2>3. /\ v \in Seq(0..Byte - 1)
        /\ Len(v) = IF n + 1 <= n + Len(w) THEN n + Len(w) - (n + 1) + 1 ELSE 0
    BY <2>1, <2>2, SubSeqProperties
  <2> HIDE DEF v
  <2> QED
    BY <1>1, <2>3 DEF Bytes
<1>3. ASSUME NEW i \in 1..Len(w) PROVE v[i] = w[i]
  <2>1. v[i] = s[n + i]
    BY <1>1 DEF Bytes
  <2> QED
    BY <2>1 DEF At
<1>4. v = w
  BY <1>2, <1>3, SeqEqual DEF Bytes
<1> QED
  BY <1>4 DEF Slice

\* What stands in a part of the bytes stands in them.
LEMMA AtInside ==
    ASSUME NEW bytes \in Bytes, NEW w \in Bytes, NEW v \in Bytes, NEW n \in Nat, NEW m \in Nat,
           At(bytes, n, w), At(w, m, v)
    PROVE  At(bytes, n + m, v)
<1>1. Len(w) \in Nat /\ Len(v) \in Nat /\ Len(bytes) \in Nat
  BY DEF Bytes
<1>2. n + m + Len(v) <= Len(bytes)
  BY <1>1 DEF At
<1>3. ASSUME NEW i \in 1..Len(v) PROVE bytes[n + m + i] = v[i]
  <2>1. m + i \in 1..Len(w) /\ n + m + i = n + (m + i)
    BY <1>1 DEF At
  <2>2. bytes[n + (m + i)] = w[m + i] /\ w[m + i] = v[i]
    BY <2>1 DEF At
  <2> QED
    BY <2>1, <2>2
<1> QED
  BY <1>2, <1>3 DEF At

\* The second of two sequences stands behind the first.
LEMMA AtEnd == ASSUME NEW s \in Bytes, NEW t \in Bytes PROVE At(s \o t, Len(s), t)
<1>1. At(s \o t, Len(s) + 0, t)
  BY AtStart, AtRight
<1>2. Len(s) + 0 = Len(s)
  BY DEF Bytes
<1> QED
  BY <1>1, <1>2

\* Two sequences in a row are as long as both.
LEMMA JoinLen ==
    ASSUME NEW s \in Bytes, NEW t \in Bytes
    PROVE  s \o t \in Bytes /\ Len(s) \in Nat /\ Len(t) \in Nat /\ Len(s \o t) = Len(s) + Len(t)
BY Join, Zenon

-----------------------------------------------------------------------------
(* Amounts *)

\* The two halves of a 64-bit number.
LEMMA Halves ==
    ASSUME NEW u \in Amounts
    PROVE  /\ u % Half \in 0..Half - 1 /\ u \div Half \in 0..Half - 1
           /\ (u % Half) + (u \div Half) <= u
           /\ u < Half => u % Half = u /\ u \div Half = 0
<1> DEFINE q == u \div Half
           r == u % Half
<1>1. Half \in Nat \ {0} /\ u \in Nat
  BY Sizes DEF Amounts
<1>2. q \in Nat /\ r \in 0..Half - 1 /\ u = q * Half + r
  BY <1>1, Division
<1>3. q < Half
  <2>1. u < Half * Half
    BY <1>1, Sizes DEF Amounts, Whole
  <2> QED
    BY <1>1, <2>1, QuotientBelow
<1>4. u < Half => r = u /\ q = 0
  BY <1>1
<1> HIDE DEF q, r
<1>5. q <= q * Half
  <2>1. q * 1 <= q * Half
    BY <1>1, <1>2, TimesMonotone
  <2> QED
    BY <1>2, <2>1
<1>6. r + q <= u
  <2>1. q * Half \in Nat
    BY <1>1, <1>2
  <2> QED
    BY <1>1, <1>2, <1>5, <2>1
<1>7. r \in 0..Half - 1 /\ q \in 0..Half - 1
  BY <1>1, <1>2, <1>3
<1> QED
  BY <1>4, <1>6, <1>7 DEF q, r

\* uint2bytes64: eight bytes, the low half in front.
LEMMA EightBytes ==
    ASSUME NEW u \in Amounts
    PROVE  /\ Uint2bytes64(u) \in Bytes /\ Len(Uint2bytes64(u)) = 8
           /\ At(Uint2bytes64(u), 0, Uint2bytes(u % Half))
           /\ At(Uint2bytes64(u), 4, Uint2bytes(u \div Half))
<1> DEFINE s == Uint2bytes(u % Half)
           t == Uint2bytes(u \div Half)
<1>1. s \in Bytes /\ Len(s) = 4 /\ t \in Bytes /\ Len(t) = 4
  BY Halves, Digits DEF Bytes
<1> HIDE DEF s, t
<1>2. s \o t \in Bytes /\ Len(s \o t) = 8
  <2>1. s \o t \in Bytes /\ Len(s \o t) = Len(s) + Len(t)
    BY <1>1, Join, Zenon
  <2> QED
    BY <1>1, <2>1
<1>3. At(s \o t, 0, s)
  BY <1>1, AtStart, AtLeft
<1>4. At(s \o t, 4, t)
  <2>1. At(s \o t, Len(s) + 0, t)
    BY <1>1, AtStart, AtRight
  <2> QED
    BY <1>1, <2>1
<1> QED
  BY <1>2, <1>3, <1>4, Zenon DEF Uint2bytes64, s, t

-----------------------------------------------------------------------------
(* Induction and loops *)

\* A set of numbers with 0 and with the successor of each of its elements has all of them: the
\* least number that it had not would have a predecessor that it has.
LEMMA Induction ==
    ASSUME NEW S, 0 \in S, \A n \in Nat : n \in S => n + 1 \in S
    PROVE  Nat \subseteq S
<1> DEFINE T == Nat \ S
           R == OpToRel(<, Nat)
<1> SUFFICES ASSUME T # {} PROVE FALSE
  OBVIOUS
<1>1. IsWellFoundedOn(R, Nat)
  BY NatLessThanWellFounded
<1>2. T \subseteq Nat
  OBVIOUS
<1>3. ASSUME NEW y \in Nat, NEW x \in Nat, y < x PROVE <<y, x>> \in R
  BY <1>3 DEF OpToRel
<1>4. \A x \in T : x \in Nat /\ x \notin S
  OBVIOUS
<1>5. \A x \in Nat : x \notin S => x \in T
  OBVIOUS
<1> HIDE DEF T, R
<1>6. PICK x \in T : \A y \in T : ~(<<y, x>> \in R)
  BY <1>1, <1>2, WFMin
<1>7. x \in Nat /\ x # 0
  BY <1>4
<1>8. x - 1 \in Nat /\ x - 1 < x /\ (x - 1) + 1 = x
  BY <1>7
<1>9. x - 1 \in S
  BY <1>3, <1>5, <1>6, <1>7, <1>8
<1> QED
  BY <1>4, <1>8, <1>9

\* The loop of Joins.
IsJoin(f, p) ==
    /\ f[0] = <<>>
    /\ \A i \in 1..Len(p) : f[i] = f[i - 1] \o p[i]

\* A function as the definition of Joins asks for exists.
LEMMA JoinsLoop ==
    ASSUME NEW p, Len(p) \in Nat
    PROVE  \E f : IsJoin(f, p) /\ Joins(p) = f
<1> DEFINE Is(f, m) ==
             f = [i \in 0..m |-> IF i = 0 THEN <<>> ELSE f[i - 1] \o p[i]]
           S == {m \in Nat : \E f : Is(f, m)}
<1>1. 0 \in S
  <2> DEFINE f == [i \in 0..0 |-> <<>>]
  <2>1. Is(f, 0)
    OBVIOUS
  <2> HIDE DEF f, Is
  <2> QED
    BY <2>1
<1>2. ASSUME NEW m \in Nat, m \in S PROVE m + 1 \in S
  <2>1. PICK f : Is(f, m)
    BY <1>2
  <2> DEFINE last == f[m] \o p[m + 1]
             g == [i \in 0..(m + 1) |-> IF i <= m THEN f[i] ELSE last]
  <2>2. \A i \in 0..m : f[i] = IF i = 0 THEN <<>> ELSE f[i - 1] \o p[i]
    BY <2>1
  <2> HIDE DEF last
  <2>3. (\A i \in 0..m : g[i] = f[i]) /\ g[m + 1] = last
    OBVIOUS
  <2>4. ASSUME NEW i \in 0..(m + 1) PROVE g[i] = IF i = 0 THEN <<>> ELSE g[i - 1] \o p[i]
    <3>1. CASE i = m + 1
      <4>1. i # 0 /\ i - 1 = m /\ m \in 0..m
        BY <3>1
      <4> QED
        BY <2>3, <3>1, <4>1 DEF last
    <3>2. CASE i # m + 1
      <4>1. i \in 0..m /\ (i # 0 => i - 1 \in 0..m)
        BY <3>2
      <4> HIDE DEF g
      <4> QED
        BY <2>2, <2>3, <4>1
    <3> QED
      BY <3>1, <3>2
  <2>5. Is(g, m + 1)
    BY <2>4
  <2> HIDE DEF g, Is
  <2> QED
    BY <2>5
<1>3. Len(p) \in S
  BY <1>1, <1>2, Induction
<1>4. PICK f : f = CHOOSE h : Is(h, Len(p))
  OBVIOUS
<1>5. Is(f, Len(p))
  <2> HIDE DEF Is
  <2> QED
    BY <1>3, <1>4
<1>6. \A i \in 0..Len(p) : f[i] = IF i = 0 THEN <<>> ELSE f[i - 1] \o p[i]
  BY <1>5
<1>7. 0 \in 0..Len(p) /\ \A i \in 1..Len(p) : i \in 0..Len(p) /\ i # 0
  OBVIOUS
<1>8. IsJoin(f, p)
  BY <1>6, <1>7, Zenon DEF IsJoin
<1>9. Joins(p) = f
  BY <1>4, Zenon DEF Joins
<1> QED
  BY <1>8, <1>9, Zenon

\* The loop of ReadEntries.
IsRead(f, b, bytes, at, n) ==
    /\ f[0] = [at |-> at, map |-> <<>>, sum |-> 0]
    /\ \A i \in 1..n : f[i] = ReadEntry(b, bytes, f[i - 1])

\* ReadEntries has the result of its loop.
LEMMA ReadLoop ==
    ASSUME NEW b, NEW bytes, NEW at, NEW n \in Nat
    PROVE  \E f : IsRead(f, b, bytes, at, n) /\ ReadEntries(b, bytes, at, n) = f[n]
<1> DEFINE Is(f, m) ==
             f = [i \in 0..m |->
                   IF i = 0 THEN [at |-> at, map |-> <<>>, sum |-> 0]
                   ELSE ReadEntry(b, bytes, f[i - 1])]
           S == {m \in Nat : \E f : Is(f, m)}
<1>1. 0 \in S
  <2> DEFINE f == [i \in 0..0 |-> [at |-> at, map |-> <<>>, sum |-> 0]]
  <2>1. Is(f, 0)
    OBVIOUS
  <2> HIDE DEF f, Is
  <2> QED
    BY <2>1
<1>2. ASSUME NEW m \in Nat, m \in S PROVE m + 1 \in S
  <2>1. PICK f : Is(f, m)
    BY <1>2
  <2> DEFINE last == ReadEntry(b, bytes, f[m])
             g == [i \in 0..(m + 1) |-> IF i <= m THEN f[i] ELSE last]
  <2>2. \A i \in 0..m : f[i] =
        IF i = 0 THEN [at |-> at, map |-> <<>>, sum |-> 0] ELSE ReadEntry(b, bytes, f[i - 1])
    BY <2>1
  <2> HIDE DEF last
  <2>3. (\A i \in 0..m : g[i] = f[i]) /\ g[m + 1] = last
    OBVIOUS
  <2>4. ASSUME NEW i \in 0..(m + 1) PROVE g[i] =
        IF i = 0 THEN [at |-> at, map |-> <<>>, sum |-> 0] ELSE ReadEntry(b, bytes, g[i - 1])
    <3>1. CASE i = m + 1
      <4>1. i # 0 /\ i - 1 = m /\ m \in 0..m
        BY <3>1
      <4> QED
        BY <2>3, <3>1, <4>1 DEF last
    <3>2. CASE i # m + 1
      <4>1. i \in 0..m /\ (i # 0 => i - 1 \in 0..m)
        BY <3>2
      <4> HIDE DEF g
      <4> QED
        BY <2>2, <2>3, <4>1
    <3> QED
      BY <3>1, <3>2
  <2>5. Is(g, m + 1)
    BY <2>4
  <2> HIDE DEF g, Is
  <2> QED
    BY <2>5
<1>3. n \in S
  BY <1>1, <1>2, Induction
<1>4. PICK f : f = CHOOSE h : Is(h, n)
  OBVIOUS
<1>5. Is(f, n)
  <2> HIDE DEF Is
  <2> QED
    BY <1>3, <1>4
<1>6. \A i \in 0..n : f[i] =
      IF i = 0 THEN [at |-> at, map |-> <<>>, sum |-> 0] ELSE ReadEntry(b, bytes, f[i - 1])
  BY <1>5
<1>7. 0 \in 0..n /\ \A i \in 1..n : i \in 0..n /\ i # 0
  OBVIOUS
<1>8. IsRead(f, b, bytes, at, n)
  BY <1>6, <1>7, Zenon DEF IsRead
<1>9. ReadEntries(b, bytes, at, n) = f[n]
  BY <1>4, Zenon DEF ReadEntries
<1> QED
  BY <1>8, <1>9, Zenon

\* The loop of Loaded.
IsLoad(f, b, heap, k, bytes) ==
    /\ f[0] = [at |-> 0, map |-> <<>>]
    /\ \A i \in 1..Len(bytes) : f[i] = LoadRecord(b, heap, k, bytes, f[i - 1])

\* Loaded has the result of its loop.
LEMMA LoadLoop ==
    ASSUME NEW b, NEW heap, NEW k, NEW bytes, Len(bytes) \in Nat
    PROVE  \E f : IsLoad(f, b, heap, k, bytes) /\ Loaded(b, heap, k, bytes) = f[Len(bytes)].map
<1> DEFINE Is(f, m) ==
             f = [i \in 0..m |->
                   IF i = 0 THEN [at |-> 0, map |-> <<>>]
                   ELSE LoadRecord(b, heap, k, bytes, f[i - 1])]
           S == {m \in Nat : \E f : Is(f, m)}
<1>1. 0 \in S
  <2> DEFINE f == [i \in 0..0 |-> [at |-> 0, map |-> <<>>]]
  <2>1. Is(f, 0)
    OBVIOUS
  <2> HIDE DEF f, Is
  <2> QED
    BY <2>1
<1>2. ASSUME NEW m \in Nat, m \in S PROVE m + 1 \in S
  <2>1. PICK f : Is(f, m)
    BY <1>2
  <2> DEFINE last == LoadRecord(b, heap, k, bytes, f[m])
             g == [i \in 0..(m + 1) |-> IF i <= m THEN f[i] ELSE last]
  <2>2. \A i \in 0..m : f[i] =
        IF i = 0 THEN [at |-> 0, map |-> <<>>] ELSE LoadRecord(b, heap, k, bytes, f[i - 1])
    BY <2>1
  <2> HIDE DEF last
  <2>3. (\A i \in 0..m : g[i] = f[i]) /\ g[m + 1] = last
    OBVIOUS
  <2>4. ASSUME NEW i \in 0..(m + 1) PROVE g[i] =
        IF i = 0 THEN [at |-> 0, map |-> <<>>] ELSE LoadRecord(b, heap, k, bytes, g[i - 1])
    <3>1. CASE i = m + 1
      <4>1. i # 0 /\ i - 1 = m /\ m \in 0..m
        BY <3>1
      <4> QED
        BY <2>3, <3>1, <4>1 DEF last
    <3>2. CASE i # m + 1
      <4>1. i \in 0..m /\ (i # 0 => i - 1 \in 0..m)
        BY <3>2
      <4> HIDE DEF g
      <4> QED
        BY <2>2, <2>3, <4>1
    <3> QED
      BY <3>1, <3>2
  <2>5. Is(g, m + 1)
    BY <2>4
  <2> HIDE DEF g, Is
  <2> QED
    BY <2>5
<1>3. Len(bytes) \in S
  BY <1>1, <1>2, Induction
<1>4. PICK f : f = CHOOSE h : Is(h, Len(bytes))
  OBVIOUS
<1>5. Is(f, Len(bytes))
  <2> HIDE DEF Is
  <2> QED
    BY <1>3, <1>4
<1>6. \A i \in 0..Len(bytes) : f[i] =
      IF i = 0 THEN [at |-> 0, map |-> <<>>] ELSE LoadRecord(b, heap, k, bytes, f[i - 1])
  BY <1>5
<1>7. 0 \in 0..Len(bytes) /\ \A i \in 1..Len(bytes) : i \in 0..Len(bytes) /\ i # 0
  OBVIOUS
<1>8. IsLoad(f, b, heap, k, bytes)
  BY <1>6, <1>7, Zenon DEF IsLoad
<1>9. Loaded(b, heap, k, bytes) = f[Len(bytes)].map
  BY <1>4, Zenon DEF Loaded
<1> QED
  BY <1>8, <1>9, Zenon

\* The loop of Total.
IsTotal(f, map) ==
    /\ f[0] = 0
    /\ \A i \in 1..Len(Addresses) :
          f[i] = f[i - 1] + (IF Addresses[i] \in DOMAIN map THEN map[Addresses[i]] ELSE 0)

\* Total has the result of its loop.
LEMMA TotalLoop ==
    ASSUME NEW map, Len(Addresses) \in Nat
    PROVE  \E f : IsTotal(f, map) /\ Total(map) = f[Len(Addresses)]
<1> DEFINE Is(f, m) ==
             f = [i \in 0..m |->
                   IF i = 0 THEN 0
                   ELSE f[i - 1] + (IF Addresses[i] \in DOMAIN map THEN map[Addresses[i]] ELSE 0)]
           S == {m \in Nat : \E f : Is(f, m)}
<1>1. 0 \in S
  <2> DEFINE f == [i \in 0..0 |-> 0]
  <2>1. Is(f, 0)
    OBVIOUS
  <2> HIDE DEF f, Is
  <2> QED
    BY <2>1
<1>2. ASSUME NEW m \in Nat, m \in S PROVE m + 1 \in S
  <2>1. PICK f : Is(f, m)
    BY <1>2
  <2> DEFINE last == f[m] + (IF Addresses[m + 1] \in DOMAIN map THEN map[Addresses[m + 1]] ELSE 0)
             g == [i \in 0..(m + 1) |-> IF i <= m THEN f[i] ELSE last]
  <2>2. \A i \in 0..m : f[i] =
        IF i = 0 THEN 0
        ELSE f[i - 1] + (IF Addresses[i] \in DOMAIN map THEN map[Addresses[i]] ELSE 0)
    BY <2>1
  <2> HIDE DEF last
  <2>3. (\A i \in 0..m : g[i] = f[i]) /\ g[m + 1] = last
    OBVIOUS
  <2>4. ASSUME NEW i \in 0..(m + 1) PROVE g[i] =
        IF i = 0 THEN 0
        ELSE g[i - 1] + (IF Addresses[i] \in DOMAIN map THEN map[Addresses[i]] ELSE 0)
    <3>1. CASE i = m + 1
      <4>1. i # 0 /\ i - 1 = m /\ m \in 0..m
        BY <3>1
      <4> QED
        BY <2>3, <3>1, <4>1 DEF last
    <3>2. CASE i # m + 1
      <4>1. i \in 0..m /\ (i # 0 => i - 1 \in 0..m)
        BY <3>2
      <4> HIDE DEF g
      <4> QED
        BY <2>2, <2>3, <4>1
    <3> QED
      BY <3>1, <3>2
  <2>5. Is(g, m + 1)
    BY <2>4
  <2> HIDE DEF g, Is
  <2> QED
    BY <2>5
<1>3. Len(Addresses) \in S
  BY <1>1, <1>2, Induction
<1>4. PICK f : f = CHOOSE h : Is(h, Len(Addresses))
  OBVIOUS
<1>5. Is(f, Len(Addresses))
  <2> HIDE DEF Is
  <2> QED
    BY <1>3, <1>4
<1>6. \A i \in 0..Len(Addresses) : f[i] =
      IF i = 0 THEN 0 ELSE f[i - 1] + (IF Addresses[i] \in DOMAIN map THEN map[Addresses[i]] ELSE 0)
  BY <1>5
<1>7. 0 \in 0..Len(Addresses) /\ \A i \in 1..Len(Addresses) : i \in 0..Len(Addresses) /\ i # 0
  OBVIOUS
<1>8. IsTotal(f, map)
  BY <1>6, <1>7, Zenon DEF IsTotal
<1>9. Total(map) = f[Len(Addresses)]
  BY <1>4, Zenon DEF Total
<1> QED
  BY <1>8, <1>9, Zenon

-----------------------------------------------------------------------------
(* What the loops over maps write *)

\* Induction up to a number.
LEMMA InductionTo ==
    ASSUME NEW n \in Nat, NEW S, 0 \in S, \A m \in Nat : m < n /\ m \in S => m + 1 \in S
    PROVE  \A m \in 0..n : m \in S
<1> DEFINE T == {m \in Nat : m <= n => m \in S}
<1>1. 0 \in T
  OBVIOUS
<1>2. ASSUME NEW m \in Nat, m \in T PROVE m + 1 \in T
  BY <1>2
<1>3. Nat \subseteq T
  BY <1>1, <1>2, Induction
<1> QED
  BY <1>3

\* The pieces are joined to bytes, each of them stands behind those in front of it, and none is
\* beyond the end.
LEMMA JoinsAt ==
    ASSUME NEW p, Len(p) \in Nat, \A i \in 1..Len(p) : p[i] \in Bytes
    PROVE  /\ Joins(p)[0] = <<>>
           /\ \A i \in 0..Len(p) : Joins(p)[i] \in Bytes
           /\ \A i \in 1..Len(p) : /\ Len(Joins(p)[i]) = Len(Joins(p)[i - 1]) + Len(p[i])
                                   /\ At(Joined(p), Len(Joins(p)[i - 1]), p[i])
<1>1. PICK J : IsJoin(J, p) /\ Joins(p) = J
  BY JoinsLoop
<1> DEFINE P(m) == /\ J[m] \in Bytes
                   /\ \A i \in 1..m : /\ J[i - 1] \in Bytes
                                      /\ Len(J[i]) = Len(J[i - 1]) + Len(p[i])
                                      /\ At(J[m], Len(J[i - 1]), p[i])
<1>2. P(0)
  <2>1. <<>> \in Bytes /\ 1..0 = {}
    BY DEF Bytes
  <2> QED
    BY <1>1, <2>1, Zenon DEF IsJoin
<1>3. ASSUME NEW m \in Nat, m < Len(p), P(m) PROVE P(m + 1)
  <2>1. /\ J[m] \in Bytes
        /\ \A i \in 1..m : /\ J[i - 1] \in Bytes
                           /\ Len(J[i]) = Len(J[i - 1]) + Len(p[i])
                           /\ At(J[m], Len(J[i - 1]), p[i])
    BY <1>3, Zenon
  <2>2. m + 1 \in 1..Len(p) /\ (m + 1) - 1 = m /\ p[m + 1] \in Bytes
    BY <1>3
  <2>3. J[m + 1] = J[m] \o p[m + 1]
    BY <1>1, <2>2 DEF IsJoin
  <2>4. J[m + 1] \in Bytes /\ Len(J[m + 1]) = Len(J[m]) + Len(p[m + 1])
    BY <2>1, <2>2, <2>3, JoinLen
  <2>5. ASSUME NEW i \in 1..(m + 1)
        PROVE  /\ J[i - 1] \in Bytes
               /\ Len(J[i]) = Len(J[i - 1]) + Len(p[i])
               /\ At(J[m + 1], Len(J[i - 1]), p[i])
    <3>1. CASE i = m + 1
      <4>1. At(J[m] \o p[m + 1], Len(J[m]), p[m + 1])
        BY <2>1, <2>2, AtEnd
      <4> QED
        BY <2>1, <2>2, <2>3, <2>4, <3>1, <4>1
    <3>2. CASE i # m + 1
      <4>1. i \in 1..m /\ i \in 1..Len(p)
        BY <1>3, <3>2
      <4>2. /\ J[i - 1] \in Bytes /\ Len(J[i]) = Len(J[i - 1]) + Len(p[i])
            /\ At(J[m], Len(J[i - 1]), p[i]) /\ p[i] \in Bytes
        BY <2>1, <4>1
      <4>3. Len(J[i - 1]) \in Nat
        BY <4>2 DEF Bytes
      <4>4. At(J[m] \o p[m + 1], Len(J[i - 1]), p[i])
        BY <2>1, <2>2, <4>2, <4>3, AtLeft
      <4> QED
        BY <2>3, <4>2, <4>4
    <3> QED
      BY <3>1, <3>2
  <2> QED
    BY <2>4, <2>5, Zenon
<1>4. \A m \in 0..Len(p) : P(m)
  <2> DEFINE I == {m \in Nat : P(m)}
  <2> HIDE DEF P
  <2>1. 0 \in I /\ \A m \in Nat : m < Len(p) /\ m \in I => m + 1 \in I
    BY <1>2, <1>3
  <2>2. \A m \in 0..Len(p) : m \in I
    <3> HIDE DEF I
    <3> QED
      BY <2>1, InductionTo
  <2> QED
    BY <2>2
<1>5. \A m \in 0..Len(p) : J[m] \in Bytes
  BY <1>4, Zenon
<1>6. Len(p) \in 0..Len(p)
  OBVIOUS
<1>7. \A i \in 1..Len(p) : /\ Len(J[i]) = Len(J[i - 1]) + Len(p[i])
                           /\ At(J[Len(p)], Len(J[i - 1]), p[i])
  BY <1>4, <1>6, Zenon
<1> QED
  BY <1>1, <1>5, <1>7, Zenon DEF Joined, IsJoin

\* The first keys of a set in an order.
Upto(order, S, i) == {order[j] : j \in 1..i} \cap S

\* One more place of the order has one key more, or none.
LEMMA UptoNext ==
    ASSUME NEW order, Len(order) \in Nat, Distinct(order), NEW S, NEW i \in 1..Len(order)
    PROVE  IF order[i] \in S
           THEN /\ Upto(order, S, i) = Upto(order, S, i - 1) \cup {order[i]}
                /\ order[i] \notin Upto(order, S, i - 1)
           ELSE Upto(order, S, i) = Upto(order, S, i - 1)
<1>1. {order[j] : j \in 1..i} = {order[j] : j \in 1..(i - 1)} \cup {order[i]}
  OBVIOUS
<1>2. order[i] \notin {order[j] : j \in 1..(i - 1)}
  BY DEF Distinct
<1> QED
  BY <1>1, <1>2 DEF Upto

\* Their number.
LEMMA UptoSize ==
    ASSUME NEW order, Len(order) \in Nat, Distinct(order), NEW S
    PROVE  \A i \in 0..Len(order) :
              /\ IsFiniteSet(Upto(order, S, i)) /\ Cardinality(Upto(order, S, i)) \in 0..i
              /\ i > 0 => Cardinality(Upto(order, S, i)) =
                            Cardinality(Upto(order, S, i - 1)) + (IF order[i] \in S THEN 1 ELSE 0)
<1> DEFINE U(i) == Upto(order, S, i)
           P(i) == /\ IsFiniteSet(U(i)) /\ Cardinality(U(i)) \in 0..i
                   /\ i > 0 => Cardinality(U(i)) =
                                 Cardinality(U(i - 1)) + (IF order[i] \in S THEN 1 ELSE 0)
<1>1. P(0)
  <2>1. U(0) = {}
    BY DEF Upto
  <2> HIDE DEF U
  <2> QED
    BY <2>1, FS_EmptySet
<1>2. ASSUME NEW i \in Nat, i < Len(order), P(i) PROVE P(i + 1)
  <2>1. IsFiniteSet(U(i)) /\ Cardinality(U(i)) \in 0..i
    BY <1>2
  <2>2. i + 1 \in 1..Len(order) /\ (i + 1) - 1 = i
    BY <1>2
  <2>3. IF order[i + 1] \in S THEN U(i + 1) = U(i) \cup {order[i + 1]} /\ order[i + 1] \notin U(i)
                              ELSE U(i + 1) = U(i)
    BY <2>2, UptoNext
  <2> HIDE DEF U
  <2>4. CASE order[i + 1] \in S
    <3>1. IsFiniteSet(U(i + 1)) /\ Cardinality(U(i + 1)) = Cardinality(U(i)) + 1
      BY <2>1, <2>3, <2>4, FS_AddElement
    <3> QED
      BY <2>1, <2>2, <2>4, <3>1
  <2>5. CASE order[i + 1] \notin S
    BY <2>1, <2>2, <2>3, <2>5
  <2> QED
    BY <2>4, <2>5
<1>3. \A i \in 0..Len(order) : P(i)
  <2> DEFINE I == {i \in Nat : P(i)}
  <2> HIDE DEF P
  <2>1. 0 \in I /\ \A i \in Nat : i < Len(order) /\ i \in I => i + 1 \in I
    BY <1>1, <1>2
  <2>2. \A i \in 0..Len(order) : i \in I
    <3> HIDE DEF I
    <3> QED
      BY <2>1, InductionTo
  <2> QED
    BY <2>2
<1> QED
  BY <1>3

-----------------------------------------------------------------------------
(* What is left of amounts *)

\* What bytes2uint64 makes of an amount.
Low(b, u) == BitOr(u % Half, Shifted(b, u \div Half))

\* What becomes of an amount: at most what it was, a 32-bit number, and unchanged if it was one.
Kept(new, old) == new \in 0..Half - 1 /\ new <= old /\ (old < Half => new = old)

\* Whatever the build makes of the shift.
LEMMA LowKept ==
    ASSUME NEW b, NEW u \in Amounts
    PROVE  Kept(Low(b, u), u) /\ Low(b, u) \in Amounts /\ Low(b, Low(b, u)) = Low(b, u)
<1>1. ASSUME NEW v \in Amounts PROVE Kept(Low(b, v), v) /\ Low(b, v) \in Amounts
  <2> DEFINE low == v % Half
             high == v \div Half
             top == Shifted(b, high)
  <2>1. low \in 0..Half - 1 /\ high \in 0..Half - 1 /\ low + high <= v
    BY Halves
  <2>2. v < Half => low = v /\ high = 0
    BY Halves
  <2> HIDE DEF low, high
  <2>3. top \in 0..Half - 1 /\ top <= high /\ (high = 0 => top = 0)
    BY <2>1, Sizes DEF Shifted
  <2> HIDE DEF top
  <2>4. BitOr(low, top) \in 0..Half - 1 /\ BitOr(low, top) <= low + top /\ BitOr(low, 0) = low
    BY <2>1, <2>3, BitOrAssumption
  <2>5. BitOr(low, top) <= v /\ (v < Half => BitOr(low, top) = v) /\ BitOr(low, top) \in Amounts
    BY <2>1, <2>2, <2>3, <2>4, Sizes DEF Amounts
  <2>6. Low(b, v) = BitOr(low, top)
    BY DEF Low, low, high, top
  <2> QED
    BY <2>4, <2>5, <2>6 DEF Kept
<1>2. Kept(Low(b, u), u) /\ Low(b, u) \in Amounts
  BY <1>1
<1>3. Kept(Low(b, Low(b, u)), Low(b, u))
  BY <1>1, <1>2
<1>4. Low(b, Low(b, u)) = Low(b, u)
  BY <1>2, <1>3, Sizes DEF Kept
<1> QED
  BY <1>2, <1>4

\* bytes2uint64 reads an amount that uint2bytes64 has written so.
LEMMA AmountRead ==
    ASSUME NEW b, NEW bytes \in Bytes, NEW at \in Nat, NEW u \in Amounts,
           At(bytes, at, Uint2bytes64(u))
    PROVE  Bytes2uint64(b, bytes, at) = Low(b, u)
<1> DEFINE low == u % Half
           high == u \div Half
<1>1. low \in 0..Half - 1 /\ high \in 0..Half - 1
  BY Halves
<1>2. Uint2bytes(low) \in Bytes /\ Uint2bytes(high) \in Bytes /\ Uint2bytes64(u) \in Bytes
  BY <1>1, Digits, EightBytes DEF Bytes
<1>3. At(Uint2bytes64(u), 0, Uint2bytes(low)) /\ At(Uint2bytes64(u), 4, Uint2bytes(high))
  BY EightBytes
<1> HIDE DEF low, high
<1>4. At(bytes, at + 0, Uint2bytes(low)) /\ At(bytes, at + 4, Uint2bytes(high))
  BY <1>2, <1>3, AtInside
<1>5. Bytes2uint(bytes, at) = low /\ Bytes2uint(bytes, at + 4) = high
  <2>1. Len(bytes) \in Nat /\ at + 0 = at /\ at + 4 \in Nat
    BY DEF Bytes
  <2> QED
    BY <1>1, <1>4, <2>1, NumberKept
<1> QED
  BY <1>5 DEF Bytes2uint64, Low, low, high

-----------------------------------------------------------------------------
(* Keys *)

\* An order that ends with n keys or more has had n of them at some place.
LEMMA Reached ==
    ASSUME NEW order, Len(order) \in Nat, Distinct(order), NEW S, NEW n \in Nat,
           n <= Cardinality(Upto(order, S, Len(order)))
    PROVE  \E i \in 0..Len(order) : Cardinality(Upto(order, S, i)) = n
<1> DEFINE C(i) == Cardinality(Upto(order, S, i))
           P(i) == n <= C(i) => \E j \in 0..i : C(j) = n
<1>0. \A i \in 0..Len(order) :
          C(i) \in 0..i /\ (i > 0 => C(i) = C(i - 1) + (IF order[i] \in S THEN 1 ELSE 0))
  BY UptoSize, Zenon
<1> HIDE DEF C
<1>1. \A i \in 0..Len(order) : C(i) \in 0..i /\ (i > 0 => C(i) = C(i - 1) \/ C(i) = C(i - 1) + 1)
  <2> TAKE i \in 0..Len(order)
  <2>1. C(i) \in 0..i
    BY <1>0
  <2>2. i > 0 => C(i) = C(i - 1) \/ C(i) = C(i - 1) + 1
    <3> SUFFICES ASSUME i > 0 PROVE C(i) = C(i - 1) \/ C(i) = C(i - 1) + 1
      OBVIOUS
    <3>1. i - 1 \in 0..Len(order)
      OBVIOUS
    <3>2. C(i) = C(i - 1) + (IF order[i] \in S THEN 1 ELSE 0) /\ C(i - 1) \in Int
      BY <1>0, <3>1
    <3> QED
      BY <3>2
  <2> QED
    BY <2>1, <2>2
<1>2. P(0)
  BY <1>1
<1>3. ASSUME NEW i \in Nat, i < Len(order), P(i) PROVE P(i + 1)
  <2> SUFFICES ASSUME n <= C(i + 1) PROVE \E j \in 0..(i + 1) : C(j) = n
    OBVIOUS
  <2>1. i \in 0..Len(order) /\ i + 1 \in 0..Len(order) /\ (i + 1) - 1 = i /\ i + 1 > 0
    BY <1>3
  <2>2. C(i) \in Nat /\ (C(i + 1) = C(i) \/ C(i + 1) = C(i) + 1)
    BY <1>1, <2>1
  <2>3. CASE n <= C(i)
    <3>1. PICK j \in 0..i : C(j) = n
      BY <1>3, <2>3
    <3>2. j \in 0..(i + 1)
      OBVIOUS
    <3> QED
      BY <3>1, <3>2
  <2>4. CASE ~(n <= C(i))
    <3>1. C(i + 1) = n /\ i + 1 \in 0..(i + 1)
      BY <2>2, <2>4
    <3> QED
      BY <3>1
  <2> QED
    BY <2>3, <2>4
<1>4. \A i \in 0..Len(order) : P(i)
  <2> DEFINE I == {i \in Nat : P(i)}
  <2> HIDE DEF P
  <2>1. 0 \in I /\ \A i \in Nat : i < Len(order) /\ i \in I => i + 1 \in I
    BY <1>2, <1>3
  <2>2. \A i \in 0..Len(order) : i \in I
    <3> HIDE DEF I
    <3> QED
      BY <2>1, InductionTo
  <2> QED
    BY <2>2
<1>5. P(Len(order))
  BY <1>4
<1> QED
  BY <1>5 DEF C

\* All keys of an order.
Members(order) == {order[i] : i \in 1..Len(order)}

\* The first n keys of a set in an order.
First(order, S, n) ==
    Upto(order, S, CHOOSE i \in 0..Len(order) : Cardinality(Upto(order, S, i)) = n)

\* There are n of them, all if n is their number.
LEMMA FirstKeys ==
    ASSUME NEW order, Len(order) \in Nat, Distinct(order), NEW S, S \subseteq Members(order)
    PROVE  /\ IsFiniteSet(S) /\ Cardinality(S) \in Nat /\ Upto(order, S, Len(order)) = S
           /\ \A n \in 0..Cardinality(S) : /\ First(order, S, n) \subseteq S
                                           /\ Cardinality(First(order, S, n)) = n
                                           /\ n = Cardinality(S) => First(order, S, n) = S
<1>1. Upto(order, S, Len(order)) = S
  BY DEF Upto, Members
<1>2. IsFiniteSet(S) /\ Cardinality(S) \in Nat
  <2>1. Len(order) \in 0..Len(order)
    OBVIOUS
  <2> QED
    BY <1>1, <2>1, UptoSize
<1>3. ASSUME NEW n \in 0..Cardinality(S)
      PROVE  /\ First(order, S, n) \subseteq S
             /\ Cardinality(First(order, S, n)) = n
             /\ n = Cardinality(S) => First(order, S, n) = S
  <2>1. \E i \in 0..Len(order) : Cardinality(Upto(order, S, i)) = n
    BY <1>1, <1>2, Reached
  <2>2. Cardinality(First(order, S, n)) = n
    BY <2>1, Zenon DEF First
  <2>3. First(order, S, n) \subseteq S
    BY DEF First, Upto
  <2>4. First(order, S, n) \in SUBSET S
    BY <2>3
  <2>5. n = Cardinality(S) => First(order, S, n) = S
    BY <1>2, <2>2, <2>4, FS_Subset
  <2> QED
    BY <2>2, <2>3, <2>5
<1> QED
  BY <1>1, <1>2, <1>3

-----------------------------------------------------------------------------
(* Payouts and credits *)

\* Addresses and their lengths.
LEMMA AddressBytes ==
    /\ Len(Addresses) \in Nat /\ Distinct(Addresses) /\ AddressSet = Members(Addresses)
    /\ \A i \in 1..Len(Addresses) : Addresses[i] \in AddressSet
    /\ \A a \in AddressSet : a \in Bytes /\ Len(a) \in Nat
<1>1. Len(Addresses) \in Nat /\ Distinct(Addresses)
  BY AddressAssumption
<1>2. AddressSet = Members(Addresses) /\ \A i \in 1..Len(Addresses) : Addresses[i] \in AddressSet
  BY DEF AddressSet, Members
<1>3. ASSUME NEW a \in AddressSet PROVE a \in Bytes /\ Len(a) \in Nat
  <2>1. PICK i \in 1..Len(Addresses) : a = Addresses[i]
    BY DEF AddressSet
  <2>2. a \in Bytes
    BY <2>1, AddressAssumption, ElementOfSeq, Zenon DEF Bytes
  <2>3. Len(a) \in Nat
    BY <2>2 DEF Bytes
  <2> QED
    BY <2>2, <2>3
<1> QED
  BY <1>1, <1>2, <1>3

\* ReadEntry reads the entry of a and u.
ReadsEntry(b, bytes, a, u, at, map, sum) ==
    ReadEntry(b, bytes, [at |-> at, map |-> map, sum |-> sum]) =
        [at |-> at + Len(Entry(a, u)), map |-> Put(map, a, Low(b, u)), sum |-> sum + Low(b, u)]

\* One entry, and how it is read if the length of its address fits a byte.
LEMMA EntryRead ==
    ASSUME NEW a \in AddressSet, NEW u \in Amounts
    PROVE  /\ Entry(a, u) \in Bytes /\ Len(Entry(a, u)) = Len(a) + 9
           /\ \A b : \A bytes \in Bytes : \A at \in Nat : \A map, sum :
                Len(a) < Byte /\ At(bytes, at, Entry(a, u)) =>
                    ReadsEntry(b, bytes, a, u, at, map, sum)
<1> DEFINE N == <<Len(a) % Byte>>
           U == Uint2bytes64(u)
<1>1. a \in Bytes /\ Len(a) \in Nat
  BY AddressBytes, Sizes
<1>2. Len(a) % Byte \in 0..Byte - 1 /\ (Len(a) < Byte => Len(a) % Byte = Len(a))
  BY <1>1, Sizes
<1>3. N \in Bytes /\ Len(N) = 1 /\ (Len(a) < Byte => N[1] = Len(a))
  BY <1>1, <1>2 DEF Bytes
<1>4. U \in Bytes /\ Len(U) = 8
  BY EightBytes
<1>5. Entry(a, u) = (N \o a) \o U
  BY DEF Entry
<1> HIDE DEF N, U
<1>6. N \o a \in Bytes /\ Len(N \o a) = 1 + Len(a) /\ At(N \o a, 0, N) /\ At(N \o a, 1, a)
  <2>1. N \o a \in Bytes /\ Len(N \o a) = Len(N) + Len(a)
    BY <1>1, <1>3, JoinLen, Zenon
  <2>2. At(N \o a, 0, N)
    BY <1>1, <1>3, AtStart, AtLeft
  <2>3. At(N \o a, Len(N), a)
    BY <1>1, <1>3, AtEnd
  <2> QED
    BY <1>3, <2>1, <2>2, <2>3
<1> DEFINE E == (N \o a) \o U
<1>7. /\ E \in Bytes /\ Len(E) = Len(a) + 9
      /\ At(E, 0, N) /\ At(E, 1, a) /\ At(E, 1 + Len(a), U)
  <2>1. E \in Bytes /\ Len(E) = Len(N \o a) + Len(U)
    BY <1>4, <1>6, JoinLen, Zenon
  <2>2. At(E, 0, N) /\ At(E, 1, a)
    BY <1>1, <1>3, <1>4, <1>6, AtLeft
  <2>3. At(E, Len(N \o a), U)
    BY <1>4, <1>6, AtEnd
  <2> QED
    BY <1>1, <1>4, <1>6, <2>1, <2>2, <2>3
<1> HIDE DEF E
<1>8. ASSUME NEW b, NEW bytes \in Bytes, NEW at \in Nat, NEW map, NEW sum, Len(a) < Byte,
             At(bytes, at, E)
      PROVE  ReadEntry(b, bytes, [at |-> at, map |-> map, sum |-> sum]) =
                [at |-> at + Len(E), map |-> Put(map, a, Low(b, u)), sum |-> sum + Low(b, u)]
  <2>1. At(bytes, at + 0, N) /\ At(bytes, at + 1, a) /\ At(bytes, at + (1 + Len(a)), U)
    BY <1>1, <1>3, <1>4, <1>7, <1>8, AtInside
  <2>2. bytes[at + 1] = Len(a)
    BY <1>3, <1>8, <2>1 DEF At
  <2>3. Slice(bytes, at + 1, at + 1 + Len(a)) = a
    BY <1>1, <2>1, SliceIs
  <2>4. Bytes2uint64(b, bytes, at + 1 + Len(a)) = Low(b, u)
    <3>1. at + 1 + Len(a) \in Nat /\ at + 1 + Len(a) = at + (1 + Len(a))
      BY <1>1
    <3> QED
      BY <2>1, <3>1, AmountRead DEF U
  <2>5. at + Len(a) + 9 = at + Len(E)
    BY <1>1, <1>7
  <2> DEFINE acc == [at |-> at, map |-> map, sum |-> sum]
  <2>6. acc.at = at /\ acc.map = map /\ acc.sum = sum
    OBVIOUS
  <2> HIDE DEF acc
  <2>7. ReadEntry(b, bytes, acc) =
           [at |-> at + Len(E), map |-> Put(map, a, Low(b, u)), sum |-> sum + Low(b, u)]
    BY <2>2, <2>3, <2>4, <2>5, <2>6, Zenon DEF ReadEntry
  <2> QED
    BY <2>7 DEF acc
<1>9. Entry(a, u) = E
  BY <1>5 DEF E
<1>10. ASSUME NEW b, NEW bytes \in Bytes, NEW at \in Nat, NEW map, NEW sum, Len(a) < Byte,
              At(bytes, at, Entry(a, u))
       PROVE  ReadsEntry(b, bytes, a, u, at, map, sum)
  <2>1. At(bytes, at, E)
    BY <1>9, <1>10
  <2> QED
    BY <1>8, <1>9, <1>10, <2>1, Zenon DEF ReadsEntry
<1>11. Entry(a, u) \in Bytes /\ Len(Entry(a, u)) = Len(a) + 9
  BY <1>7, <1>9
<1> QED
  BY <1>10, <1>11

\* The entries of a map one after the other: what the first i addresses have contributed.
EntryPieces(map) ==
    [i \in 1..Len(Addresses) |->
        IF Addresses[i] \in DOMAIN map THEN Entry(Addresses[i], map[Addresses[i]]) ELSE <<>>]

\* The bytes of the entries of a map, and their number.
LEMMA EntryBytes ==
    ASSUME NEW map, IsMap(map)
    PROVE  LET p == EntryPieces(map) IN
           /\ Len(p) = Len(Addresses) /\ Entries(map) = Joined(p)
           /\ Joins(p)[0] = <<>> /\ Entries(map) \in Bytes
           /\ \A i \in 0..Len(Addresses) : Joins(p)[i] \in Bytes
           /\ \A i \in 1..Len(Addresses) :
                 /\ p[i] \in Bytes
                 /\ Addresses[i] \in DOMAIN map => Len(p[i]) = Len(Addresses[i]) + 9
                 /\ Addresses[i] \notin DOMAIN map => p[i] = <<>>
                 /\ Len(Joins(p)[i]) = Len(Joins(p)[i - 1]) + Len(p[i])
                 /\ At(Entries(map), Len(Joins(p)[i - 1]), p[i])
<1> DEFINE p == EntryPieces(map)
<1>1. Len(Addresses) \in Nat /\ Len(p) = Len(Addresses)
  BY AddressBytes DEF EntryPieces
<1>2. Entries(map) = Joined(p)
  BY Zenon DEF Entries, EntryPieces
<1>3. ASSUME NEW i \in 1..Len(Addresses)
      PROVE  /\ p[i] \in Bytes
             /\ Addresses[i] \in DOMAIN map => Len(p[i]) = Len(Addresses[i]) + 9
             /\ Addresses[i] \notin DOMAIN map => p[i] = <<>>
  <2>1. CASE Addresses[i] \in DOMAIN map
    <3> DEFINE a == Addresses[i]
    <3>1. a \in AddressSet /\ map[a] \in Amounts /\ p[i] = Entry(a, map[a])
      BY <2>1 DEF IsMap, EntryPieces
    <3>2. Entry(a, map[a]) \in Bytes /\ Len(Entry(a, map[a])) = Len(a) + 9
      BY <3>1, EntryRead
    <3> QED
      BY <2>1, <3>1, <3>2
  <2>2. CASE Addresses[i] \notin DOMAIN map
    BY <2>2 DEF EntryPieces, Bytes
  <2> QED
    BY <2>1, <2>2
<1> HIDE DEF p
<1>4. /\ Joins(p)[0] = <<>>
      /\ \A i \in 0..Len(p) : Joins(p)[i] \in Bytes
      /\ \A i \in 1..Len(p) : /\ Len(Joins(p)[i]) = Len(Joins(p)[i - 1]) + Len(p[i])
                              /\ At(Joined(p), Len(Joins(p)[i - 1]), p[i])
  BY <1>1, <1>3, JoinsAt
<1>5. Joined(p) \in Bytes
  BY <1>1, <1>4 DEF Joined
<1> QED
  BY <1>1, <1>2, <1>3, <1>4, <1>5 DEF p

\* Within the limits there are at most 255 entries of at most 255 + 9 bytes.
LEMMA EntriesLength ==
    ASSUME NEW map, IsMap(map)
    PROVE  /\ Entries(map) \in Bytes /\ Len(Entries(map)) \in Nat
           /\ FitsMap(map) => Len(Entries(map)) <= (Byte - 1) * (Byte + 8)
<1> DEFINE p == EntryPieces(map)
           J(i) == Len(Joins(p)[i])
           C(i) == Cardinality(Upto(Addresses, DOMAIN map, i))
           d == Byte + 8
           P(i) == J(i) \in Nat /\ J(i) <= C(i) * d
<1>1. /\ Joins(p)[0] = <<>> /\ Entries(map) = Joins(p)[Len(Addresses)] /\ Len(Addresses) \in Nat
      /\ \A i \in 0..Len(Addresses) : Joins(p)[i] \in Bytes
  BY EntryBytes, AddressBytes DEF Joined
<1>2. Entries(map) \in Bytes /\ Len(Entries(map)) \in Nat
  BY <1>1 DEF Bytes
<1> SUFFICES ASSUME FitsMap(map) PROVE Len(Entries(map)) <= (Byte - 1) * (Byte + 8)
  BY <1>2
<1>3. ASSUME NEW i \in 1..Len(Addresses)
      PROVE  /\ J(i) = J(i - 1) + Len(p[i])
             /\ Len(p[i]) \in 0..(IF Addresses[i] \in DOMAIN map THEN d ELSE 0)
  <2>1. /\ J(i) = J(i - 1) + Len(p[i])
        /\ Addresses[i] \in DOMAIN map => Len(p[i]) = Len(Addresses[i]) + 9
        /\ Addresses[i] \notin DOMAIN map => p[i] = <<>>
    BY EntryBytes
  <2>2. CASE Addresses[i] \in DOMAIN map
    <3>1. Len(Addresses[i]) \in Nat /\ Len(Addresses[i]) < Byte
      BY <2>2, AddressBytes DEF FitsMap, Aligned
    <3> QED
      BY <2>1, <2>2, <3>1, Sizes
  <2>3. CASE Addresses[i] \notin DOMAIN map
    BY <2>1, <2>3
  <2> QED
    BY <2>2, <2>3
<1>4. \A i \in 0..Len(Addresses) :
         /\ C(i) \in Nat
         /\ i > 0 => C(i) = C(i - 1) + (IF Addresses[i] \in DOMAIN map THEN 1 ELSE 0)
  BY AddressBytes, UptoSize
<1>5. J(0) = 0
  BY <1>1
<1>6. d \in Nat
  BY Sizes
<1>7. C(Len(Addresses)) \in Nat /\ C(Len(Addresses)) <= Byte - 1
  <2>1. Upto(Addresses, DOMAIN map, Len(Addresses)) = DOMAIN map
    BY AddressBytes, FirstKeys DEF IsMap
  <2>2. C(Len(Addresses)) \in Nat
    BY <1>1, <1>4
  <2> QED
    BY <2>1, <2>2, Sizes DEF FitsMap
<1> HIDE DEF p, J, C, d
<1>8. P(0)
  <2>1. C(0) \in Nat
    BY <1>1, <1>4
  <2> QED
    BY <1>5, <1>6, <2>1
<1>9. ASSUME NEW i \in Nat, i < Len(Addresses), P(i) PROVE P(i + 1)
  <2>1. i + 1 \in 1..Len(Addresses) /\ (i + 1) - 1 = i /\ i + 1 > 0
        /\ i \in 0..Len(Addresses) /\ i + 1 \in 0..Len(Addresses)
    BY <1>1, <1>9
  <2>2. J(i + 1) = J(i) + Len(p[i + 1])
    BY <1>3, <2>1
  <2>3. C(i) \in Nat
    BY <1>4, <2>1
  <2>4. CASE Addresses[i + 1] \in DOMAIN map
    <3>1. C(i + 1) = C(i) + 1 /\ Len(p[i + 1]) \in 0..d
      BY <1>3, <1>4, <2>1, <2>4
    <3>2. (C(i) + 1) * d = C(i) * d + d /\ C(i) * d \in Nat
      BY <1>6, <2>3
    <3> QED
      BY <1>6, <1>9, <2>2, <3>1, <3>2
  <2>5. CASE Addresses[i + 1] \notin DOMAIN map
    <3>1. C(i + 1) = C(i) /\ Len(p[i + 1]) = 0
      BY <1>3, <1>4, <2>1, <2>3, <2>5
    <3> QED
      BY <1>9, <2>2, <3>1
  <2> QED
    BY <2>4, <2>5
<1>10. \A i \in 0..Len(Addresses) : P(i)
  <2> DEFINE I == {i \in Nat : P(i)}
  <2> HIDE DEF P
  <2>1. 0 \in I /\ \A i \in Nat : i < Len(Addresses) /\ i \in I => i + 1 \in I
    BY <1>8, <1>9
  <2>2. \A i \in 0..Len(Addresses) : i \in I
    <3> HIDE DEF I
    <3> QED
      BY <1>1, <2>1, InductionTo
  <2> QED
    BY <2>2
<1>11. J(Len(Addresses)) \in Nat /\ J(Len(Addresses)) <= C(Len(Addresses)) * d
  BY <1>1, <1>10
<1>12. C(Len(Addresses)) * d <= (Byte - 1) * d /\ C(Len(Addresses)) * d \in Nat
       /\ (Byte - 1) * d \in Nat
  <2>1. Byte - 1 \in Nat
    BY Sizes
  <2> QED
    BY <1>6, <1>7, <2>1, TimesMonotone
<1>13. J(Len(Addresses)) <= (Byte - 1) * d
  BY <1>11, <1>12
<1> QED
  BY <1>1, <1>13 DEF J, d

\* The sums of amounts are numbers.
LEMMA TotalsType ==
    ASSUME NEW map, IsMap(map), NEW f, IsTotal(f, map)
    PROVE  \A i \in 0..Len(Addresses) : f[i] \in Nat
<1>1. Len(Addresses) \in Nat
  BY AddressBytes
<1> DEFINE P(i) == f[i] \in Nat
<1>2. P(0)
  BY DEF IsTotal
<1>3. ASSUME NEW i \in Nat, i < Len(Addresses), P(i) PROVE P(i + 1)
  <2> DEFINE a == Addresses[i + 1]
             v == IF a \in DOMAIN map THEN map[a] ELSE 0
  <2>1. i + 1 \in 1..Len(Addresses) /\ (i + 1) - 1 = i
    BY <1>1, <1>3
  <2>2. f[i + 1] = f[i] + v
    BY <2>1 DEF IsTotal
  <2>3. v \in Nat
    <3>1. CASE a \in DOMAIN map
      BY <3>1, Sizes DEF IsMap, Amounts
    <3> QED
      BY <3>1
  <2> HIDE DEF v
  <2> QED
    BY <1>3, <2>2, <2>3
<1>4. \A i \in 0..Len(Addresses) : P(i)
  <2> DEFINE I == {i \in Nat : P(i)}
  <2> HIDE DEF P
  <2>1. 0 \in I /\ \A i \in Nat : i < Len(Addresses) /\ i \in I => i + 1 \in I
    BY <1>2, <1>3
  <2>2. \A i \in 0..Len(Addresses) : i \in I
    <3> HIDE DEF I
    <3> QED
      BY <1>1, <2>1, InductionTo
  <2> QED
    BY <2>2
<1> QED
  BY <1>4

LEMMA TotalType == ASSUME NEW map, IsMap(map) PROVE Total(map) \in Nat
<1>1. Len(Addresses) \in Nat
  BY AddressBytes
<1>2. PICK f : IsTotal(f, map) /\ Total(map) = f[Len(Addresses)]
  BY <1>1, TotalLoop
<1> QED
  BY <1>1, <1>2, TotalsType

\* The sum of a map up to a place of the order is that of its part up to there.
LEMMA PartTotal ==
    ASSUME NEW map, IsMap(map), NEW f, IsTotal(f, map), NEW j \in 0..Len(Addresses), NEW part,
           part = [a \in Upto(Addresses, DOMAIN map, j) |-> map[a]]
    PROVE  Total(part) = f[j]
<1>1. Len(Addresses) \in Nat /\ Distinct(Addresses)
  BY AddressBytes
<1>2. PICK g : IsTotal(g, part) /\ Total(part) = g[Len(Addresses)]
  BY <1>1, TotalLoop
<1>3. ASSUME NEW i \in 1..Len(Addresses)
      PROVE  Addresses[i] \in DOMAIN part <=> (i <= j /\ Addresses[i] \in DOMAIN map)
  <2>1. \A m \in 1..Len(Addresses) : Addresses[m] = Addresses[i] => m = i
    BY <1>1 DEF Distinct
  <2> QED
    BY <1>1, <2>1 DEF Upto
<1>4. \A a \in DOMAIN part : part[a] = map[a]
  OBVIOUS
<1>5. /\ g[0] = 0 /\ f[0] = 0
      /\ \A i \in 1..Len(Addresses) :
            /\ g[i] = g[i - 1] + (IF Addresses[i] \in DOMAIN part THEN part[Addresses[i]] ELSE 0)
            /\ f[i] = f[i - 1] + (IF Addresses[i] \in DOMAIN map THEN map[Addresses[i]] ELSE 0)
  BY <1>2, Zenon DEF IsTotal
<1>6. \A i \in 1..Len(Addresses) : Addresses[i] \in DOMAIN map => map[Addresses[i]] \in Nat
  BY Sizes DEF IsMap, Amounts
<1> DEFINE P(i) ==
             g[i] \in Nat /\ f[i] \in Nat /\ (i <= j => g[i] = f[i]) /\ (i >= j => g[i] = f[j])
<1>7. P(0)
  BY <1>5
<1>8. ASSUME NEW i \in Nat, i < Len(Addresses), P(i) PROVE P(i + 1)
  <2> DEFINE a == Addresses[i + 1]
  <2>1. i + 1 \in 1..Len(Addresses) /\ (i + 1) - 1 = i
    BY <1>1, <1>8
  <2>2. /\ g[i + 1] = g[i] + (IF a \in DOMAIN part THEN part[a] ELSE 0)
        /\ f[i + 1] = f[i] + (IF a \in DOMAIN map THEN map[a] ELSE 0)
    BY <1>5, <2>1
  <2>3. a \in DOMAIN part <=> (i + 1 <= j /\ a \in DOMAIN map)
    BY <1>3, <2>1
  <2>4. (a \in DOMAIN part => part[a] = map[a]) /\ (a \in DOMAIN map => map[a] \in Nat)
    BY <1>4, <1>6, <2>1
  <2> HIDE DEF a
  <2>5. CASE i + 1 <= j
    <3>1. g[i + 1] = f[i + 1] /\ f[i + 1] \in Nat
      BY <1>8, <2>2, <2>3, <2>4, <2>5
    <3>2. i + 1 >= j => i + 1 = j
      BY <2>5
    <3> QED
      BY <3>1, <3>2
  <2>6. CASE ~(i + 1 <= j)
    <3>1. i >= j
      BY <2>6
    <3>2. g[i + 1] = g[i] + 0
      BY <2>2, <2>3, <2>6
    <3>3. g[i + 1] = f[j] /\ g[i + 1] \in Nat
      BY <1>8, <3>1, <3>2
    <3>4. f[i + 1] \in Nat
      BY <1>8, <2>2, <2>4
    <3> QED
      BY <2>6, <3>3, <3>4
  <2> QED
    BY <2>5, <2>6
<1>9. \A i \in 0..Len(Addresses) : P(i)
  <2> DEFINE I == {i \in Nat : P(i)}
  <2> HIDE DEF P
  <2>1. 0 \in I /\ \A i \in Nat : i < Len(Addresses) /\ i \in I => i + 1 \in I
    BY <1>7, <1>8
  <2>2. \A i \in 0..Len(Addresses) : i \in I
    <3> HIDE DEF I
    <3> QED
      BY <1>1, <2>1, InductionTo
  <2> QED
    BY <2>2
<1> QED
  BY <1>1, <1>2, <1>9

\* The loops of Coinbase::Deserialize and Credits::Deserialize read the first n of the entries
\* that the loops of Serialize have written, wherever these stand, and add them up, if every
\* length of an address fits its byte.
LEMMA EntriesRead ==
    ASSUME NEW b, NEW map, IsMap(map), Aligned(map), NEW bytes \in Bytes, NEW at \in Nat,
           At(bytes, at, Entries(map)), NEW n \in Nat, n <= Cardinality(DOMAIN map),
           NEW part, part = [a \in First(Addresses, DOMAIN map, n) |-> Low(b, map[a])]
    PROVE  /\ ReadEntries(b, bytes, at, n).map = part
           /\ ReadEntries(b, bytes, at, n).sum = Total(part)
<1> DEFINE p == EntryPieces(map)
           J(i) == Len(Joins(p)[i])
           U(i) == Upto(Addresses, DOMAIN map, i)
           C(i) == Cardinality(U(i))
           M(i) == [a \in U(i) |-> Low(b, map[a])]
           L == [a \in DOMAIN map |-> Low(b, map[a])]
<1>1. /\ Len(Addresses) \in Nat /\ Distinct(Addresses) /\ DOMAIN map \subseteq Members(Addresses)
      /\ \A i \in 1..Len(Addresses) : Addresses[i] \in AddressSet
  BY AddressBytes DEF IsMap
<1>2. /\ Cardinality(DOMAIN map) \in Nat /\ U(Len(Addresses)) = DOMAIN map
  BY <1>1, FirstKeys
<1>3. PICK f : IsRead(f, b, bytes, at, n) /\ ReadEntries(b, bytes, at, n) = f[n]
  BY ReadLoop, Zenon
<1>4. /\ f[0] = [at |-> at, map |-> <<>>, sum |-> 0]
      /\ \A i \in 1..n : f[i] = ReadEntry(b, bytes, f[i - 1])
      /\ ReadEntries(b, bytes, at, n) = f[n]
  BY <1>3, Zenon DEF IsRead
<1>5. /\ \A i \in 0..Len(Addresses) : Joins(p)[i] \in Bytes
      /\ \A i \in 1..Len(Addresses) :
            /\ p[i] \in Bytes /\ J(i) = J(i - 1) + Len(p[i])
            /\ At(Entries(map), J(i - 1), p[i])
      /\ Joins(p)[0] = <<>> /\ Entries(map) \in Bytes
  BY EntryBytes
<1>6. \A i \in 0..Len(Addresses) : J(i) \in Nat
  BY <1>5 DEF Bytes
<1>7. \A i \in 0..Len(Addresses) :
         /\ C(i) \in Nat
         /\ i > 0 => C(i) = C(i - 1) + (IF Addresses[i] \in DOMAIN map THEN 1 ELSE 0)
  BY <1>1, UptoSize
<1>8. \A i \in 1..Len(Addresses) :
         U(i) = IF Addresses[i] \in DOMAIN map THEN U(i - 1) \cup {Addresses[i]} ELSE U(i - 1)
  <2> TAKE i \in 1..Len(Addresses)
  <2>1. CASE Addresses[i] \in DOMAIN map
    BY <1>1, <2>1, UptoNext, Zenon
  <2>2. CASE Addresses[i] \notin DOMAIN map
    BY <1>1, <2>2, UptoNext
  <2> QED
    BY <2>1, <2>2, Zenon
<1>9. \A i \in 1..Len(Addresses) :
         p[i] = IF Addresses[i] \in DOMAIN map THEN Entry(Addresses[i], map[Addresses[i]]) ELSE <<>>
  BY DEF EntryPieces
<1>10. U(0) = {} /\ C(0) = 0
  <2>1. U(0) = {}
    BY DEF Upto
  <2> QED
    BY <2>1, FS_EmptySet
<1>11. J(0) = 0
  BY <1>5
<1>12. M(0) = <<>>
  BY <1>10
<1>13. IsMap(L) /\ DOMAIN L = DOMAIN map /\ \A a \in DOMAIN map : L[a] = Low(b, map[a])
  <2>1. \A a \in DOMAIN map : Low(b, map[a]) \in Amounts
    BY LowKept DEF IsMap
  <2> QED
    BY <2>1 DEF IsMap
<1> HIDE DEF L
<1>14. PICK t : IsTotal(t, L) /\ Total(L) = t[Len(Addresses)]
  BY <1>1, TotalLoop
<1>15. /\ t[0] = 0
       /\ \A i \in 1..Len(Addresses) :
             t[i] = t[i - 1] + (IF Addresses[i] \in DOMAIN L THEN L[Addresses[i]] ELSE 0)
  BY <1>14, Zenon DEF IsTotal
<1>16. \A i \in 1..Len(Addresses) :
          /\ Addresses[i] \in DOMAIN map => t[i] = t[i - 1] + Low(b, map[Addresses[i]])
          /\ Addresses[i] \notin DOMAIN map => t[i] = t[i - 1] + 0
  BY <1>13, <1>15, Zenon
<1>17. \A i \in 0..Len(Addresses) : t[i] \in Nat
  BY <1>13, <1>14, TotalsType
<1> DEFINE P(i) == C(i) <= n => f[C(i)] = [at |-> at + J(i), map |-> M(i), sum |-> t[i]]
<1> HIDE DEF p, J, C, U
<1>18. P(0)
  <2>1. at + J(0) = at
    BY <1>11
  <2> HIDE DEF M
  <2> QED
    BY <1>4, <1>10, <1>12, <1>15, <2>1
<1>19. ASSUME NEW i \in Nat, i < Len(Addresses), P(i) PROVE P(i + 1)
  <2> DEFINE a == Addresses[i + 1]
  <2> SUFFICES ASSUME C(i + 1) <= n
               PROVE  f[C(i + 1)] = [at |-> at + J(i + 1), map |-> M(i + 1), sum |-> t[i + 1]]
    OBVIOUS
  <2>1. /\ i + 1 \in 1..Len(Addresses) /\ (i + 1) - 1 = i /\ i + 1 > 0
        /\ i \in 0..Len(Addresses) /\ i + 1 \in 0..Len(Addresses)
    BY <1>1, <1>19
  <2>2. /\ C(i) \in Nat /\ J(i) \in Nat
        /\ J(i + 1) = J(i) + Len(p[i + 1]) /\ At(Entries(map), J(i), p[i + 1])
        /\ p[i + 1] \in Bytes /\ a \in AddressSet
    BY <1>1, <1>5, <1>6, <1>7, <2>1
  <2>3. CASE a \in DOMAIN map
    <3>1. C(i + 1) = C(i) + 1
      BY <1>7, <2>1, <2>3
    <3>2. p[i + 1] = Entry(a, map[a]) /\ U(i + 1) = U(i) \cup {a} /\ map[a] \in Amounts
      BY <1>8, <1>9, <2>1, <2>3 DEF IsMap
    <3>3. C(i + 1) \in 1..n /\ C(i + 1) - 1 = C(i) /\ C(i) <= n
      BY <2>2, <3>1
    <3>4. f[C(i + 1)] = ReadEntry(b, bytes, [at |-> at + J(i), map |-> M(i), sum |-> t[i]])
      <4> HIDE DEF M
      <4> QED
        BY <1>4, <1>19, <3>3
    <3>5. At(bytes, at + J(i), Entry(a, map[a])) /\ at + J(i) \in Nat
      BY <1>5, <2>2, <3>2, AtInside
    <3>6. M(i + 1) = Put(M(i), a, Low(b, map[a]))
      <4> HIDE DEF a
      <4> QED
        BY <3>2 DEF Put
    <3> HIDE DEF M
    <3>7. ReadEntry(b, bytes, [at |-> at + J(i), map |-> M(i), sum |-> t[i]]) =
             [at |-> (at + J(i)) + Len(Entry(a, map[a])), map |-> Put(M(i), a, Low(b, map[a])),
              sum |-> t[i] + Low(b, map[a])]
      <4> DEFINE m == M(i)
                 q == at + J(i)
                 u == t[i]
      <4>1. At(bytes, q, Entry(a, map[a])) /\ q \in Nat /\ Len(a) < Byte
        BY <2>3, <3>5 DEF Aligned
      <4> HIDE DEF m, q, u
      <4>2. ReadsEntry(b, bytes, a, map[a], q, m, u)
        BY <2>2, <3>2, <4>1, EntryRead
      <4> QED
        BY <4>2, Zenon DEF ReadsEntry, m, q, u
    <3>8. (at + J(i)) + Len(Entry(a, map[a])) = at + J(i + 1)
      <4>1. Len(Entry(a, map[a])) \in Nat
        BY <2>2, <3>2 DEF Bytes
      <4> QED
        BY <2>2, <3>2, <4>1
    <3>9. t[i + 1] = t[i] + Low(b, map[a])
      BY <1>16, <2>1, <2>3
    <3> QED
      BY <3>4, <3>6, <3>7, <3>8, <3>9, Zenon
  <2>4. CASE a \notin DOMAIN map
    <3>1. C(i + 1) = C(i)
      BY <1>7, <2>1, <2>2, <2>4
    <3>2. U(i + 1) = U(i) /\ p[i + 1] = <<>>
      BY <1>8, <1>9, <2>1, <2>4
    <3>3. J(i + 1) = J(i)
      BY <2>2, <3>2
    <3>4. M(i + 1) = M(i)
      BY <3>2
    <3>5. t[i + 1] = t[i]
      BY <1>16, <1>17, <2>1, <2>4
    <3> HIDE DEF M
    <3> QED
      BY <1>19, <3>1, <3>3, <3>4, <3>5
  <2> QED
    BY <2>3, <2>4
<1>20. \A i \in 0..Len(Addresses) : P(i)
  <2> DEFINE I == {i \in Nat : P(i)}
  <2> HIDE DEF P
  <2>1. 0 \in I /\ \A i \in Nat : i < Len(Addresses) /\ i \in I => i + 1 \in I
    BY <1>18, <1>19
  <2>2. \A i \in 0..Len(Addresses) : i \in I
    <3> HIDE DEF I
    <3> QED
      BY <1>1, <2>1, InductionTo
  <2> QED
    BY <2>2
<1> DEFINE j == CHOOSE i \in 0..Len(Addresses) : Cardinality(Upto(Addresses, DOMAIN map, i)) = n
<1>21. j \in 0..Len(Addresses) /\ C(j) = n
  <2>1. \E i \in 0..Len(Addresses) : Cardinality(Upto(Addresses, DOMAIN map, i)) = n
    BY <1>1, <1>2, Reached DEF U
  <2> QED
    BY <2>1, Zenon DEF C, U
<1>22. U(j) = First(Addresses, DOMAIN map, n)
  BY Zenon DEF First, U
<1> HIDE DEF j
<1>23. f[n] = [at |-> at + J(j), map |-> M(j), sum |-> t[j]]
  <2> HIDE DEF M
  <2>1. P(j) /\ n <= n
    BY <1>20, <1>21
  <2> QED
    BY <1>21, <2>1
<1>24. f[n].map = M(j) /\ f[n].sum = t[j]
  <2> HIDE DEF M
  <2> QED
    BY <1>23
<1>25. M(j) = part
  BY <1>22
<1>26. Total(part) = t[j]
  <2>1. U(j) \subseteq DOMAIN map
    BY DEF U, Upto
  <2>2. part = [a \in U(j) |-> L[a]]
    BY <1>13, <1>25, <2>1
  <2> QED
    BY <1>21, <1>13, <1>14, <2>2, PartTotal DEF U
<1> QED
  BY <1>4, <1>24, <1>25, <1>26

\* What a map is after it has been written and read: no more entries than its first byte says.
RestoredMap(b, map) ==
    [a \in First(Addresses, DOMAIN map, Cardinality(DOMAIN map) % Byte) |-> Low(b, map[a])]

\* The keys that are left.
LEMMA KeysLeft ==
    ASSUME NEW map, IsMap(map)
    PROVE  LET n == Cardinality(DOMAIN map) % Byte
               S == First(Addresses, DOMAIN map, n)
           IN  /\ Cardinality(DOMAIN map) \in Nat /\ n \in Nat /\ n < Byte
               /\ n <= Cardinality(DOMAIN map)
               /\ S \subseteq DOMAIN map /\ S \subseteq AddressSet /\ Cardinality(S) = n
               /\ First(Addresses, S, n) = S
               /\ Cardinality(DOMAIN map) < Byte => S = DOMAIN map
<1> DEFINE c == Cardinality(DOMAIN map)
           n == c % Byte
           S == First(Addresses, DOMAIN map, n)
<1>1. /\ Len(Addresses) \in Nat /\ Distinct(Addresses) /\ AddressSet = Members(Addresses)
      /\ DOMAIN map \subseteq AddressSet
  BY AddressBytes DEF IsMap
<1>2. c \in Nat
  BY <1>1, FirstKeys
<1>3. n \in Nat /\ n < Byte /\ n <= c /\ (c < Byte => n = c)
  <2> HIDE DEF c
  <2>1. c \div Byte \in Nat /\ n \in 0..Byte - 1 /\ c = (c \div Byte) * Byte + n
    BY <1>2, Sizes, Division
  <2>2. (c \div Byte) * Byte \in Nat
    BY <2>1, Sizes
  <2>3. c < Byte => n = c
    BY <1>2, Sizes
  <2> HIDE DEF n
  <2> QED
    BY <1>2, <2>1, <2>2, <2>3, Sizes
<1>4. n \in 0..c
  <2> HIDE DEF n, c
  <2> QED
    BY <1>2, <1>3
<1> HIDE DEF n
<1>5. S \subseteq DOMAIN map /\ Cardinality(S) = n /\ (n = c => S = DOMAIN map)
  BY <1>1, <1>4, FirstKeys
<1> HIDE DEF S
<1>6. S \subseteq AddressSet
  BY <1>1, <1>5
<1>7. First(Addresses, S, n) = S
  <2>1. n \in 0..Cardinality(S)
    BY <1>3, <1>5
  <2> QED
    BY <1>1, <1>5, <1>6, <2>1, FirstKeys
<1>8. c < Byte => S = DOMAIN map
  BY <1>3, <1>5
<1> QED
  BY <1>2, <1>3, <1>5, <1>6, <1>7, <1>8 DEF n, S, c

\* It is a map with at most as many entries and at most as large ones, and it is the map itself
\* within the limits of the format.
LEMMA MapRestored ==
    ASSUME NEW b, NEW map, IsMap(map)
    PROVE  /\ IsMap(RestoredMap(b, map)) /\ AtMost(RestoredMap(b, map), map)
           /\ FitsMap(map) => RestoredMap(b, map) = map
<1> DEFINE n == Cardinality(DOMAIN map) % Byte
           S == First(Addresses, DOMAIN map, n)
           R == RestoredMap(b, map)
<1>1. /\ n \in Nat /\ n < Byte /\ S \subseteq DOMAIN map /\ S \subseteq AddressSet
      /\ Cardinality(DOMAIN map) < Byte => S = DOMAIN map
  BY KeysLeft
<1>2. R = [a \in S |-> Low(b, map[a])]
  BY DEF RestoredMap
<1> HIDE DEF n, S, R
<1>3. ASSUME NEW a \in DOMAIN map
      PROVE  /\ map[a] \in Amounts /\ Low(b, map[a]) \in Amounts /\ Low(b, map[a]) <= map[a]
             /\ (map[a] < Half => Low(b, map[a]) = map[a])
  <2>1. map[a] \in Amounts
    BY DEF IsMap
  <2> QED
    BY <2>1, LowKept DEF Kept
<1>4. IsMap(R)
  BY <1>1, <1>2, <1>3 DEF IsMap
<1>5. AtMost(R, map)
  BY <1>1, <1>2, <1>3 DEF AtMost
<1>6. FitsMap(map) => R = map
  <2> SUFFICES ASSUME FitsMap(map) PROVE R = map
    OBVIOUS
  <2>1. S = DOMAIN map /\ \A a \in DOMAIN map : Low(b, map[a]) = map[a]
    BY <1>1, <1>3 DEF FitsMap
  <2>2. map = [a \in DOMAIN map |-> map[a]]
    BY DEF IsMap
  <2> QED
    BY <1>2, <2>1, <2>2
<1> QED
  BY <1>4, <1>5, <1>6 DEF R

\* The number of payouts or credits takes one byte.
LEMMA OneByte ==
    ASSUME NEW map, IsMap(map)
    PROVE  /\ Count(map) \in Bytes /\ Len(Count(map)) = 1
           /\ Count(map)[1] = Cardinality(DOMAIN map) % Byte
<1>1. Cardinality(DOMAIN map) % Byte \in 0..Byte - 1
  BY KeysLeft, Sizes
<1> QED
  BY <1>1 DEF Count, Bytes

\* Whatever the bytes are, bytes2uint reads a 32-bit number from them, and so does bytes2uint64.
LEMMA WordRead ==
    ASSUME NEW b, NEW bytes \in Bytes, NEW at \in Nat
    PROVE  Bytes2uint(bytes, at) \in Words /\ Bytes2uint64(b, bytes, at) \in Words
<1>1. Half \in Nat \ {0} /\ Byte \in Nat /\ Byte2 \in Nat /\ Byte3 \in Nat /\ Len(bytes) \in Nat
  BY Sizes DEF Bytes
<1>2. ASSUME NEW n \in Nat PROVE Bytes2uint(bytes, n) \in Words
  <2>1. CASE Len(bytes) < n + 4
    BY <1>1, <2>1 DEF Bytes2uint, Words
  <2>2. CASE ~(Len(bytes) < n + 4)
    <3> DEFINE x == bytes[n + 1]
               y == bytes[n + 2]
               z == bytes[n + 3]
               w == bytes[n + 4]
               v == x * Byte3 + y * Byte2 + z * Byte + w
    <3>1. n + 1 \in 1..Len(bytes) /\ n + 2 \in 1..Len(bytes) /\ n + 3 \in 1..Len(bytes)
          /\ n + 4 \in 1..Len(bytes)
      BY <1>1, <2>2
    <3>2. x \in 0..Byte - 1 /\ y \in 0..Byte - 1 /\ z \in 0..Byte - 1 /\ w \in 0..Byte - 1
      BY <3>1, ElementOfSeq, Zenon DEF Bytes
    <3>3. Bytes2uint(bytes, n) = v % Half
      BY <2>2 DEF Bytes2uint
    <3> HIDE DEF x, y, z, w
    <3>4. x * Byte3 \in Nat /\ y * Byte2 \in Nat /\ z * Byte \in Nat
      BY <1>1, <3>2
    <3>5. v \in Nat
      BY <3>2, <3>4
    <3> HIDE DEF v
    <3> QED
      BY <1>1, <3>3, <3>5 DEF Words
  <2> QED
    BY <2>1, <2>2
<1> DEFINE low == Bytes2uint(bytes, at)
           high == Bytes2uint(bytes, at + 4)
           top == Shifted(b, high)
<1>3. low \in Words /\ high \in Words
  <2>1. at + 4 \in Nat
    OBVIOUS
  <2> QED
    BY <1>2, <2>1
<1> HIDE DEF low, high
<1>4. top \in Words
  BY <1>1, <1>3 DEF Shifted, Words
<1> HIDE DEF top
<1>5. BitOr(low, top) \in Words
  BY <1>3, <1>4, BitOrAssumption DEF Words
<1> QED
  BY <1>3, <1>5 DEF Bytes2uint64, low, high, top

\* A round of the reading loops that has taken some bytes for an entry of a and u.
Takes(new, acc, a, u) ==
    /\ new.map = Put(acc.map, a, u) /\ new.sum = acc.sum + u
    /\ new.at \in Nat /\ new.at <= acc.at + (Byte + 8)

\* Whatever the bytes are, a round takes them for an entry within the limits of the format.
LEMMA OneRead ==
    ASSUME NEW b, NEW bytes \in Bytes, NEW acc, acc.at \in Nat,
           acc.at + (Byte + 8) <= Len(bytes)
    PROVE  \E a \in AddressSet : \E u \in Words :
               Len(a) < Byte /\ Takes(ReadEntry(b, bytes, acc), acc, a, u)
<1> DEFINE at == acc.at
           l == bytes[at + 1]
           a == Slice(bytes, at + 1, at + 1 + l)
           u == Bytes2uint64(b, bytes, at + 1 + l)
           new == ReadEntry(b, bytes, acc)
<1>1. new = [at |-> at + l + 9, map |-> Put(acc.map, a, u), sum |-> acc.sum + u]
  BY Zenon DEF ReadEntry
<1>2. Len(bytes) \in Nat /\ Byte \in Nat \ {0} /\ at \in Nat
  BY Sizes DEF Bytes
<1>3. l \in 0..Byte - 1
  <2>1. at + 1 \in 1..Len(bytes)
    BY <1>2
  <2> QED
    BY <2>1, ElementOfSeq, Zenon DEF Bytes
<1> HIDE DEF l
<1>4. at + 1 + l \in Nat /\ at + 1 + l <= Len(bytes) /\ at + l + 9 \in Nat
      /\ at + l + 9 <= at + (Byte + 8)
  BY <1>2, <1>3
<1>5. u \in Words
  BY <1>4, WordRead
<1>6. a \in Seq(0..Byte - 1) /\ Len(a) = l
  <2>1. \A i \in (at + 1 + 1)..(at + 1 + l) : bytes[i] \in 0..Byte - 1
    <3>1. \A i \in (at + 1 + 1)..(at + 1 + l) : i \in 1..Len(bytes)
      BY <1>2, <1>3, <1>4
    <3> QED
      BY <3>1, ElementOfSeq, Zenon DEF Bytes
  <2>2. at + 1 + 1 \in Int /\ at + 1 + l \in Int
    BY <1>2, <1>4
  <2> DEFINE x == at + 1 + 1
             y == at + 1 + l
             v == SubSeq(bytes, x, y)
  <2>3. bytes \in Seq(0..Byte - 1) /\ \A i \in x..y : bytes[i] \in 0..Byte - 1
    BY <2>1 DEF Bytes
  <2>4. x \in Int /\ y \in Int /\ y - x + 1 = l /\ (x <= y <=> l >= 1)
    BY <1>2, <1>3, <2>2
  <2>5. Slice(bytes, at + 1, at + 1 + l) = v
    BY DEF Slice
  <2> HIDE DEF x, y
  <2>6. v \in Seq(0..Byte - 1) /\ Len(v) = IF x <= y THEN y - x + 1 ELSE 0
    BY <2>3, <2>4, SubSeqProperties
  <2> HIDE DEF v
  <2>7. Len(v) = l
    BY <1>3, <2>4, <2>6
  <2> QED
    BY <2>5, <2>6, <2>7
<1> HIDE DEF a, u, at
<1>7. a \in AddressSet
  <2>1. a \in [1..l -> 0..Byte - 1]
    BY <1>6, LenProperties
  <2>2. [1..l -> 0..Byte - 1] \subseteq AddressSet
    BY <1>3, AddressAssumption, Zenon
  <2> QED
    BY <2>1, <2>2
<1>8. Len(a) < Byte
  BY <1>2, <1>3, <1>6
<1> HIDE DEF new
<1>9. new.map = Put(acc.map, a, u) /\ new.sum = acc.sum + u /\ new.at = at + l + 9
  BY <1>1
<1>10. Takes(new, acc, a, u)
  BY <1>4, <1>9 DEF Takes, at
<1> QED
  BY <1>5, <1>7, <1>8, <1>10, Zenon DEF new

\* The entries that i rounds of the reading loops have taken from somewhere: a map within the
\* limits of the format.
Rounds(acc, i) ==
    /\ IsMap(acc.map) /\ IsFiniteSet(DOMAIN acc.map) /\ Cardinality(DOMAIN acc.map) <= i
    /\ \A a \in DOMAIN acc.map : Len(a) < Byte /\ acc.map[a] < Half
    /\ acc.sum \in Nat

\* A round adds an entry to them.
LEMMA RoundTaken ==
    ASSUME NEW i \in Nat, NEW acc, Rounds(acc, i), NEW a \in AddressSet, NEW u \in Words,
           Len(a) < Byte, NEW new, Takes(new, acc, a, u)
    PROVE  Rounds(new, i + 1)
<1> DEFINE D == DOMAIN acc.map
           m == acc.map
           n == new.map
<1>1. n = Put(m, a, u) /\ new.sum = acc.sum + u
  BY DEF Takes
<1>2. u \in Nat /\ u < Half /\ u \in Amounts
  BY Sizes DEF Words, Amounts
<1>3. /\ IsMap(m) /\ IsFiniteSet(D) /\ Cardinality(D) <= i /\ acc.sum \in Nat
      /\ \A x \in D : Len(x) < Byte /\ m[x] < Half
  BY DEF Rounds
<1> HIDE DEF m, n
<1>4. DOMAIN n = DOMAIN m \cup {a} /\ \A x \in DOMAIN n : n[x] = IF x = a THEN u ELSE m[x]
  BY <1>1 DEF Put
<1>5. D = DOMAIN m
  BY DEF m
<1> HIDE DEF D
<1>6. IsFiniteSet(DOMAIN n) /\ Cardinality(DOMAIN n) <= i + 1
  <2>1. Cardinality(D) \in Nat
    BY <1>3, FS_CardinalityType
  <2>2. /\ IsFiniteSet(D \cup {a})
        /\ Cardinality(D \cup {a}) = IF a \in D THEN Cardinality(D) ELSE Cardinality(D) + 1
    BY <1>3, FS_AddElement
  <2> QED
    BY <1>3, <1>4, <1>5, <2>1, <2>2
<1>7. IsMap(n)
  <2>1. n = [x \in DOMAIN n |-> n[x]]
    BY <1>1 DEF Put
  <2>2. \A x \in DOMAIN n : n[x] \in Amounts
    BY <1>2, <1>3, <1>4 DEF IsMap
  <2>3. DOMAIN n \subseteq AddressSet
    BY <1>3, <1>4 DEF IsMap
  <2> QED
    BY <2>1, <2>2, <2>3 DEF IsMap
<1>8. \A x \in DOMAIN n : Len(x) < Byte /\ n[x] < Half
  BY <1>2, <1>3, <1>4, <1>5
<1>9. new.sum \in Nat
  BY <1>1, <1>2, <1>3
<1> QED
  BY <1>6, <1>7, <1>8, <1>9 DEF Rounds, n

\* Whatever the bytes are, fewer than 256 rounds read a map within the limits of the format.
LEMMA AnyRead ==
    ASSUME NEW b, NEW bytes \in Bytes, NEW at \in Nat, NEW n \in 0..Byte - 1,
           at + n * (Byte + 8) <= Len(bytes)
    PROVE  LET read == ReadEntries(b, bytes, at, n) IN
           IsMap(read.map) /\ FitsMap(read.map) /\ read.sum \in Nat
<1> DEFINE d == Byte + 8
<1>1. PICK f : IsRead(f, b, bytes, at, n) /\ ReadEntries(b, bytes, at, n) = f[n]
  BY Sizes, ReadLoop
<1>2. /\ f[0] = [at |-> at, map |-> <<>>, sum |-> 0]
      /\ \A i \in 1..n : f[i] = ReadEntry(b, bytes, f[i - 1])
  BY <1>1, Zenon DEF IsRead
<1>3. Byte \in Nat /\ d \in Nat /\ n \in Nat /\ Len(bytes) \in Nat
  BY Sizes DEF Bytes
<1>4. at + n * d <= Len(bytes)
  OBVIOUS
<1> HIDE DEF d
<1> DEFINE P(i) == Rounds(f[i], i) /\ f[i].at \in Nat /\ f[i].at <= at + i * d
<1>5. P(0)
  <2> DEFINE z == f[0]
  <2>1. z.map = <<>> /\ z.sum = 0 /\ z.at = at
    BY <1>2
  <2> HIDE DEF z
  <2>2. DOMAIN z.map = {} /\ IsMap(z.map)
    BY <2>1 DEF IsMap
  <2>3. IsFiniteSet(DOMAIN z.map) /\ Cardinality(DOMAIN z.map) <= 0
    BY <2>2, FS_EmptySet
  <2>4. Rounds(z, 0)
    BY <2>1, <2>2, <2>3 DEF Rounds
  <2>5. z.at \in Nat /\ z.at <= at + 0 * d
    BY <1>3, <2>1
  <2> QED
    BY <2>4, <2>5 DEF z
<1>6. ASSUME NEW i \in Nat, i < n, P(i) PROVE P(i + 1)
  <2> DEFINE acc == f[i]
             new == f[i + 1]
  <2>1. i + 1 \in 1..n /\ (i + 1) - 1 = i
    BY <1>3, <1>6
  <2>2. new = ReadEntry(b, bytes, acc)
    BY <1>2, <2>1
  <2>3. Rounds(acc, i) /\ acc.at \in Nat /\ acc.at <= at + i * d
    BY <1>6
  <2>4. (i + 1) * d <= n * d /\ (i + 1) * d = i * d + d /\ i * d \in Nat /\ n * d \in Nat
    <3>1. i + 1 <= n
      BY <1>3, <1>6
    <3>2. (i + 1) * d <= n * d
      BY <1>3, <3>1, TimesMonotone
    <3> QED
      BY <1>3, <3>2
  <2> HIDE DEF acc, new
  <2>5. acc.at + d <= Len(bytes)
    BY <1>3, <1>4, <2>3, <2>4
  <2>6. PICK a \in AddressSet : \E u \in Words :
            Len(a) < Byte /\ Takes(ReadEntry(b, bytes, acc), acc, a, u)
    BY <2>3, <2>5, OneRead DEF d
  <2>7. PICK u \in Words : Len(a) < Byte /\ Takes(ReadEntry(b, bytes, acc), acc, a, u)
    BY <2>6
  <2>8. Len(a) < Byte /\ Takes(new, acc, a, u)
    BY <2>2, <2>7, Zenon
  <2>9. Rounds(new, i + 1)
    BY <2>3, <2>8, RoundTaken
  <2>10. new.at \in Nat /\ new.at <= acc.at + d
    BY <2>8 DEF Takes, d
  <2>11. new.at <= at + (i + 1) * d
    BY <1>3, <2>3, <2>4, <2>10
  <2> QED
    BY <2>9, <2>10, <2>11 DEF new
<1>7. \A i \in 0..n : P(i)
  <2> DEFINE I == {i \in Nat : P(i)}
  <2> HIDE DEF P
  <2>1. 0 \in I /\ \A i \in Nat : i < n /\ i \in I => i + 1 \in I
    BY <1>5, <1>6
  <2>2. \A i \in 0..n : i \in I
    <3> HIDE DEF I
    <3> QED
      BY <1>3, <2>1, InductionTo
  <2> QED
    BY <2>2
<1> DEFINE r == f[n]
<1>8. Rounds(r, n)
  <2>1. n \in 0..n
    BY <1>3
  <2> QED
    BY <1>7, <2>1
<1> HIDE DEF r
<1>9. IsMap(r.map) /\ r.sum \in Nat
  BY <1>8 DEF Rounds
<1>10. FitsMap(r.map)
  <2>1. Cardinality(DOMAIN r.map) \in Nat /\ Cardinality(DOMAIN r.map) <= n
    BY <1>8, FS_CardinalityType DEF Rounds
  <2>2. Cardinality(DOMAIN r.map) < Byte
    BY <1>3, <2>1
  <2> QED
    BY <1>8, <2>2 DEF Rounds, FitsMap, Aligned
<1> QED
  BY <1>1, <1>9, <1>10 DEF r

\* What memory holds behind a vector.
LEMMA MemoryBytes ==
    ASSUME NEW memory \in Memory
    PROVE  memory \in Bytes /\ Len(memory) = Byte * (Byte + 8)
<1> DEFINE N == Byte * (Byte + 8)
<1>1. N \in Nat
  BY Sizes
<1>2. memory \in [1..N -> 0..Byte - 1]
  BY DEF Memory
<1> HIDE DEF N
<1>3. memory \in Seq(0..Byte - 1)
  BY <1>1, <1>2, SeqDef
<1>4. Len(memory) = N
  BY <1>1, <1>2, <1>3, LenProperties
<1> QED
  BY <1>3, <1>4 DEF Bytes, N

\* As many entries as the first byte says are a map within the limits of the format, and the
\* restored map if every length of an address fits its byte.
LEMMA MapRead ==
    ASSUME NEW b, NEW map, IsMap(map), NEW bytes \in Bytes, NEW at \in Nat, NEW memory \in Memory,
           At(bytes, at, Entries(map)), At(bytes, 0, Count(map))
    PROVE  LET read == ReadEntries(b, bytes \o memory, at, bytes[1]) IN
           /\ IsMap(read.map) /\ FitsMap(read.map) /\ read.sum \in Nat
           /\ Aligned(map) => /\ read.map = RestoredMap(b, map)
                              /\ read.sum = Total(RestoredMap(b, map))
<1> DEFINE n == Cardinality(DOMAIN map) % Byte
           all == bytes \o memory
           read == ReadEntries(b, all, at, n)
           N == Byte * (Byte + 8)
<1>1. n \in Nat /\ n < Byte /\ n <= Cardinality(DOMAIN map)
  BY KeysLeft
<1>2. bytes[1] = n
  <2>1. Len(Count(map)) = 1 /\ Count(map)[1] = n
    BY OneByte
  <2>2. bytes[0 + 1] = Count(map)[1]
    BY <2>1 DEF At
  <2> QED
    BY <2>1, <2>2
<1>3. all \in Bytes /\ Len(all) = Len(bytes) + N /\ Len(bytes) \in Nat /\ N \in Nat
  <2>1. memory \in Bytes /\ Len(memory) = N
    BY MemoryBytes
  <2>2. all \in Bytes /\ Len(all) = Len(bytes) + Len(memory) /\ Len(bytes) \in Nat
    BY <2>1, JoinLen, Zenon
  <2>3. N \in Nat
    BY Sizes
  <2> QED
    BY <2>1, <2>2, <2>3
<1> DEFINE E == Entries(map)
<1>4. E \in Bytes /\ Len(E) \in Nat
  BY EntriesLength
<1>5. At(all, at, E)
  BY <1>4, MemoryBytes, AtLeft
<1> HIDE DEF n
<1>6. IsMap(read.map) /\ FitsMap(read.map) /\ read.sum \in Nat
  <2>1. n * (Byte + 8) <= N
    BY <1>1, Sizes, TimesMonotone
  <2>2. at <= Len(bytes)
    BY <1>3, <1>4 DEF At
  <2>3. n \in 0..Byte - 1 /\ n * (Byte + 8) \in Nat
    BY <1>1, Sizes
  <2> HIDE DEF N, all
  <2>4. at + n * (Byte + 8) <= Len(all)
    BY <1>3, <2>1, <2>2, <2>3
  <2> QED
    BY <1>3, <2>3, <2>4, AnyRead, Zenon
<1> HIDE DEF all
<1>7. Aligned(map) => read.map = RestoredMap(b, map) /\ read.sum = Total(RestoredMap(b, map))
  <2> SUFFICES ASSUME Aligned(map)
               PROVE  read.map = RestoredMap(b, map) /\ read.sum = Total(RestoredMap(b, map))
    OBVIOUS
  <2> DEFINE part == [a \in First(Addresses, DOMAIN map, n) |-> Low(b, map[a])]
  <2>1. part = RestoredMap(b, map)
    BY DEF RestoredMap, n
  <2>2. part = [a \in First(Addresses, DOMAIN map, n) |-> Low(b, map[a])]
    OBVIOUS
  <2> HIDE DEF part
  <2>3. read.map = part /\ read.sum = Total(part)
    BY <1>1, <1>3, <1>5, <2>2, EntriesRead
  <2> QED
    BY <2>1, <2>3
<1> HIDE DEF read
<1> QED
  BY <1>2, <1>6, <1>7 DEF read, all

-----------------------------------------------------------------------------
(* Records *)

\* An account after it has been written and read.
RestoredAccount(b, r) ==
    [balance |-> Low(b, r.balance), shares |-> Low(b, r.shares), found |-> r.found, key |-> r.key]

\* A coinbase after it has been written and read, in a block of this value.
RestoredCoinbase(b, memory, c, value) ==
    DeserializeCoinbase(b, memory, SerializeCoinbase(c), value)

\* Credits after they have been written and read.
RestoredCredits(b, memory, map) == DeserializeCredits(b, memory, SerializeCredits(map))

\* A block after it has been written and read.
RestoredBlock(b, heap, r) ==
    [value |-> Low(b, r.value),
     coinbase |-> RestoredCoinbase(b, heap.outputs, r.coinbase, Low(b, r.value)),
     credits |-> RestoredCredits(b, heap.credits, r.credits), round |-> r.round, key |-> r.key]

\* What is left of a coinbase: payouts within the limits of the format, and the restored ones
\* if every length of an address fits its byte.
CoinbaseLeft(b, new, c, value) ==
    /\ new = [max |-> value, fee |-> Low(b, c.fee), current |-> new.current,
              outputs |-> new.outputs]
    /\ new.current \in Amounts /\ IsMap(new.outputs) /\ FitsMap(new.outputs)
    /\ Aligned(c.outputs) => /\ new.outputs = RestoredMap(b, c.outputs)
                             /\ new.current = (Low(b, c.fee) + Total(new.outputs)) % Whole

\* What is left of credits.
CreditsLeft(b, new, map) ==
    IsMap(new) /\ FitsMap(new) /\ (Aligned(map) => new = RestoredMap(b, map))

\* Account::Serialize and Deserialize: the address and the number of blocks found are read as
\* they were written, balance and shares as amounts are.
LEMMA AccountRead ==
    ASSUME NEW b, NEW r, IsAccount(r)
    PROVE  /\ SerializeAccount(r) \in Bytes /\ Len(SerializeAccount(r)) = 20 + Len(r.key)
           /\ DeserializeAccount(b, SerializeAccount(r)) = RestoredAccount(b, r)
<1> DEFINE B == Uint2bytes64(r.balance)
           S == Uint2bytes64(r.shares)
           F == Uint2bytes(r.found)
           K == r.key
           bytes == ((B \o S) \o F) \o K
<1>1. SerializeAccount(r) = bytes
  BY DEF SerializeAccount
<1>2. r.balance \in Amounts /\ r.shares \in Amounts /\ r.found \in 0..Half - 1 /\ K \in AddressSet
  BY DEF IsAccount, Words
<1>3. /\ B \in Bytes /\ Len(B) = 8 /\ S \in Bytes /\ Len(S) = 8 /\ F \in Bytes /\ Len(F) = 4
      /\ K \in Bytes
  BY <1>2, EightBytes, Digits, AddressBytes DEF Bytes
<1> HIDE DEF B, S, F, K
<1>4. B \o S \in Bytes /\ Len(B \o S) = 16
  <2>1. B \o S \in Bytes /\ Len(B \o S) = Len(B) + Len(S)
    BY <1>3, JoinLen, Zenon
  <2> QED
    BY <1>3, <2>1
<1>5. (B \o S) \o F \in Bytes /\ Len((B \o S) \o F) = 20
  <2>1. (B \o S) \o F \in Bytes /\ Len((B \o S) \o F) = Len(B \o S) + Len(F)
    BY <1>3, <1>4, JoinLen, Zenon
  <2> QED
    BY <1>3, <1>4, <2>1
<1>6. bytes \in Bytes /\ Len(bytes) = 20 + Len(K) /\ Len(K) \in Nat
  BY <1>3, <1>5, JoinLen
<1>7. At(bytes, 0, B)
  BY <1>3, <1>4, <1>5, AtStart, AtLeft
<1>8. At(bytes, 8, S)
  <2>1. At(B \o S, 8, S)
    BY <1>3, AtEnd
  <2> QED
    BY <1>3, <1>4, <1>5, <2>1, AtLeft
<1>9. At(bytes, 16, F)
  <2>1. At((B \o S) \o F, 16, F)
    BY <1>3, <1>4, AtEnd
  <2> QED
    BY <1>3, <1>5, <2>1, AtLeft
<1>10. At(bytes, 20, K)
  BY <1>3, <1>5, AtEnd
<1> HIDE DEF bytes
<1>11. Bytes2uint64(b, bytes, 0) = Low(b, r.balance) /\ Bytes2uint64(b, bytes, 8) = Low(b, r.shares)
  <2>1. At(bytes, 0, Uint2bytes64(r.balance)) /\ At(bytes, 8, Uint2bytes64(r.shares))
    BY <1>7, <1>8 DEF B, S
  <2>2. 0 \in Nat /\ 8 \in Nat
    OBVIOUS
  <2> QED
    BY <1>2, <1>6, <2>1, <2>2, AmountRead, Zenon
<1>12. Bytes2uint(bytes, 16) = r.found
  <2>1. At(bytes, 16, Uint2bytes(r.found))
    BY <1>9 DEF F
  <2>2. 16 \in Nat /\ Len(bytes) \in Nat
    BY <1>6
  <2> QED
    BY <1>2, <2>1, <2>2, NumberKept, Zenon
<1>13. Slice(bytes, 20, Len(bytes)) = r.key
  BY <1>3, <1>6, <1>10, SliceIs DEF K
<1>14. DeserializeAccount(b, bytes) = RestoredAccount(b, r)
  BY <1>11, <1>12, <1>13, Zenon DEF DeserializeAccount, RestoredAccount
<1> QED
  BY <1>1, <1>6, <1>14, Zenon DEF K

\* Coinbase::Serialize and Deserialize.
LEMMA CoinbaseRead ==
    ASSUME NEW c, c.fee \in Amounts, IsMap(c.outputs)
    PROVE  /\ SerializeCoinbase(c) \in Bytes
           /\ Len(SerializeCoinbase(c)) = 9 + Len(Entries(c.outputs))
           /\ \A b, value : \A memory \in Memory :
                 CoinbaseLeft(b, RestoredCoinbase(b, memory, c, value), c, value)
<1> DEFINE N == Count(c.outputs)
           F == Uint2bytes64(c.fee)
           E == Entries(c.outputs)
           bytes == (N \o F) \o E
<1>1. SerializeCoinbase(c) = bytes
  BY DEF SerializeCoinbase
<1>2. N \in Bytes /\ Len(N) = 1 /\ F \in Bytes /\ Len(F) = 8 /\ E \in Bytes
  BY OneByte, EightBytes, EntryBytes
<1> HIDE DEF N, F, E
<1>3. N \o F \in Bytes /\ Len(N \o F) = 9
  <2>1. N \o F \in Bytes /\ Len(N \o F) = Len(N) + Len(F)
    BY <1>2, JoinLen, Zenon
  <2> QED
    BY <1>2, <2>1
<1>4. bytes \in Bytes /\ Len(bytes) = 9 + Len(E)
  BY <1>2, <1>3, JoinLen
<1>5. At(bytes, 0, N) /\ At(bytes, 1, F) /\ At(bytes, 9, E)
  <2>1. At(N \o F, 0, N)
    BY <1>2, AtStart, AtLeft
  <2>2. At(N \o F, 1, F)
    BY <1>2, AtEnd
  <2>3. At(bytes, 0, N) /\ At(bytes, 1, F)
    BY <1>2, <1>3, <2>1, <2>2, AtLeft
  <2>4. At(bytes, 9, E)
    BY <1>2, <1>3, AtEnd
  <2> QED
    BY <2>3, <2>4
<1> HIDE DEF bytes
<1>6. ASSUME NEW b, NEW value, NEW memory \in Memory
      PROVE  CoinbaseLeft(b, DeserializeCoinbase(b, memory, bytes, value), c, value)
  <2> DEFINE fee == Low(b, c.fee)
             read == ReadEntries(b, bytes \o memory, 9, bytes[1])
             new == DeserializeCoinbase(b, memory, bytes, value)
  <2>1. Bytes2uint64(b, bytes, 1) = fee
    <3>1. At(bytes, 1, Uint2bytes64(c.fee)) /\ 1 \in Nat
      BY <1>5 DEF F
    <3> QED
      BY <1>4, <3>1, AmountRead, Zenon
  <2>2. /\ IsMap(read.map) /\ FitsMap(read.map) /\ read.sum \in Nat
        /\ Aligned(c.outputs) => /\ read.map = RestoredMap(b, c.outputs)
                                 /\ read.sum = Total(RestoredMap(b, c.outputs))
    <3>1. At(bytes, 9, Entries(c.outputs)) /\ At(bytes, 0, Count(c.outputs)) /\ 9 \in Nat
      BY <1>5 DEF E, N
    <3> QED
      BY <1>4, <3>1, MapRead, Zenon
  <2>3. new = [max |-> value, fee |-> fee, current |-> (fee + read.sum) % Whole,
               outputs |-> read.map]
    BY <2>1, Zenon DEF DeserializeCoinbase
  <2>4. fee \in Nat
    BY LowKept, Sizes DEF Amounts
  <2> HIDE DEF new, read, fee
  <2>5. (fee + read.sum) % Whole \in Amounts
    <3>1. fee + read.sum \in Nat /\ Whole \in Nat \ {0}
      BY <2>2, <2>4, Sizes
    <3> QED
      BY <3>1 DEF Amounts
  <2>6. /\ new.current = (fee + read.sum) % Whole /\ new.outputs = read.map
        /\ new = [max |-> value, fee |-> fee, current |-> new.current, outputs |-> new.outputs]
    BY <2>3
  <2>7. Aligned(c.outputs) => /\ new.outputs = RestoredMap(b, c.outputs)
                              /\ new.current = (fee + Total(new.outputs)) % Whole
    BY <2>2, <2>6, Zenon
  <2>8. new.current \in Amounts /\ IsMap(new.outputs) /\ FitsMap(new.outputs)
    BY <2>2, <2>5, <2>6, Zenon
  <2>9. CoinbaseLeft(b, new, c, value)
    BY <2>6, <2>7, <2>8, Zenon DEF CoinbaseLeft, fee
  <2> QED
    BY <2>9 DEF new
<1> QED
  BY <1>1, <1>4, <1>6, Zenon DEF E, RestoredCoinbase

\* Credits::Serialize and Deserialize.
LEMMA CreditsRead ==
    ASSUME NEW map, IsMap(map)
    PROVE  /\ SerializeCredits(map) \in Bytes
           /\ Len(SerializeCredits(map)) = 1 + Len(Entries(map))
           /\ \A b : \A memory \in Memory : CreditsLeft(b, RestoredCredits(b, memory, map), map)
<1> DEFINE N == Count(map)
           E == Entries(map)
           bytes == N \o E
<1>1. SerializeCredits(map) = bytes
  BY DEF SerializeCredits
<1>2. N \in Bytes /\ Len(N) = 1 /\ E \in Bytes
  BY OneByte, EntryBytes
<1> HIDE DEF N, E
<1>3. bytes \in Bytes /\ Len(bytes) = 1 + Len(E)
  BY <1>2, JoinLen
<1>4. At(bytes, 0, N) /\ At(bytes, 1, E)
  <2>1. At(bytes, 0, N)
    BY <1>2, AtStart, AtLeft
  <2>2. At(bytes, Len(N), E)
    BY <1>2, AtEnd
  <2> QED
    BY <1>2, <2>1, <2>2
<1> HIDE DEF bytes
<1>5. ASSUME NEW b, NEW memory \in Memory
      PROVE  CreditsLeft(b, DeserializeCredits(b, memory, bytes), map)
  <2> DEFINE read == ReadEntries(b, bytes \o memory, 1, bytes[1])
  <2>1. At(bytes, 1, Entries(map)) /\ At(bytes, 0, Count(map)) /\ 1 \in Nat
    BY <1>4 DEF E, N
  <2>2. /\ IsMap(read.map) /\ FitsMap(read.map)
        /\ Aligned(map) => read.map = RestoredMap(b, map)
    BY <1>3, <2>1, MapRead, Zenon
  <2>3. DeserializeCredits(b, memory, bytes) = read.map
    BY DEF DeserializeCredits
  <2> HIDE DEF read
  <2> QED
    BY <2>2, <2>3, Zenon DEF CreditsLeft
<1> QED
  BY <1>1, <1>3, <1>5, Zenon DEF E, RestoredCredits

\* The hash of a block has the size of a hash.
LEMMA HashBytes ==
    /\ HashSize \in Nat /\ Len(Hashes) \in Nat /\ Distinct(Hashes) /\ HashSet = Members(Hashes)
    /\ \A h \in HashSet : h \in Bytes /\ Len(h) = HashSize
<1>1. Len(Hashes) \in Nat /\ Len(Hashes) # 0 /\ Distinct(Hashes)
  BY HashAssumption
<1>2. HashSize \in Nat
  <2>1. Hashes[1] \in Seq(0..Byte - 1)
    BY <1>1, HashAssumption
  <2> QED
    BY <2>1 DEF HashSize
<1>3. ASSUME NEW h \in HashSet PROVE h \in Bytes /\ Len(h) = HashSize
  <2>1. PICK i \in 1..Len(Hashes) : h = Hashes[i]
    BY DEF HashSet
  <2>2. h \in Bytes
    BY <2>1, HashAssumption, ElementOfSeq, Zenon DEF Bytes
  <2> QED
    BY <2>1, <2>2, HashAssumption, Zenon
<1>4. HashSet = Members(Hashes)
  BY DEF HashSet, Members
<1> QED
  BY <1>1, <1>2, <1>3, <1>4

\* The fields of a block.
LEMMA BlockParts ==
    ASSUME NEW r, IsBlock(r)
    PROVE  /\ r = [value |-> r.value, coinbase |-> r.coinbase, credits |-> r.credits,
                   round |-> r.round, key |-> r.key]
           /\ r.coinbase = [max |-> r.coinbase.max, fee |-> r.coinbase.fee,
                            current |-> r.coinbase.current, outputs |-> r.coinbase.outputs]
           /\ r.value \in Amounts /\ r.round \in 0..Half - 1 /\ r.key \in HashSet
           /\ r.coinbase.max \in Amounts /\ r.coinbase.fee \in Amounts
           /\ r.coinbase.current \in Amounts
           /\ IsMap(r.coinbase.outputs) /\ IsMap(r.credits)
           /\ 26 + HashSize + Len(Entries(r.coinbase.outputs)) + Len(Entries(r.credits)) < Half
<1>1. /\ r = [value |-> r.value, coinbase |-> r.coinbase, credits |-> r.credits,
              round |-> r.round, key |-> r.key]
      /\ r.value \in Amounts /\ r.round \in 0..Half - 1 /\ r.key \in HashSet
  BY DEF IsBlock, Words
<1> DEFINE c == r.coinbase
<1>2. c \in [max : Amounts, fee : Amounts, current : Amounts, outputs : {c.outputs}]
  BY DEF IsBlock
<1> HIDE DEF c
<1>3. /\ c = [max |-> c.max, fee |-> c.fee, current |-> c.current, outputs |-> c.outputs]
      /\ c.max \in Amounts /\ c.fee \in Amounts /\ c.current \in Amounts
  BY <1>2
<1> QED
  BY <1>1, <1>3 DEF IsBlock, c

\* The size of a block record fits its four bytes.
LEMMA RecordFits ==
    ASSUME NEW map, NEW credits, IsMap(map), IsMap(credits), NEW l, NEW m,
           26 + HashSize + Len(Entries(map)) + Len(Entries(credits)) < Half,
           l = 9 + Len(Entries(map)), m = 1 + Len(Entries(credits))
    PROVE  l \in 0..Half - 1 /\ l + m + 16 + HashSize < Half
<1> DEFINE e == Len(Entries(map))
           f == Len(Entries(credits))
<1>1. e \in Nat /\ f \in Nat
  BY EntriesLength
<1>2. HashSize \in Nat /\ Half \in Nat
  BY HashBytes, Sizes
<1>3. 26 + HashSize + e + f < Half /\ l = 9 + e /\ m = 1 + f
  OBVIOUS
<1> HIDE DEF e, f
<1> QED
  BY <1>1, <1>2, <1>3

\* Within the limits of the format it does.
LEMMA SizeFits ==
    ASSUME NEW map, NEW credits, IsMap(map), IsMap(credits), FitsMap(map), FitsMap(credits)
    PROVE  26 + HashSize + Len(Entries(map)) + Len(Entries(credits)) < Half
<1> DEFINE e == Len(Entries(map))
           f == Len(Entries(credits))
           d == (Byte - 1) * (Byte + 8)
<1>1. e \in Nat /\ f \in Nat /\ e <= d /\ f <= d
  BY EntriesLength
<1>2. HashSize \in Nat /\ Half \in Nat /\ d \in Int
  BY HashBytes, Sizes
<1>3. 26 + HashSize + 2 * d < Half
  BY SizeAssumption
<1> HIDE DEF e, f, d
<1>4. 26 + HashSize + e + f < Half
  BY <1>1, <1>2, <1>3
<1> QED
  BY <1>4 DEF e, f

\* Block::Serialize and Deserialize: whatever is in the maps of a block, and however much, the
\* round and the hash are read as they were written, and everything else from the right bytes.
LEMMA BlockRead ==
    ASSUME NEW b, NEW heap, NEW r, IsBlock(r)
    PROVE  /\ SerializeBlock(r) \in Bytes /\ Len(SerializeBlock(r)) \in 1..Half - 1
           /\ DeserializeBlock(b, heap, SerializeBlock(r)) = RestoredBlock(b, heap, r)
<1> DEFINE V == Uint2bytes64(r.value)
           C == SerializeCoinbase(r.coinbase)
           L == Uint2bytes(Len(C))
           D == SerializeCredits(r.credits)
           R == Uint2bytes(r.round)
           K == r.key
           p == V \o L
           q == p \o C
           s == q \o D
           t == s \o R
           bytes == t \o K
<1>1. SerializeBlock(r) = bytes
  BY DEF SerializeBlock
<1>2. /\ r.value \in Amounts /\ r.round \in 0..Half - 1 /\ r.coinbase.fee \in Amounts
      /\ IsMap(r.coinbase.outputs) /\ IsMap(r.credits) /\ r.key \in HashSet
      /\ 26 + HashSize + Len(Entries(r.coinbase.outputs)) + Len(Entries(r.credits)) < Half
  BY BlockParts
<1>3. C \in Bytes /\ Len(C) = 9 + Len(Entries(r.coinbase.outputs))
  BY <1>2, CoinbaseRead, Zenon
<1>4. D \in Bytes /\ Len(D) = 1 + Len(Entries(r.credits))
  BY <1>2, CreditsRead, Zenon
<1>5. K \in Bytes /\ Len(K) = HashSize
  BY <1>2, HashBytes
<1> HIDE DEF C, D, K
<1>6. Len(C) \in 0..Half - 1 /\ Len(C) + Len(D) + 16 + HashSize < Half
  BY <1>2, <1>3, <1>4, RecordFits
<1>7. V \in Bytes /\ Len(V) = 8 /\ L \in Bytes /\ Len(L) = 4 /\ R \in Bytes /\ Len(R) = 4
  BY <1>2, <1>6, EightBytes, Digits DEF Bytes
<1> HIDE DEF V, L, R
<1>8. p \in Bytes /\ Len(p) = 12
  <2>1. p \in Bytes /\ Len(p) = Len(V) + Len(L)
    BY <1>7, JoinLen, Zenon
  <2> QED
    BY <1>7, <2>1
<1>9. At(p, 0, V) /\ At(p, 8, L)
  <2>1. At(p, 0, V)
    BY <1>7, AtStart, AtLeft
  <2>2. At(p, Len(V), L)
    BY <1>7, AtEnd
  <2> QED
    BY <1>7, <2>1, <2>2
<1> HIDE DEF p
<1>10. q \in Bytes /\ Len(q) = 12 + Len(C)
  <2>1. q \in Bytes /\ Len(q) = Len(p) + Len(C)
    BY <1>3, <1>8, JoinLen, Zenon
  <2> QED
    BY <1>8, <2>1
<1>11. At(q, 0, V) /\ At(q, 8, L) /\ At(q, 12, C)
  <2>1. At(q, 0, V) /\ At(q, 8, L)
    BY <1>3, <1>7, <1>8, <1>9, AtLeft
  <2>2. At(q, Len(p), C)
    BY <1>3, <1>8, AtEnd
  <2> QED
    BY <1>8, <2>1, <2>2
<1> HIDE DEF q
<1>12. s \in Bytes /\ Len(s) = 12 + Len(C) + Len(D)
  <2>1. s \in Bytes /\ Len(s) = Len(q) + Len(D)
    BY <1>4, <1>10, JoinLen, Zenon
  <2> QED
    BY <1>10, <2>1
<1>13. At(s, 0, V) /\ At(s, 8, L) /\ At(s, 12, C) /\ At(s, 12 + Len(C), D)
  <2>1. At(s, 0, V) /\ At(s, 8, L) /\ At(s, 12, C)
    BY <1>3, <1>4, <1>7, <1>10, <1>11, AtLeft
  <2>2. At(s, Len(q), D)
    BY <1>4, <1>10, AtEnd
  <2> QED
    BY <1>10, <2>1, <2>2
<1> HIDE DEF s
<1>14. t \in Bytes /\ Len(t) = Len(s) + 4
  <2>1. t \in Bytes /\ Len(t) = Len(s) + Len(R)
    BY <1>7, <1>12, JoinLen, Zenon
  <2> QED
    BY <1>7, <2>1
<1>15. Len(C) \in Nat /\ Len(D) \in Nat /\ Len(s) \in Nat /\ Len(K) \in Nat /\ Len(t) \in Nat
  BY <1>3, <1>4, <1>5, <1>12, <1>14 DEF Bytes
<1>16. At(t, 0, V) /\ At(t, 8, L) /\ At(t, 12, C) /\ At(t, 12 + Len(C), D) /\ At(t, Len(s), R)
  <2>1. At(t, 0, V) /\ At(t, 8, L) /\ At(t, 12, C) /\ At(t, 12 + Len(C), D)
    BY <1>3, <1>4, <1>7, <1>12, <1>13, <1>15, AtLeft
  <2>2. At(t, Len(s), R)
    BY <1>7, <1>12, AtEnd
  <2> QED
    BY <2>1, <2>2
<1> HIDE DEF t
<1>17. bytes \in Bytes /\ Len(bytes) = Len(t) + Len(K)
  BY <1>5, <1>14, JoinLen, Zenon
<1>18. /\ At(bytes, 0, V) /\ At(bytes, 8, L) /\ At(bytes, 12, C) /\ At(bytes, 12 + Len(C), D)
       /\ At(bytes, Len(s), R) /\ At(bytes, Len(t), K)
  <2>1. /\ At(bytes, 0, V) /\ At(bytes, 8, L) /\ At(bytes, 12, C) /\ At(bytes, 12 + Len(C), D)
        /\ At(bytes, Len(s), R)
    BY <1>3, <1>4, <1>5, <1>7, <1>14, <1>15, <1>16, AtLeft
  <2>2. At(bytes, Len(t), K)
    BY <1>5, <1>14, AtEnd
  <2> QED
    BY <2>1, <2>2
<1> HIDE DEF bytes
<1> DEFINE length == Bytes2uint(bytes, 8)
           value == Bytes2uint64(b, bytes, 0)
           end == Len(bytes) - HashSize
<1>19. length = Len(C)
  <2>1. At(bytes, 8, Uint2bytes(Len(C))) /\ 8 \in Nat /\ Len(bytes) \in Nat
    BY <1>15, <1>17, <1>18 DEF L
  <2> QED
    BY <1>6, <2>1, NumberKept, Zenon
<1>20. value = Low(b, r.value)
  <2>1. At(bytes, 0, Uint2bytes64(r.value)) /\ 0 \in Nat
    BY <1>18 DEF V
  <2> QED
    BY <1>2, <1>17, <2>1, AmountRead, Zenon
<1>21. end = Len(t)
  BY <1>5, <1>15, <1>17
<1> HIDE DEF length, value, end
<1>22. Slice(bytes, 12, length + 12) = C
  <2>1. Slice(bytes, 12, 12 + Len(C)) = C
    BY <1>3, <1>17, <1>18, SliceIs
  <2> QED
    BY <1>15, <1>19, <2>1
<1>23. Slice(bytes, length + 12, end - 4) = D
  <2>1. Slice(bytes, 12 + Len(C), (12 + Len(C)) + Len(D)) = D
    BY <1>4, <1>15, <1>17, <1>18, SliceIs
  <2>2. length + 12 = 12 + Len(C) /\ end - 4 = (12 + Len(C)) + Len(D)
    BY <1>12, <1>14, <1>15, <1>19, <1>21
  <2> QED
    BY <2>1, <2>2
<1>24. Bytes2uint(Slice(bytes, end - 4, end), 0) = r.round
  <2>1. Slice(bytes, Len(s), Len(s) + Len(R)) = R
    BY <1>7, <1>15, <1>17, <1>18, SliceIs
  <2>2. end - 4 = Len(s) /\ end = Len(s) + Len(R)
    BY <1>7, <1>14, <1>15, <1>21
  <2>3. At(R, 0, Uint2bytes(r.round)) /\ Len(R) \in Nat /\ 0 \in Nat
    BY <1>7, AtStart DEF R
  <2>4. Bytes2uint(R, 0) = r.round
    BY <1>2, <2>3, NumberKept, Zenon
  <2> QED
    BY <2>1, <2>2, <2>4
<1>25. Slice(bytes, end, Len(bytes)) = K
  BY <1>5, <1>14, <1>15, <1>17, <1>18, <1>21, SliceIs
<1>26. DeserializeBlock(b, heap, bytes) =
         [value |-> value, coinbase |-> DeserializeCoinbase(b, heap.outputs, C, value),
          credits |-> DeserializeCredits(b, heap.credits, D), round |-> r.round, key |-> K]
  BY <1>22, <1>23, <1>24, <1>25, Zenon DEF DeserializeBlock, length, value, end
<1>27. DeserializeBlock(b, heap, bytes) = RestoredBlock(b, heap, r)
  BY <1>20, <1>26, Zenon DEF RestoredBlock, RestoredCoinbase, RestoredCredits, C, D, K
<1>28. Len(bytes) \in 1..Half - 1
  BY <1>5, <1>6, <1>12, <1>14, <1>15, <1>17, Sizes
<1> QED
  BY <1>1, <1>17, <1>27, <1>28, Zenon

\* A record after it has been written and read.
Restored(b, heap, k, r) ==
    IF k = "account" THEN RestoredAccount(b, r) ELSE RestoredBlock(b, heap, r)

\* A record that a restart has made of another: it is within the limits of the format, has the
\* amounts of the other if that was within them, and no larger ones otherwise.
Came(k, new, old) ==
    /\ Fits(k, new) /\ (Fits(k, old) => Ledger(k, new) = Ledger(k, old))
    /\ IF k = "account"
       THEN new.balance <= old.balance /\ new.shares <= old.shares /\ new.found = old.found
       ELSE /\ new.round = old.round
            /\ Aligned(old.coinbase.outputs) => AtMost(new.coinbase.outputs, old.coinbase.outputs)
            /\ Aligned(old.credits) => AtMost(new.credits, old.credits)

\* A block whose coinbase has the values that a restart gives to it.
Settled(k, r) ==
    k # "account" =>
        /\ r.coinbase.max = r.value
        /\ r.coinbase.current = (r.coinbase.fee + Total(r.coinbase.outputs)) % Whole

\* A record comes from itself.
LEMMA CameFromItself == ASSUME NEW k, NEW r, IsRecord(k, r), Fits(k, r) PROVE Came(k, r, r)
<1>1. ASSUME NEW map, IsMap(map) PROVE AtMost(map, map)
  BY <1>1, Sizes DEF AtMost, IsMap, Amounts
<1>2. CASE k = "account"
  <2>1. r.balance \in Nat /\ r.shares \in Nat
    BY <1>2, Sizes DEF IsRecord, IsAccount, Amounts
  <2> QED
    BY <1>2, <2>1 DEF Came
<1>3. CASE k # "account"
  <2>1. IsMap(r.coinbase.outputs) /\ IsMap(r.credits)
    BY <1>3, BlockParts DEF IsRecord
  <2> QED
    BY <1>1, <1>3, <2>1 DEF Came
<1> QED
  BY <1>2, <1>3

\* What is left of an account.
LEMMA AccountLeft ==
    ASSUME NEW b, NEW r, IsAccount(r), NEW new, new = RestoredAccount(b, r)
    PROVE  /\ IsAccount(new) /\ new.key = r.key /\ Came("account", new, r)
           /\ Fits("account", r) => new = r
<1>1. /\ r.balance \in Amounts /\ r.shares \in Amounts /\ r.found \in Words
      /\ r.key \in AddressSet
      /\ r = [balance |-> r.balance, shares |-> r.shares, found |-> r.found, key |-> r.key]
  BY DEF IsAccount
<1> DEFINE x == Low(b, r.balance)
           y == Low(b, r.shares)
<1>2. Kept(x, r.balance) /\ x \in Amounts /\ Kept(y, r.shares) /\ y \in Amounts
  BY <1>1, LowKept
<1>3. new = [balance |-> x, shares |-> y, found |-> r.found, key |-> r.key]
  BY DEF RestoredAccount
<1> HIDE DEF x, y
<1>4. new.balance = x /\ new.shares = y /\ new.found = r.found /\ new.key = r.key
  BY <1>3
<1>5. IsAccount(new)
  BY <1>1, <1>2, <1>3 DEF IsAccount
<1>6. /\ x <= r.balance /\ y <= r.shares /\ x < Half /\ y < Half
      /\ (r.balance < Half => x = r.balance) /\ (r.shares < Half => y = r.shares)
  BY <1>2, Sizes DEF Kept
<1>7. Fits("account", r) => x = r.balance /\ y = r.shares
  BY <1>6 DEF Fits
<1>8. Fits("account", new)
  BY <1>4, <1>6 DEF Fits
<1>9. Fits("account", r) => Ledger("account", new) = Ledger("account", r)
  BY <1>4, <1>7 DEF Ledger
<1>10. Came("account", new, r)
  BY <1>4, <1>6, <1>8, <1>9 DEF Came
<1>11. Fits("account", r) => new = r
  BY <1>1, <1>3, <1>7
<1> QED
  BY <1>4, <1>5, <1>10, <1>11

\* What is left of a block.
LEMMA BlockLeft ==
    ASSUME NEW b, NEW heap \in Heaps, NEW r, IsBlock(r), NEW k, k # "account",
           NEW new, new = RestoredBlock(b, heap, r)
    PROVE  /\ IsBlock(new) /\ new.key = r.key /\ Came(k, new, r)
           /\ Aligned(r.coinbase.outputs) => Settled(k, new)
           /\ Fits(k, r) /\ Settled(k, r) => new = r
<1> DEFINE c == r.coinbase
           v == Low(b, r.value)
           fee == Low(b, c.fee)
           d == RestoredCoinbase(b, heap.outputs, c, v)
           e == RestoredCredits(b, heap.credits, r.credits)
<1>1. /\ r = [value |-> r.value, coinbase |-> c, credits |-> r.credits, round |-> r.round,
              key |-> r.key]
      /\ c = [max |-> c.max, fee |-> c.fee, current |-> c.current, outputs |-> c.outputs]
      /\ r.value \in Amounts /\ c.fee \in Amounts /\ IsMap(c.outputs) /\ IsMap(r.credits)
      /\ r.round \in Words /\ r.key \in HashSet
  BY BlockParts DEF Words
<1>2. heap.outputs \in Memory /\ heap.credits \in Memory
  BY HeapAssumption
<1>3. CoinbaseLeft(b, d, c, v)
  BY <1>1, <1>2, CoinbaseRead, Zenon
<1>4. CreditsLeft(b, e, r.credits)
  BY <1>1, <1>2, CreditsRead, Zenon
<1>5. Kept(v, r.value) /\ v \in Amounts /\ Kept(fee, c.fee) /\ fee \in Amounts
  BY <1>1, LowKept
<1>6. new = [value |-> v, coinbase |-> d, credits |-> e, round |-> r.round, key |-> r.key]
  BY Zenon DEF RestoredBlock
<1>7. /\ v < Half /\ fee < Half /\ (r.value < Half => v = r.value)
      /\ (c.fee < Half => fee = c.fee)
  BY <1>5, Sizes DEF Kept
<1>8. /\ d = [max |-> v, fee |-> fee, current |-> d.current, outputs |-> d.outputs]
      /\ d.current \in Amounts /\ IsMap(d.outputs) /\ FitsMap(d.outputs)
      /\ Aligned(c.outputs) => /\ d.outputs = RestoredMap(b, c.outputs)
                               /\ d.current = (fee + Total(d.outputs)) % Whole
  BY <1>3, Zenon DEF CoinbaseLeft
<1>9. IsMap(e) /\ FitsMap(e) /\ (Aligned(r.credits) => e = RestoredMap(b, r.credits))
  BY <1>4 DEF CreditsLeft
<1>10. /\ AtMost(RestoredMap(b, c.outputs), c.outputs)
       /\ FitsMap(c.outputs) => RestoredMap(b, c.outputs) = c.outputs
       /\ AtMost(RestoredMap(b, r.credits), r.credits)
       /\ FitsMap(r.credits) => RestoredMap(b, r.credits) = r.credits
  BY <1>1, MapRestored
<1> HIDE DEF c, v, fee, d, e
<1>11. /\ new.value = v /\ new.coinbase = d /\ new.credits = e /\ new.round = r.round
       /\ new.key = r.key
  BY <1>6
<1>12. d.max = v /\ d.fee = fee
  BY <1>8
<1>13. IsBlock(new)
  <2>1. new \in [value : Amounts, coinbase : {new.coinbase}, credits : {new.credits},
                 round : Words, key : HashSet]
    BY <1>1, <1>5, <1>6
  <2>2. d \in [max : Amounts, fee : Amounts, current : Amounts, outputs : {d.outputs}]
    BY <1>5, <1>8
  <2>3. 26 + HashSize + Len(Entries(d.outputs)) + Len(Entries(e)) < Half
    BY <1>8, <1>9, SizeFits
  <2> QED
    BY <1>8, <1>9, <1>11, <2>1, <2>2, <2>3, Zenon DEF IsBlock
<1>14. Fits(k, new)
  BY <1>7, <1>8, <1>9, <1>11, <1>12 DEF Fits
<1>15. Fits(k, r) => /\ v = r.value /\ fee = c.fee /\ d.outputs = c.outputs /\ e = r.credits
                     /\ Aligned(c.outputs)
  BY <1>7, <1>8, <1>9, <1>10 DEF Fits, FitsMap, c
<1>16. Fits(k, r) => Ledger(k, new) = Ledger(k, r)
  BY <1>11, <1>12, <1>15 DEF Ledger, c
<1>17. /\ Aligned(c.outputs) => AtMost(d.outputs, c.outputs)
       /\ Aligned(r.credits) => AtMost(e, r.credits)
  BY <1>8, <1>9, <1>10, Zenon
<1>18. Came(k, new, r)
  BY <1>11, <1>14, <1>16, <1>17 DEF Came, c
<1>19. Aligned(c.outputs) => Settled(k, new)
  BY <1>8, <1>11, <1>12, Zenon DEF Settled
<1>20. Fits(k, r) /\ Settled(k, r) => new = r
  <2> SUFFICES ASSUME Fits(k, r), Settled(k, r) PROVE new = r
    OBVIOUS
  <2>1. c.max = r.value /\ c.current = (c.fee + Total(c.outputs)) % Whole
    BY DEF Settled, c
  <2>2. v = c.max /\ fee = c.fee /\ d.outputs = c.outputs /\ d.current = c.current
    BY <1>8, <1>15, <2>1, Zenon
  <2>3. d = c
    BY <1>1, <1>8, <2>2, Zenon
  <2> QED
    BY <1>1, <1>6, <1>15, <2>3, Zenon
<1> QED
  BY <1>11, <1>13, <1>18, <1>19, <1>20 DEF c

\* The size of an account record fits its four bytes.
LEMMA AccountFits == ASSUME NEW a \in AddressSet PROVE 20 + Len(a) \in 1..Half - 1
<1>1. PICK i \in 1..Len(Addresses) : a = Addresses[i]
  BY DEF AddressSet
<1>2. 20 + Len(a) < Half
  BY <1>1, SizeAssumption
<1>3. Len(a) \in Nat /\ Half \in Nat
  BY AddressBytes, Sizes
<1> QED
  BY <1>2, <1>3

\* Serialize and Deserialize, and what they leave of a record: it has its key, comes from the
\* record, and is the record if that is within the limits and settled.
LEMMA RecordRead ==
    ASSUME NEW b, NEW heap \in Heaps, NEW k, NEW r, IsRecord(k, r)
    PROVE  LET new == Restored(b, heap, k, r) IN
           /\ Serialize(k, r) \in Bytes /\ Len(Serialize(k, r)) \in 1..Half - 1
           /\ Deserialize(b, heap, k, Serialize(k, r)) = new
           /\ IsRecord(k, new) /\ new.key = r.key /\ Came(k, new, r)
           /\ k # "account" /\ Aligned(r.coinbase.outputs) => Settled(k, new)
           /\ Fits(k, r) /\ Settled(k, r) => new = r
<1> DEFINE new == Restored(b, heap, k, r)
           w == Serialize(k, r)
<1>1. CASE k = "account"
  <2>1. IsAccount(r) /\ r.key \in AddressSet
    BY <1>1 DEF IsRecord, IsAccount
  <2>2. w = SerializeAccount(r) /\ new = RestoredAccount(b, r)
    BY <1>1 DEF Serialize, Restored
  <2>3. w \in Bytes /\ Len(w) \in 1..Half - 1 /\ DeserializeAccount(b, w) = new
    BY <2>1, <2>2, AccountRead, AccountFits, Zenon
  <2> HIDE DEF new, w
  <2>4. /\ IsAccount(new) /\ new.key = r.key /\ Came("account", new, r)
        /\ Fits("account", r) => new = r
    BY <2>1, <2>2, AccountLeft
  <2>5. Deserialize(b, heap, k, w) = new /\ IsRecord(k, new)
    BY <1>1, <2>3, <2>4 DEF Deserialize, IsRecord
  <2> QED
    BY <1>1, <2>3, <2>4, <2>5 DEF new, w
<1>2. CASE k # "account"
  <2>1. IsBlock(r)
    BY <1>2 DEF IsRecord
  <2>2. w = SerializeBlock(r) /\ new = RestoredBlock(b, heap, r)
    BY <1>2 DEF Serialize, Restored
  <2>3. w \in Bytes /\ Len(w) \in 1..Half - 1 /\ DeserializeBlock(b, heap, w) = new
    BY <2>1, <2>2, BlockRead, Zenon
  <2> HIDE DEF new, w
  <2>4. /\ IsBlock(new) /\ new.key = r.key /\ Came(k, new, r)
        /\ Aligned(r.coinbase.outputs) => Settled(k, new)
        /\ Fits(k, r) /\ Settled(k, r) => new = r
    BY <1>2, <2>1, <2>2, BlockLeft
  <2>5. Deserialize(b, heap, k, w) = new /\ IsRecord(k, new)
    BY <1>2, <2>3, <2>4 DEF Deserialize, IsRecord
  <2> QED
    BY <2>3, <2>4, <2>5 DEF new, w
<1> QED
  BY <1>1, <1>2

-----------------------------------------------------------------------------
(* Files *)

\* The records of a database are in mapRecords under their keys.
IsDatabase(k, map) == \A x \in DOMAIN map : IsRecord(k, map[x]) /\ map[x].key = x

\* The keys have an order.
LEMMA OrderOf ==
    ASSUME NEW k, NEW map, IsDatabase(k, map)
    PROVE  /\ Len(Order(k)) \in Nat /\ Distinct(Order(k))
           /\ DOMAIN map \subseteq Members(Order(k))
<1>1. CASE k = "account"
  <2>1. \A x \in DOMAIN map : x \in AddressSet
    BY <1>1 DEF IsDatabase, IsRecord, IsAccount
  <2> QED
    BY <1>1, <2>1, AddressBytes DEF Order
<1>2. CASE k # "account"
  <2>1. ASSUME NEW x \in DOMAIN map PROVE x \in HashSet
    <3>1. IsBlock(map[x]) /\ map[x].key = x
      BY <1>2 DEF IsDatabase, IsRecord
    <3> QED
      BY <3>1, BlockParts
  <2> QED
    BY <1>2, <2>1, HashBytes DEF Order
<1> QED
  BY <1>1, <1>2

\* ReadIntoMemory reads the record r from the bytes s, wherever they stand, and puts it under x.
Loads(b, heap, k, s, x, r) ==
    \A bytes \in Bytes : \A at \in Nat : \A map : At(bytes, at, s) =>
        LoadRecord(b, heap, k, bytes, [at |-> at, map |-> map]) =
            [at |-> at + Len(s), map |-> Put(map, x, r)]

\* A record with its size in front, and how it is read.
LEMMA SizedRead ==
    ASSUME NEW b, NEW heap \in Heaps, NEW k, NEW r, IsRecord(k, r)
    PROVE  LET s == Sized(Serialize(k, r)) IN
           /\ s \in Bytes /\ Len(s) \in Nat /\ Len(s) >= 1
           /\ Loads(b, heap, k, s, r.key, Restored(b, heap, k, r))
<1> DEFINE w == Serialize(k, r)
           N == Uint2bytes(Len(w))
           s == N \o w
<1>1. /\ w \in Bytes /\ Len(w) \in 1..Half - 1
      /\ Deserialize(b, heap, k, w) = Restored(b, heap, k, r)
      /\ Restored(b, heap, k, r).key = r.key
  BY RecordRead
<1>2. Len(w) \in 0..Half - 1 /\ Len(w) \in Nat
  BY <1>1, Sizes
<1> HIDE DEF w
<1>3. N \in Bytes /\ Len(N) = 4
  BY <1>2, Digits DEF Bytes
<1> HIDE DEF N
<1>4. s \in Bytes /\ Len(s) = 4 + Len(w) /\ At(s, 0, N) /\ At(s, 4, w)
  <2>1. s \in Bytes /\ Len(s) = Len(N) + Len(w)
    BY <1>1, <1>3, JoinLen, Zenon
  <2>2. At(s, 0, N)
    BY <1>1, <1>3, AtStart, AtLeft
  <2>3. At(s, Len(N), w)
    BY <1>1, <1>3, AtEnd
  <2> QED
    BY <1>3, <2>1, <2>2, <2>3
<1>5. Sized(Serialize(k, r)) = s
  BY DEF Sized, s, N, w
<1> HIDE DEF s
<1>6. ASSUME NEW bytes \in Bytes, NEW at \in Nat, NEW map, At(bytes, at, s)
      PROVE  LoadRecord(b, heap, k, bytes, [at |-> at, map |-> map]) =
                 [at |-> at + Len(s), map |-> Put(map, r.key, Restored(b, heap, k, r))]
  <2>1. At(bytes, at + 0, N) /\ At(bytes, at + 4, w)
    BY <1>1, <1>3, <1>4, <1>6, AtInside
  <2>2. Len(bytes) \in Nat /\ at + 0 = at /\ at + 4 \in Nat
    BY DEF Bytes
  <2>3. ~(at >= Len(bytes))
    BY <1>2, <1>4, <1>6, <2>2 DEF At
  <2>4. Bytes2uint(bytes, at) = Len(w)
    BY <1>2, <2>1, <2>2, NumberKept DEF N
  <2>5. Slice(bytes, at + 4, at + 4 + Len(w)) = w
    BY <1>1, <2>1, <2>2, SliceIs
  <2>6. at + 4 + Len(w) = at + Len(s)
    BY <1>2, <1>4
  <2> DEFINE acc == [at |-> at, map |-> map]
  <2>7. acc.at = at /\ acc.map = map
    OBVIOUS
  <2> HIDE DEF acc
  <2>8. LoadRecord(b, heap, k, bytes, acc) =
            [at |-> at + Len(s), map |-> Put(map, r.key, Restored(b, heap, k, r))]
    BY <1>1, <2>3, <2>4, <2>5, <2>6, <2>7, Zenon DEF LoadRecord
  <2> QED
    BY <2>8 DEF acc
<1>7. Len(s) \in Nat /\ Len(s) >= 1
  BY <1>2, <1>4
<1>8. Loads(b, heap, k, s, r.key, Restored(b, heap, k, r))
  BY <1>6, Zenon DEF Loads
<1> QED
  BY <1>4, <1>5, <1>7, <1>8, Zenon

\* WriteToDisk and ReadIntoMemory: the records of a file are found, each under its key and each
\* with what is left of it, whichever surround it.
THEOREM FileRead ==
    ASSUME NEW b, NEW heap \in Heaps, NEW k, NEW map, IsDatabase(k, map)
    PROVE  /\ Written(k, map) \in Bytes
           /\ Loaded(b, heap, k, Written(k, map)) =
                  [x \in DOMAIN map |-> Restored(b, heap, k, map[x])]
<1> DEFINE order == Order(k)
           L == Len(order)
           Piece(x) == Sized(Serialize(k, map[x]))
           p == [i \in 1..L |-> IF order[i] \in DOMAIN map THEN Piece(order[i]) ELSE <<>>]
           J(i) == Len(Joins(p)[i])
           U(i) == Upto(order, DOMAIN map, i)
           C(i) == Cardinality(U(i))
           M(i) == [x \in U(i) |-> Restored(b, heap, k, map[x])]
           bytes == Written(k, map)
<1>1. L \in Nat /\ Distinct(order) /\ DOMAIN map \subseteq Members(order)
  BY OrderOf
<1>2. bytes = Joined(p)
  BY Zenon DEF Written
<1>3. Len(p) = L
  BY <1>1
<1>4. ASSUME NEW x \in DOMAIN map
      PROVE  /\ Piece(x) \in Bytes /\ Len(Piece(x)) \in Nat /\ Len(Piece(x)) >= 1
             /\ Loads(b, heap, k, Piece(x), x, Restored(b, heap, k, map[x]))
  <2>1. IsRecord(k, map[x]) /\ map[x].key = x
    BY DEF IsDatabase
  <2>2. /\ Piece(x) \in Bytes /\ Len(Piece(x)) \in Nat /\ Len(Piece(x)) >= 1
        /\ Loads(b, heap, k, Piece(x), map[x].key, Restored(b, heap, k, map[x]))
    BY <2>1, SizedRead, Zenon
  <2> HIDE DEF Piece
  <2> QED
    BY <2>1, <2>2, Zenon
<1>5. \A i \in 1..L : p[i] = IF order[i] \in DOMAIN map THEN Piece(order[i]) ELSE <<>>
  OBVIOUS
<1> HIDE DEF p, Piece, bytes
<1>6. ASSUME NEW i \in 1..L PROVE p[i] \in Bytes
  <2>1. CASE order[i] \in DOMAIN map
    BY <1>4, <1>5, <2>1
  <2>2. CASE order[i] \notin DOMAIN map
    <3>1. p[i] = <<>>
      BY <1>5, <2>2
    <3> QED
      BY <3>1 DEF Bytes
  <2> QED
    BY <2>1, <2>2
<1>7. /\ Joins(p)[0] = <<>>
      /\ \A i \in 0..L : Joins(p)[i] \in Bytes
      /\ \A i \in 1..L : J(i) = J(i - 1) + Len(p[i]) /\ At(bytes, J(i - 1), p[i])
  <2>1. \A i \in 1..Len(p) : p[i] \in Bytes
    BY <1>3, <1>6
  <2> QED
    BY <1>1, <1>2, <1>3, <2>1, JoinsAt
<1>8. bytes \in Bytes /\ Len(bytes) \in Nat /\ J(L) = Len(bytes)
  <2>1. bytes = Joins(p)[L] /\ L \in 0..L
    BY <1>1, <1>2, <1>3 DEF Joined
  <2> QED
    BY <1>7, <2>1 DEF Bytes
<1>9. (\A i \in 0..L : J(i) \in Nat) /\ J(0) = 0
  BY <1>7 DEF Bytes
<1>10. \A i \in 0..L : /\ C(i) \in Nat
                       /\ i > 0 => C(i) = C(i - 1) + (IF order[i] \in DOMAIN map THEN 1 ELSE 0)
  BY <1>1, UptoSize
<1>11. \A i \in 1..L :
          U(i) = IF order[i] \in DOMAIN map THEN U(i - 1) \cup {order[i]} ELSE U(i - 1)
  <2> TAKE i \in 1..L
  <2>1. CASE order[i] \in DOMAIN map
    BY <1>1, <2>1, UptoNext, Zenon
  <2>2. CASE order[i] \notin DOMAIN map
    BY <1>1, <2>2, UptoNext
  <2> QED
    BY <2>1, <2>2, Zenon
<1>12. U(0) = {} /\ C(0) = 0 /\ M(0) = <<>>
  <2>1. U(0) = {}
    BY DEF Upto
  <2> QED
    BY <2>1, FS_EmptySet
<1>13. U(L) = DOMAIN map
  BY <1>1, FirstKeys
<1>14. PICK f : IsLoad(f, b, heap, k, bytes) /\ Loaded(b, heap, k, bytes) = f[Len(bytes)].map
  BY <1>8, LoadLoop, Zenon
<1>15. /\ f[0] = [at |-> 0, map |-> <<>>]
       /\ \A i \in 1..Len(bytes) : f[i] = LoadRecord(b, heap, k, bytes, f[i - 1])
  BY <1>14, Zenon DEF IsLoad
<1> DEFINE P(i) == C(i) <= J(i) /\ f[C(i)] = [at |-> J(i), map |-> M(i)]
<1> HIDE DEF J, C, U, order, L
<1>16. P(0)
  <2> HIDE DEF M
  <2> QED
    BY <1>9, <1>12, <1>15
<1>17. ASSUME NEW i \in Nat, i < L, P(i) PROVE P(i + 1)
  <2> DEFINE x == order[i + 1]
  <2>1. i + 1 \in 1..L /\ (i + 1) - 1 = i /\ i + 1 > 0 /\ i \in 0..L /\ i + 1 \in 0..L
    BY <1>1, <1>17
  <2>2. /\ C(i) \in Nat /\ J(i) \in Nat /\ J(i + 1) \in Nat /\ p[i + 1] \in Bytes
        /\ J(i + 1) = J(i) + Len(p[i + 1]) /\ At(bytes, J(i), p[i + 1])
    BY <1>6, <1>7, <1>9, <1>10, <2>1
  <2>3. CASE x \in DOMAIN map
    <3>1. C(i + 1) = C(i) + 1
      BY <1>10, <2>1, <2>3
    <3>2. p[i + 1] = Piece(x) /\ U(i + 1) = U(i) \cup {x}
      BY <1>5, <1>11, <2>1, <2>3
    <3>3. Len(Piece(x)) \in Nat /\ Len(Piece(x)) >= 1
      BY <1>4, <2>3
    <3>4. C(i + 1) <= J(i + 1) /\ J(i) + Len(p[i + 1]) <= Len(bytes)
      BY <1>17, <2>2, <3>1, <3>2, <3>3 DEF At
    <3>5. C(i + 1) \in 1..Len(bytes) /\ C(i + 1) - 1 = C(i)
      BY <1>8, <2>2, <3>1, <3>4
    <3>6. f[C(i + 1)] = LoadRecord(b, heap, k, bytes, [at |-> J(i), map |-> M(i)])
      <4> HIDE DEF M
      <4> QED
        BY <1>15, <1>17, <3>5
    <3>7. M(i + 1) = Put(M(i), x, Restored(b, heap, k, map[x]))
      <4> HIDE DEF x
      <4> QED
        BY <3>2 DEF Put
    <3> HIDE DEF M
    <3>8. LoadRecord(b, heap, k, bytes, [at |-> J(i), map |-> M(i)]) =
             [at |-> J(i) + Len(Piece(x)), map |-> Put(M(i), x, Restored(b, heap, k, map[x]))]
      <4> DEFINE m == M(i)
                 q == J(i)
      <4>1. At(bytes, q, Piece(x)) /\ q \in Nat
        BY <2>2, <3>2
      <4>2. \A by \in Bytes : \A at \in Nat : \A y : At(by, at, Piece(x)) =>
                  LoadRecord(b, heap, k, by, [at |-> at, map |-> y]) =
                      [at |-> at + Len(Piece(x)), map |-> Put(y, x, Restored(b, heap, k, map[x]))]
        BY <1>4, <2>3, Zenon DEF Loads
      <4> HIDE DEF m, q
      <4>3. LoadRecord(b, heap, k, bytes, [at |-> q, map |-> m]) =
               [at |-> q + Len(Piece(x)), map |-> Put(m, x, Restored(b, heap, k, map[x]))]
        BY <1>8, <4>1, <4>2, Zenon
      <4> QED
        BY <4>3 DEF m, q
    <3>9. J(i) + Len(Piece(x)) = J(i + 1)
      BY <2>2, <3>2
    <3>10. f[C(i + 1)] = [at |-> J(i + 1), map |-> M(i + 1)]
      BY <3>6, <3>7, <3>8, <3>9, Zenon
    <3> QED
      BY <3>4, <3>10
  <2>4. CASE x \notin DOMAIN map
    <3>1. C(i + 1) = C(i)
      BY <1>10, <2>1, <2>2, <2>4
    <3>2. U(i + 1) = U(i) /\ p[i + 1] = <<>>
      BY <1>5, <1>11, <2>1, <2>4
    <3>3. J(i + 1) = J(i)
      BY <2>2, <3>2
    <3>4. M(i + 1) = M(i)
      BY <3>2
    <3> HIDE DEF M
    <3> QED
      BY <1>17, <3>1, <3>3, <3>4
  <2> QED
    BY <2>3, <2>4
<1>18. \A i \in 0..L : P(i)
  <2> DEFINE I == {i \in Nat : P(i)}
  <2> HIDE DEF P
  <2>1. 0 \in I /\ \A i \in Nat : i < L /\ i \in I => i + 1 \in I
    BY <1>16, <1>17
  <2>2. \A i \in 0..L : i \in I
    <3> HIDE DEF I
    <3> QED
      BY <1>1, <2>1, InductionTo
  <2> QED
    BY <2>2
<1> DEFINE n == C(L)
           last == [at |-> Len(bytes), map |-> M(L)]
<1>19. n \in Nat /\ n <= Len(bytes) /\ f[n] = last
  <2> HIDE DEF M
  <2>1. L \in 0..L
    BY <1>1
  <2> QED
    BY <1>8, <1>10, <1>18, <2>1
<1> HIDE DEF M
<1>20. LoadRecord(b, heap, k, bytes, last) = last
  <2>1. last.at = Len(bytes) /\ Len(bytes) >= Len(bytes)
    BY <1>8
  <2> HIDE DEF last
  <2> QED
    BY <2>1, Zenon DEF LoadRecord
<1> HIDE DEF n, last
<1> DEFINE Q(j) == j >= n => f[j] = last
<1>21. Q(0)
  BY <1>19
<1>22. ASSUME NEW j \in Nat, j < Len(bytes), Q(j) PROVE Q(j + 1)
  <2>1. CASE j + 1 = n
    BY <1>19, <2>1
  <2>2. CASE j >= n
    <3>1. j + 1 \in 1..Len(bytes) /\ (j + 1) - 1 = j
      BY <1>8, <1>22
    <3>2. f[j + 1] = LoadRecord(b, heap, k, bytes, f[j])
      BY <1>15, <3>1
    <3> QED
      BY <1>20, <1>22, <2>2, <3>2
  <2> QED
    BY <1>19, <2>1, <2>2
<1>23. \A j \in 0..Len(bytes) : Q(j)
  <2> DEFINE I == {j \in Nat : Q(j)}
  <2> HIDE DEF Q
  <2>1. 0 \in I /\ \A j \in Nat : j < Len(bytes) /\ j \in I => j + 1 \in I
    BY <1>21, <1>22
  <2>2. \A j \in 0..Len(bytes) : j \in I
    <3> HIDE DEF I
    <3> QED
      BY <1>8, <2>1, InductionTo
  <2> QED
    BY <2>2
<1>24. f[Len(bytes)] = last
  BY <1>8, <1>19, <1>23
<1>25. last.map = M(L)
  BY DEF last
<1>26. M(L) = [x \in DOMAIN map |-> Restored(b, heap, k, map[x])]
  BY <1>13 DEF M
<1>27. Loaded(b, heap, k, bytes) = [x \in DOMAIN map |-> Restored(b, heap, k, map[x])]
  BY <1>14, <1>24, <1>25, <1>26, Zenon
<1> QED
  BY <1>8, <1>27 DEF bytes

-----------------------------------------------------------------------------
(* The databases *)

\* f can be cancelled from both sides of a congruence.
Cancels(w, f, t, m) == (f + t) % w = (m + f) % w <=> t % w = m

\* Two numbers that leave the same remainder when f is added leave the same remainder.
LEMMA SameRemainder ==
    ASSUME NEW w \in Nat \ {0}, NEW f \in Nat, NEW t \in Nat, NEW m \in 0..w - 1
    PROVE  Cancels(w, f, t, m)
<1> DEFINE q == t \div w
           s == t % w
           a == (f + t) \div w
           c == (m + f) \div w
           x == (f + t) % w
           y == (m + f) % w
<1>1. q \in Nat /\ s \in 0..w - 1 /\ t = q * w + s
  BY Division
<1>2. f + t \in Nat /\ m + f \in Nat
  OBVIOUS
<1>3. a \in Nat /\ x \in 0..w - 1 /\ f + t = a * w + x
  BY <1>2, Division
<1>4. c \in Nat /\ y \in 0..w - 1 /\ m + f = c * w + y
  BY <1>2, Division
<1> HIDE DEF q, s, a, c, x, y
<1>5. q * w \in Nat /\ a * w \in Nat /\ c * w \in Nat
  BY <1>1, <1>3, <1>4
<1>6. ASSUME s = m PROVE x = y
  <2>1. (q + c) * w = q * w + c * w
    BY <1>1, <1>4
  <2>2. a * w + x = (q + c) * w + y
    BY <1>1, <1>3, <1>4, <1>5, <1>6, <2>1
  <2> DEFINE p == q + c
  <2>3. p \in Nat /\ a * w + x = p * w + y
    BY <1>1, <1>4, <2>2
  <2>4. a \in Nat /\ x \in 0..w - 1 /\ y \in 0..w - 1
    BY <1>3, <1>4
  <2> HIDE DEF p
  <2> QED
    BY <2>3, <2>4, DivisionUnique
<1>7. ASSUME x = y PROVE s = m
  <2>1. (q + c) * w = q * w + c * w
    BY <1>1, <1>4
  <2>2. (q + c) * w + s = a * w + m
    BY <1>1, <1>3, <1>4, <1>5, <1>7, <2>1
  <2> DEFINE p == q + c
  <2>3. p \in Nat /\ p * w + s = a * w + m
    BY <1>1, <1>4, <2>2
  <2> HIDE DEF p
  <2> QED
    BY <1>1, <1>3, <2>3, DivisionUnique, Zenon
<1>8. x = y <=> s = m
  BY <1>6, <1>7
<1> QED
  BY <1>8 DEF x, y, s, Cancels

\* A coinbase is complete when its payouts and the fee are the value of the block: that is how
\* a restart finds out.  (A refunded block has lost its value.)
Balanced(r) ==
    r.value # 0 => (IsComplete(r.coinbase)
                    <=> (r.coinbase.fee + Total(r.coinbase.outputs)) % Whole = r.value)

\* update_balances stores such blocks.
LEMMA BookedBalanced == ASSUME NEW r \in BlockInputs PROVE IsBlock(r) /\ Balanced(r)
<1> DEFINE c == r.coinbase
           t == Total(c.outputs)
<1>1. IsBlock(r) /\ r.value = (c.max + c.fee) % Whole /\ c.current = t % Whole
  BY InputsAssumption
<1>2. c.max \in Amounts /\ c.fee \in Amounts /\ IsMap(c.outputs)
  BY <1>1, BlockParts
<1>3. t \in Nat /\ c.fee \in Nat /\ c.max \in 0..Whole - 1 /\ Whole \in Nat \ {0}
  BY <1>2, TotalType, Sizes DEF Amounts
<1> HIDE DEF t, c
<1>4. Cancels(Whole, c.fee, t, c.max)
  BY <1>3, SameRemainder, Zenon
<1>5. Balanced(r)
  BY <1>1, <1>4, Zenon DEF Balanced, IsComplete, Cancels, c, t
<1> QED
  BY <1>1, <1>5

\* A restart leaves such blocks.
LEMMA SettledBalanced == ASSUME NEW k, k # "account", NEW r, Settled(k, r) PROVE Balanced(r)
<1>1. /\ r.coinbase.max = r.value
      /\ r.coinbase.current = (r.coinbase.fee + Total(r.coinbase.outputs)) % Whole
  BY DEF Settled
<1> QED
  BY <1>1, Zenon DEF Balanced, IsComplete

\* All blocks are, but those of mis.
AllBalanced(k, map, mis) == k = "block" => \A x \in DOMAIN map \ mis : Balanced(map[x])

\* A database that a restart has made of another, with the blocks of mis read at wrong positions.
Restart(k, new, old, mis) ==
    /\ DOMAIN new = DOMAIN old
    /\ \A x \in DOMAIN old : Came(k, new[x], old[x]) /\ (x \notin mis => Settled(k, new[x]))

\* The blocks that a start reads at wrong positions.
Shifts(k, map) == {h \in DOMAIN map : k = "block" /\ ~Aligned(map[h].coinbase.outputs)}

\* The inductive invariant: the file is that of the records that were saved, and the records that
\* have been read from it are what a restart makes of these.
IInv ==
    /\ build \in {"masked", "zero"}
    /\ kind \in {"account", "block"}
    /\ IsDatabase(kind, db) /\ IsDatabase(kind, saved)
    /\ file \in Bytes
    /\ writes \in 0..MaxWrites
    /\ fresh \in BOOLEAN
    /\ misread \subseteq HashSet
    /\ writes > 0 => file = Written(kind, saved)
    /\ fresh => writes > 0 /\ Restart(kind, db, saved, misread)
    /\ AllBalanced(kind, db, misread) /\ AllBalanced(kind, saved, misread)

\* ReadIntoMemory makes such a database of the saved one.
LEMMA DatabaseRestored ==
    ASSUME NEW b, NEW heap \in Heaps, NEW k \in {"account", "block"}, NEW map, IsDatabase(k, map),
           NEW mis, Shifts(k, map) \subseteq mis, NEW new,
           new = [x \in DOMAIN map |-> Restored(b, heap, k, map[x])]
    PROVE  IsDatabase(k, new) /\ Restart(k, new, map, mis) /\ AllBalanced(k, new, mis)
<1>1. DOMAIN new = DOMAIN map /\ \A x \in DOMAIN map : new[x] = Restored(b, heap, k, map[x])
  OBVIOUS
<1>2. ASSUME NEW x \in DOMAIN map
      PROVE  /\ IsRecord(k, new[x]) /\ new[x].key = x /\ Came(k, new[x], map[x])
             /\ x \notin mis => Settled(k, new[x])
  <2>1. IsRecord(k, map[x]) /\ map[x].key = x
    BY DEF IsDatabase
  <2>2. /\ IsRecord(k, new[x]) /\ new[x].key = x /\ Came(k, new[x], map[x])
        /\ k # "account" /\ Aligned(map[x].coinbase.outputs) => Settled(k, new[x])
    <3> DEFINE o == map[x]
               m == Restored(b, heap, k, o)
    <3>1. /\ IsRecord(k, m) /\ m.key = o.key /\ Came(k, m, o)
          /\ k # "account" /\ Aligned(o.coinbase.outputs) => Settled(k, m)
      BY <2>1, RecordRead
    <3>2. new[x] = m
      BY <1>1
    <3> HIDE DEF m
    <3> QED
      BY <2>1, <3>1, <3>2
  <2>3. x \notin mis /\ k # "account" => Aligned(map[x].coinbase.outputs)
    BY DEF Shifts
  <2>4. k = "account" => Settled(k, new[x])
    BY DEF Settled
  <2> QED
    BY <2>2, <2>3, <2>4
<1>3. IsDatabase(k, new)
  BY <1>1, <1>2, Zenon DEF IsDatabase
<1>4. Restart(k, new, map, mis)
  BY <1>1, <1>2, Zenon DEF Restart
<1>5. AllBalanced(k, new, mis)
  <2> SUFFICES ASSUME k = "block", NEW x \in DOMAIN new, x \notin mis PROVE Balanced(new[x])
    BY DEF AllBalanced
  <2>1. Settled(k, new[x]) /\ k # "account"
    BY <1>1, <1>2
  <2> QED
    BY <2>1, SettledBalanced
<1> QED
  BY <1>3, <1>4, <1>5

\* What ReadIntoMemory makes of a file, whatever is in memory.
LEMMA DatabaseRead ==
    ASSUME NEW b, NEW heap \in Heaps, NEW k \in {"account", "block"}, NEW map, IsDatabase(k, map),
           NEW mis, Shifts(k, map) \subseteq mis, NEW new,
           new = Loaded(b, heap, k, Written(k, map))
    PROVE  IsDatabase(k, new) /\ Restart(k, new, map, mis) /\ AllBalanced(k, new, mis)
<1>1. new = [x \in DOMAIN map |-> Restored(b, heap, k, map[x])]
  BY FileRead
<1> QED
  BY <1>1, DatabaseRestored

\* A database that a restart has made is made of itself, too.
LEMMA RestartAgain ==
    ASSUME NEW k, NEW new, NEW old, NEW mis, IsDatabase(k, new), Restart(k, new, old, mis)
    PROVE  Restart(k, new, new, mis)
<1>1. ASSUME NEW x \in DOMAIN new
      PROVE  Came(k, new[x], new[x]) /\ (x \notin mis => Settled(k, new[x]))
  <2>1. Came(k, new[x], old[x]) /\ (x \notin mis => Settled(k, new[x]))
    BY DEF Restart
  <2>2. Fits(k, new[x])
    BY <2>1 DEF Came
  <2>3. IsRecord(k, new[x])
    BY DEF IsDatabase
  <2> QED
    BY <2>1, <2>2, <2>3, CameFromItself
<1> QED
  BY <1>1, Zenon DEF Restart

\* Another restart changes no amount of it, and nothing else but in the blocks of mis.
LEMMA ReadAgain ==
    ASSUME NEW b, NEW heap \in Heaps, NEW k \in {"account", "block"}, NEW map, NEW old, NEW mis,
           IsDatabase(k, map), Restart(k, map, old, mis),
           NEW again, again = Loaded(b, heap, k, Written(k, map))
    PROVE  /\ DOMAIN again = DOMAIN map
           /\ \A x \in DOMAIN map : /\ Ledger(k, again[x]) = Ledger(k, map[x])
                                    /\ x \notin mis => again[x] = map[x]
<1>1. again = [x \in DOMAIN map |-> Restored(b, heap, k, map[x])]
  BY FileRead
<1>2. DOMAIN again = DOMAIN map /\ \A x \in DOMAIN map : again[x] = Restored(b, heap, k, map[x])
  BY <1>1
<1>3. ASSUME NEW x \in DOMAIN map
      PROVE  Ledger(k, again[x]) = Ledger(k, map[x]) /\ (x \notin mis => again[x] = map[x])
  <2>1. IsRecord(k, map[x])
    BY DEF IsDatabase
  <2>2. Came(k, map[x], old[x]) /\ (x \notin mis => Settled(k, map[x]))
    BY DEF Restart
  <2>3. Fits(k, map[x])
    BY <2>2 DEF Came
  <2>4. /\ Came(k, again[x], map[x])
        /\ Fits(k, map[x]) /\ Settled(k, map[x]) => again[x] = map[x]
    <3> DEFINE o == map[x]
               m == Restored(b, heap, k, o)
    <3>1. Came(k, m, o) /\ (Fits(k, o) /\ Settled(k, o) => m = o)
      BY <2>1, RecordRead
    <3>2. again[x] = m
      BY <1>2
    <3> HIDE DEF m
    <3> QED
      BY <3>1, <3>2
  <2>5. Ledger(k, again[x]) = Ledger(k, map[x])
    BY <2>3, <2>4 DEF Came
  <2> QED
    BY <2>2, <2>3, <2>4, <2>5
<1> QED
  BY <1>2, <1>3

\* UpdateRecord: a record in its place.
LEMMA PutRecord ==
    ASSUME NEW k, NEW map, NEW mis, NEW r, IsDatabase(k, map), AllBalanced(k, map, mis),
           IsRecord(k, r), k = "block" => Balanced(r), NEW new, new = Put(map, r.key, r)
    PROVE  IsDatabase(k, new) /\ AllBalanced(k, new, mis)
<1>1. \A x \in DOMAIN new : IF x = r.key THEN new[x] = r ELSE x \in DOMAIN map /\ new[x] = map[x]
  BY DEF Put
<1>2. IsDatabase(k, new)
  BY <1>1, Zenon DEF IsDatabase
<1>3. AllBalanced(k, new, mis)
  <2> SUFFICES ASSUME k = "block", NEW x \in DOMAIN new, x \notin mis PROVE Balanced(new[x])
    BY DEF AllBalanced
  <2>1. CASE x = r.key
    BY <1>1, <2>1
  <2>2. CASE x # r.key
    BY <1>1, <2>2 DEF AllBalanced
  <2> QED
    BY <2>1, <2>2
<1> QED
  BY <1>2, <1>3

\* refund_payouts: a block without a value, which is then not asked to be balanced.
LEMMA FlagRecord ==
    ASSUME NEW map, NEW mis, IsDatabase("block", map), AllBalanced("block", map, mis),
           NEW h \in DOMAIN map, NEW new, new = [map EXCEPT ![h].value = 0]
    PROVE  IsDatabase("block", new) /\ AllBalanced("block", new, mis)
<1> DEFINE r == map[h]
           n == [r EXCEPT !.value = 0]
<1>1. IsBlock(r) /\ r.key = h
  BY DEF IsDatabase, IsRecord
<1>2. DOMAIN new = DOMAIN map /\ \A x \in DOMAIN map : new[x] = IF x = h THEN n ELSE map[x]
  OBVIOUS
<1> HIDE DEF r
<1>3. /\ r = [value |-> r.value, coinbase |-> r.coinbase, credits |-> r.credits,
              round |-> r.round, key |-> r.key]
      /\ r.round \in Words /\ r.key \in HashSet
  BY <1>1, BlockParts DEF Words
<1>4. n = [value |-> 0, coinbase |-> r.coinbase, credits |-> r.credits,
           round |-> r.round, key |-> r.key]
  BY <1>3
<1>5. 0 \in Amounts
  BY Sizes DEF Amounts
<1> HIDE DEF n
<1>6. /\ n.value = 0 /\ n.coinbase = r.coinbase /\ n.credits = r.credits
      /\ n.round = r.round /\ n.key = r.key
  BY <1>4
<1>7. n \in [value : Amounts, coinbase : {n.coinbase}, credits : {n.credits}, round : Words,
             key : HashSet]
  BY <1>3, <1>4, <1>5
<1>8. IsBlock(n) /\ n.key = h
  BY <1>1, <1>6, <1>7 DEF IsBlock
<1>9. Balanced(n)
  BY <1>6 DEF Balanced
<1>10. IsDatabase("block", new)
  <2> SUFFICES ASSUME NEW x \in DOMAIN new PROVE IsBlock(new[x]) /\ new[x].key = x
    BY DEF IsDatabase, IsRecord
  <2>1. CASE x = h
    BY <1>2, <1>8, <2>1
  <2>2. CASE x # h
    BY <1>2, <2>2 DEF IsDatabase, IsRecord
  <2> QED
    BY <2>1, <2>2
<1>11. AllBalanced("block", new, mis)
  <2> SUFFICES ASSUME NEW x \in DOMAIN new, x \notin mis PROVE Balanced(new[x])
    BY DEF AllBalanced
  <2>1. CASE x = h
    BY <1>2, <1>9, <2>1
  <2>2. CASE x # h
    BY <1>2, <2>2 DEF AllBalanced
  <2> QED
    BY <2>1, <2>2
<1> QED
  BY <1>10, <1>11

\* Only hashes of blocks are in mis.
LEMMA ShiftedHashes ==
    ASSUME NEW k \in {"account", "block"}, NEW map, IsDatabase(k, map)
    PROVE  Shifts(k, map) \subseteq HashSet
<1>1. CASE k = "block"
  <2>1. DOMAIN map \subseteq HashSet
    BY <1>1, OrderOf, HashBytes DEF Order
  <2> QED
    BY <2>1 DEF Shifts
<1>2. CASE k # "block"
  BY <1>2 DEF Shifts
<1> QED
  BY <1>1, <1>2

-----------------------------------------------------------------------------
(* The steps *)

\* It holds in the beginning.
LEMMA InitInv == Init => IInv
<1> SUFFICES ASSUME Init PROVE IInv
  OBVIOUS
<1>1. /\ DOMAIN db = {} /\ DOMAIN saved = {} /\ writes = 0 /\ file = <<>> /\ fresh = FALSE
      /\ misread = {}
  BY DEF Init
<1>2. file \in Bytes /\ writes \in 0..MaxWrites
  BY <1>1, BoundAssumption DEF Bytes
<1>3. build \in {"masked", "zero"} /\ kind \in {"account", "block"} /\ misread \subseteq HashSet
  BY <1>1 DEF Init
<1>4. IsDatabase(kind, db) /\ IsDatabase(kind, saved)
  BY <1>1, Zenon DEF IsDatabase
<1>5. ~(writes > 0)
  BY <1>1
<1>6. AllBalanced(kind, db, misread) /\ AllBalanced(kind, saved, misread)
  BY <1>1, Zenon DEF AllBalanced
<1> QED
  BY <1>1, <1>2, <1>3, <1>4, <1>5, <1>6, Zenon DEF IInv

\* UpdateRecord: the file has not been written, so nothing has been read from it.
LEMMA UpdateInv == ASSUME IInv, NEW r \in Inputs, UpdateRecord(r) PROVE IInv'
<1> USE DEF UpdateRecord
<1>1. IsRecord(kind, r) /\ (kind = "block" => Balanced(r))
  BY InputsAssumption, BookedBalanced DEF Inputs, IsRecord, IInv
<1>2. db' = Put(db, r.key, r) /\ writes = 0 /\ ~(writes > 0)
  OBVIOUS
<1>3. /\ build' = build /\ kind' = kind /\ file' = file /\ writes' = writes /\ saved' = saved
      /\ fresh' = fresh /\ misread' = misread
  OBVIOUS
<1>4. /\ IsDatabase(kind, db) /\ IsDatabase(kind, saved) /\ AllBalanced(kind, db, misread)
      /\ AllBalanced(kind, saved, misread) /\ fresh = FALSE
  BY <1>2 DEF IInv
<1>5. IsDatabase(kind, db') /\ AllBalanced(kind, db', misread)
  BY <1>1, <1>2, <1>4, PutRecord
<1>6. IsDatabase(kind', db') /\ IsDatabase(kind', saved')
  BY <1>3, <1>4, <1>5
<1>7. AllBalanced(kind', db', misread') /\ AllBalanced(kind', saved', misread')
  BY <1>3, <1>4, <1>5
<1>8. /\ build' \in {"masked", "zero"} /\ kind' \in {"account", "block"} /\ file' \in Bytes
      /\ writes' \in 0..MaxWrites /\ fresh' \in BOOLEAN /\ ~fresh' /\ misread' \subseteq HashSet
      /\ ~(writes' > 0)
  BY <1>2, <1>3, <1>4 DEF IInv
<1> QED
  BY <1>6, <1>7, <1>8, Zenon DEF IInv, IsDatabase, AllBalanced, Balanced, IsComplete

\* refund_payouts.
LEMMA FlagInv == ASSUME IInv, NEW h, Flag(h) PROVE IInv'
<1> USE DEF Flag
<1>1. kind = "block" /\ h \in DOMAIN db /\ db' = [db EXCEPT ![h].value = 0] /\ fresh' = FALSE
  OBVIOUS
<1>2. /\ build' = build /\ kind' = kind /\ file' = file /\ writes' = writes /\ saved' = saved
      /\ misread' = misread
  OBVIOUS
<1>3. /\ IsDatabase("block", db) /\ IsDatabase(kind, saved) /\ AllBalanced("block", db, misread)
      /\ AllBalanced(kind, saved, misread)
  BY <1>1 DEF IInv
<1>4. IsDatabase("block", db') /\ AllBalanced("block", db', misread)
  BY <1>1, <1>3, FlagRecord
<1>5. IsDatabase(kind', db') /\ IsDatabase(kind', saved')
  BY <1>1, <1>2, <1>3, <1>4
<1>6. AllBalanced(kind', db', misread') /\ AllBalanced(kind', saved', misread')
  BY <1>1, <1>2, <1>3, <1>4
<1>7. writes' > 0 => file' = Written(kind', saved')
  BY <1>2 DEF IInv
<1>8. /\ build' \in {"masked", "zero"} /\ kind' \in {"account", "block"} /\ file' \in Bytes
      /\ writes' \in 0..MaxWrites /\ fresh' \in BOOLEAN /\ ~fresh' /\ misread' \subseteq HashSet
  BY <1>1, <1>2 DEF IInv
<1> QED
  BY <1>5, <1>6, <1>7, <1>8, Zenon DEF IInv

\* WriteToDisk: what has been read comes from itself.
LEMMA WriteInv == ASSUME IInv, WriteToDisk PROVE IInv'
<1> USE DEF WriteToDisk
<1>1. /\ writes < MaxWrites /\ writes' = writes + 1 /\ file' = Written(kind, db) /\ saved' = db
      /\ build' = build /\ kind' = kind /\ db' = db /\ fresh' = fresh /\ misread' = misread
  OBVIOUS
<1>2. /\ IsDatabase(kind, db) /\ AllBalanced(kind, db, misread) /\ misread \subseteq HashSet
      /\ build \in {"masked", "zero"} /\ kind \in {"account", "block"} /\ fresh \in BOOLEAN
      /\ fresh => Restart(kind, db, saved, misread)
  BY DEF IInv
<1>3. writes' \in 0..MaxWrites /\ writes' > 0
  BY <1>1, BoundAssumption DEF IInv
<1>4. file' \in Bytes
  <2>1. PICK heap : heap \in Heaps
    BY HeapAssumption
  <2> QED
    BY <1>1, <1>2, <2>1, FileRead
<1>5. fresh => Restart(kind, db, db, misread)
  BY <1>2, RestartAgain
<1>6. fresh' => writes' > 0 /\ Restart(kind', db', saved', misread')
  BY <1>1, <1>3, <1>5
<1>7. IsDatabase(kind', db') /\ IsDatabase(kind', saved')
  BY <1>1, <1>2
<1>8. AllBalanced(kind', db', misread') /\ AllBalanced(kind', saved', misread')
  BY <1>1, <1>2
<1>9. file' = Written(kind', saved')
  BY <1>1
<1>10. /\ build' \in {"masked", "zero"} /\ kind' \in {"account", "block"}
       /\ fresh' \in BOOLEAN /\ misread' \subseteq HashSet
  BY <1>1, <1>2
<1> QED
  BY <1>3, <1>4, <1>6, <1>7, <1>8, <1>9, <1>10, Zenon DEF IInv

\* ReadIntoMemory: the file is that of the saved records.
LEMMA ReadInv == ASSUME IInv, ReadIntoMemory PROVE IInv'
<1>1. /\ writes > 0 /\ fresh' = TRUE /\ misread' = misread \cup Shifts(kind, saved)
      /\ build' = build /\ kind' = kind /\ file' = file /\ writes' = writes /\ saved' = saved
  BY DEF ReadIntoMemory, Shifts
<1>2. PICK heap \in Heaps : db' = Loaded(build, heap, kind, file)
  BY DEF ReadIntoMemory
<1>3. /\ IsDatabase(kind, saved) /\ file = Written(kind, saved) /\ kind \in {"account", "block"}
      /\ build \in {"masked", "zero"} /\ file \in Bytes /\ writes \in 0..MaxWrites
      /\ misread \subseteq HashSet /\ AllBalanced(kind, saved, misread)
  BY <1>1 DEF IInv
<1>4. Shifts(kind, saved) \subseteq misread' /\ misread' \subseteq HashSet
  BY <1>1, <1>3, ShiftedHashes
<1>5. db' = Loaded(build, heap, kind, Written(kind, saved))
  BY <1>2, <1>3
<1>6. /\ IsDatabase(kind, db') /\ Restart(kind, db', saved, misread')
      /\ AllBalanced(kind, db', misread')
  BY <1>3, <1>4, <1>5, DatabaseRead
<1>7. AllBalanced(kind, saved, misread')
  BY <1>1, <1>3 DEF AllBalanced
<1>8. IsDatabase(kind', db') /\ IsDatabase(kind', saved')
  BY <1>1, <1>3, <1>6
<1>9. AllBalanced(kind', db', misread') /\ AllBalanced(kind', saved', misread')
  BY <1>1, <1>6, <1>7
<1>10. Restart(kind', db', saved', misread') /\ writes' > 0 /\ file' = Written(kind', saved')
  BY <1>1, <1>3, <1>6
<1>11. /\ build' \in {"masked", "zero"} /\ kind' \in {"account", "block"} /\ file' \in Bytes
       /\ writes' \in 0..MaxWrites /\ fresh' \in BOOLEAN
  BY <1>1, <1>3
<1> QED
  BY <1>4, <1>8, <1>9, <1>10, <1>11, Zenon DEF IInv

\* Every step preserves it.
LEMMA NextInv == IInv /\ [Next]_vars => IInv'
<1> SUFFICES ASSUME IInv, [Next]_vars PROVE IInv'
  OBVIOUS
<1>1. ASSUME NEW r \in Inputs, UpdateRecord(r) PROVE IInv'
  BY <1>1, UpdateInv
<1>2. ASSUME NEW h \in HashSet, Flag(h) PROVE IInv'
  BY <1>2, FlagInv
<1>3. CASE WriteToDisk
  BY <1>3, WriteInv
<1>4. CASE ReadIntoMemory
  BY <1>4, ReadInv
<1>5. CASE UNCHANGED vars
  BY <1>5 DEF vars, IInv
<1> QED
  BY <1>1, <1>2, <1>3, <1>4, <1>5 DEF Next

\* The invariant of the databases.
LEMMA Invariant == Spec => []IInv
BY InitInv, NextInv, PTL DEF Spec

\* Every record is typed and under its key, in memory as booked and after any number of restarts.
THEOREM TypeCorrect == Spec => []TypeOK
<1>1. IInv => TypeOK
  BY DEF IInv, TypeOK, IsDatabase, Bytes
<1> QED
  BY <1>1, Invariant, PTL

\* What a restart has made of a record.
LEMMA FreshRecord ==
    ASSUME IInv, fresh
    PROVE  DOMAIN db = DOMAIN saved /\ \A k \in DOMAIN saved : Came(kind, db[k], saved[k])
BY DEF IInv, Restart

\* Within the limits of the format, amounts below 2^32, fewer than 256 payouts and credits and
\* addresses of fewer than 256 bytes, WriteToDisk and ReadIntoMemory change no amount: for any
\* size of a byte, any addresses and records, any number of restarts, whatever the build makes of
\* the shift in bytes2uint64 and whatever is in memory behind what is read.
THEOREM KeepsAmounts == Spec => []RestartKeepsAmounts
<1>1. ASSUME IInv PROVE RestartKeepsAmounts
  BY <1>1, FreshRecord DEF RestartKeepsAmounts, Came
<1> QED
  BY <1>1, Invariant, PTL

\* Beyond the limits a restart makes no balance larger, and no payout or credit of a map without
\* an address that is too long, and adds none.
THEOREM NeverGains == Spec => []RestartNeverGains
<1>1. ASSUME IInv PROVE RestartNeverGains
  BY <1>1, FreshRecord DEF RestartNeverGains, Came
<1> QED
  BY <1>1, Invariant, PTL

\* Beyond the limits too, that of the length of an address included, ReadIntoMemory finds every
\* record of the file and no other, and reads the fields behind the amounts as they were written.
THEOREM FindsRecords == Spec => []RestartFindsRecords
<1>1. ASSUME IInv PROVE RestartFindsRecords
  BY <1>1, FreshRecord DEF RestartFindsRecords, Came
<1> QED
  BY <1>1, Invariant, PTL

\* The amounts of one restart are those of every later one, whatever is in memory then, and so is
\* everything else, but the current value of a coinbase that was read at wrong positions.
THEOREM Stable == Spec => []RestartIsStable
<1>1. ASSUME IInv PROVE RestartIsStable
  <2> SUFFICES ASSUME fresh, NEW heap \in Heaps
               PROVE  LET again == Loaded(build, heap, kind, Written(kind, db)) IN
                      /\ DOMAIN again = DOMAIN db
                      /\ \A k \in DOMAIN db : /\ Ledger(kind, again[k]) = Ledger(kind, db[k])
                                              /\ k \notin misread => again[k] = db[k]
    BY DEF RestartIsStable
  <2>1. /\ IsDatabase(kind, db) /\ Restart(kind, db, saved, misread)
        /\ kind \in {"account", "block"}
    BY <1>1 DEF IInv
  <2> DEFINE new == Loaded(build, heap, kind, Written(kind, db))
  <2>2. new = Loaded(build, heap, kind, Written(kind, db))
    OBVIOUS
  <2> HIDE DEF new
  <2>3. /\ DOMAIN new = DOMAIN db
        /\ \A k \in DOMAIN db : /\ Ledger(kind, new[k]) = Ledger(kind, db[k])
                                /\ k \notin misread => new[k] = db[k]
    BY <2>1, <2>2, ReadAgain
  <2> QED
    BY <2>3 DEF new
<1> QED
  BY <1>1, Invariant, PTL

\* A coinbase of a block that is not refunded and within the limits is complete after a restart
\* if and only if it was, though neither side of the comparison in IsComplete is in the file.
THEOREM Complete == Spec => []StillComplete
<1>1. ASSUME IInv PROVE StillComplete
  <2> SUFFICES ASSUME fresh, kind = "block", NEW h \in DOMAIN saved, h \notin misread,
                      saved[h].value # 0, Fits(kind, saved[h])
               PROVE  IsComplete(db[h].coinbase) = IsComplete(saved[h].coinbase)
    BY DEF StillComplete
  <2> DEFINE r == saved[h]
             n == db[h]
  <2>1. Came(kind, n, r) /\ h \in DOMAIN db
    BY <1>1, FreshRecord
  <2>2. Balanced(n) /\ Balanced(r)
    BY <1>1, <2>1 DEF IInv, AllBalanced
  <2>3. Ledger(kind, n) = Ledger(kind, r) /\ kind # "account"
    BY <2>1 DEF Came
  <2> HIDE DEF r, n
  <2>4. n.value = r.value /\ n.coinbase.fee = r.coinbase.fee
        /\ n.coinbase.outputs = r.coinbase.outputs
    <3> DEFINE x == Ledger(kind, n)
    <3>1. /\ x.value = n.value /\ x.fee = n.coinbase.fee /\ x.outputs = n.coinbase.outputs
          /\ x = Ledger(kind, r)
      BY <2>3 DEF Ledger
    <3>2. /\ Ledger(kind, r).value = r.value /\ Ledger(kind, r).fee = r.coinbase.fee
          /\ Ledger(kind, r).outputs = r.coinbase.outputs
      BY <2>3 DEF Ledger
    <3> HIDE DEF x
    <3> QED
      BY <3>1, <3>2
  <2>5. r.value # 0
    BY DEF r
  <2>6. IsComplete(n.coinbase) <=> IsComplete(r.coinbase)
    BY <2>2, <2>4, <2>5, Zenon DEF Balanced
  <2> QED
    BY <2>6 DEF IsComplete, r, n
<1> QED
  BY <1>1, Invariant, PTL
=============================================================================
