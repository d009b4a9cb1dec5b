----------------------------- MODULE TallyProofs -----------------------------
(***************************************************************************)
(* Facts about sums.  They are facts about the cardinality of finite sets, *)
(* so that none of them needs an induction over the set of owners.         *)
(***************************************************************************)
EXTENDS Tally, FiniteSetTheorems, TLAPS

\* The members of Units.
LEMMA UnitsMember ==
    ASSUME NEW f, NEW S
    PROVE  \A u : u \in Units(f, S) <=> \E x \in S : \E i \in 1..f[x] : u = <<x, i>>
BY DEF Units

\* Only the values on S matter.
LEMMA UnitsEqual ==
    ASSUME NEW f, NEW g, NEW S, \A x \in S : f[x] = g[x]
    PROVE  Units(f, S) = Units(g, S)
<1>1. \A u : u \in Units(f, S) <=> u \in Units(g, S)
  BY UnitsMember
<1> QED
  BY <1>1

\* Nothing is counted for nobody.
LEMMA SumEmpty ==
    ASSUME NEW f
    PROVE  IsFiniteSet(Units(f, {})) /\ SumOf(f, {}) = 0
<1>1. Units(f, {}) = {}
  BY UnitsMember
<1> QED
  BY <1>1, FS_EmptySet DEF SumOf

\* A sum is a natural number.
LEMMA SumNat ==
    ASSUME NEW f, NEW S, IsFiniteSet(Units(f, S))
    PROVE  SumOf(f, S) \in Nat
BY FS_CardinalityType DEF SumOf

\* A smaller set has the smaller sum.
LEMMA SumSubset ==
    ASSUME NEW f, NEW S, NEW T \in SUBSET S, IsFiniteSet(Units(f, S))
    PROVE  IsFiniteSet(Units(f, T)) /\ SumOf(f, T) <= SumOf(f, S)
<1>1. Units(f, T) \subseteq Units(f, S)
  BY UnitsMember
<1> QED
  BY <1>1, FS_Subset DEF SumOf

\* What is counted for one owner.
LEMMA SumSingle ==
    ASSUME NEW f, NEW x, f[x] \in Nat
    PROVE  IsFiniteSet(Units(f, {x})) /\ SumOf(f, {x}) = f[x]
<1>1. Units(f, {x}) = {x} \X (1..f[x])
  <2>1. \A u : u \in Units(f, {x}) <=> u \in {x} \X (1..f[x])
    BY UnitsMember
  <2> QED
    BY <2>1
<1>2. IsFiniteSet({x}) /\ Cardinality({x}) = 1
  BY FS_Singleton
<1>3. IsFiniteSet(1..f[x]) /\ Cardinality(1..f[x]) = f[x]
  BY FS_Interval
<1>4. /\ IsFiniteSet({x} \X (1..f[x]))
      /\ Cardinality({x} \X (1..f[x])) = Cardinality({x}) * Cardinality(1..f[x])
  BY <1>2, <1>3, FS_Product, Zenon
<1>5. Cardinality({x}) * Cardinality(1..f[x]) = f[x]
  BY <1>2, <1>3
<1> QED
  BY <1>1, <1>4, <1>5, Zenon DEF SumOf

\* One more owner.
LEMMA SumAdd ==
    ASSUME NEW f, NEW S, NEW x, x \notin S, f[x] \in Nat, IsFiniteSet(Units(f, S))
    PROVE  IsFiniteSet(Units(f, S \cup {x})) /\ SumOf(f, S \cup {x}) = SumOf(f, S) + f[x]
<1>1. Units(f, S \cup {x}) = Units(f, S) \cup Units(f, {x})
  <2>1. \A u : u \in Units(f, S \cup {x}) <=> u \in Units(f, S) \cup Units(f, {x})
    BY UnitsMember
  <2> QED
    BY <2>1
<1>2. Units(f, S) \cap Units(f, {x}) = {}
  BY UnitsMember
<1>3. IsFiniteSet(Units(f, {x})) /\ Cardinality(Units(f, {x})) = f[x]
  BY SumSingle DEF SumOf
<1>4. Cardinality(Units(f, S)) \in Nat
  BY FS_CardinalityType
<1>5. /\ IsFiniteSet(Units(f, S) \cup Units(f, {x}))
      /\ Cardinality(Units(f, S) \cup Units(f, {x})) = Cardinality(Units(f, S))
            + Cardinality(Units(f, {x})) - Cardinality(Units(f, S) \cap Units(f, {x}))
  BY <1>3, FS_Union, Zenon
<1>6. Cardinality(Units(f, S) \cap Units(f, {x})) = 0
  BY <1>2, FS_EmptySet
<1>7. Cardinality(Units(f, S) \cup Units(f, {x})) = Cardinality(Units(f, S)) + f[x]
  BY <1>3, <1>4, <1>5, <1>6
<1> QED
  BY <1>1, <1>5, <1>7, Zenon DEF SumOf

\* A bounded counter over a finite set has a sum.
LEMMA SumFinite ==
    ASSUME NEW S, IsFiniteSet(S), NEW n \in Nat, NEW f, \A x \in S : f[x] \in 0..n
    PROVE  IsFiniteSet(Units(f, S)) /\ SumOf(f, S) \in Nat
<1>0. IsFiniteSet(1..n)
  BY FS_Interval
<1>1. IsFiniteSet(S \X (1..n))
  BY <1>0, FS_Product, Zenon
<1>2. Units(f, S) \subseteq S \X (1..n)
  BY UnitsMember
<1>3. IsFiniteSet(Units(f, S))
  BY <1>1, <1>2, FS_Subset
<1> QED
  BY <1>3, SumNat

\* When one counter goes down by one, so does the sum.
LEMMA SumLess ==
    ASSUME NEW f, NEW g, NEW S, NEW x \in S, f[x] \in Nat \ {0}, g[x] = f[x] - 1,
           \A y \in S \ {x} : g[y] = f[y], IsFiniteSet(Units(f, S))
    PROVE  SumOf(g, S) = SumOf(f, S) - 1
<1>1. Units(g, S) = Units(f, S) \ {<<x, f[x]>>}
  <2>1. ASSUME NEW u PROVE u \in Units(g, S) <=> u \in Units(f, S) \ {<<x, f[x]>>}
    BY UnitsMember
  <2> QED
    BY <2>1
<1>2. <<x, f[x]>> \in Units(f, S)
  BY UnitsMember
<1> QED
  BY <1>1, <1>2, FS_RemoveElement DEF SumOf

\* A counter that is at most the sum of two others has at most the sum of their sums.
LEMMA SumPlus ==
    ASSUME NEW S, NEW f, NEW g, NEW h, \A x \in S : f[x] \in Nat /\ g[x] \in Nat /\ h[x] \in Nat,
           \A x \in S : h[x] <= f[x] + g[x],
           IsFiniteSet(Units(f, S)), IsFiniteSet(Units(g, S))
    PROVE  IsFiniteSet(Units(h, S)) /\ SumOf(h, S) <= SumOf(f, S) + SumOf(g, S)
<1> DEFINE A == Units(f, S)
           B == Units(g, S)
           D == Units(h, S) \ A
           m == [u \in D |-> <<u[1], u[2] - f[u[1]]>>]
<1>1. ASSUME NEW u \in D
      PROVE  \E x \in S : \E i \in 1..h[x] : u = <<x, i>> /\ i > f[x] /\ i - f[x] \in 1..g[x]
  <2>1. PICK x \in S : \E i \in 1..h[x] : u = <<x, i>>
    BY UnitsMember
  <2>2. PICK i \in 1..h[x] : u = <<x, i>>
    BY <2>1
  <2>3. i \notin 1..f[x]
    BY <2>2, UnitsMember
  <2>4. i > f[x] /\ i - f[x] \in 1..g[x]
    BY <2>3
  <2> QED
    BY <2>2, <2>4
<1>2. m \in [D -> B]
  <2>1. ASSUME NEW u \in D PROVE <<u[1], u[2] - f[u[1]]>> \in B
    BY <1>1, UnitsMember
  <2> QED
    BY <2>1
<1>3. ASSUME NEW u \in D, NEW v \in D, m[u] = m[v] PROVE u = v
  <2>1. PICK x \in S, i \in Nat : u = <<x, i>> /\ i > f[x]
    BY <1>1
  <2>2. PICK y \in S, j \in Nat : v = <<y, j>> /\ j > f[y]
    BY <1>1
  <2>3. <<x, i - f[x]>> = <<y, j - f[y]>>
    BY <1>3, <2>1, <2>2
  <2> QED
    BY <2>1, <2>2, <2>3
<1>4. m \in Injection(D, B)
  BY <1>2, <1>3 DEF Injection, IsInjective
<1> HIDE DEF m
<1>5. IsFiniteSet(D) /\ Cardinality(D) <= Cardinality(B)
  BY <1>4, FS_Injection
<1> HIDE DEF A, B, D
<1>6. IsFiniteSet(A \cup D) /\ Cardinality(A \cup D) = Cardinality(A) + Cardinality(D) - Cardinality(A \cap D)
  BY <1>5, FS_Union DEF A
<1>7. A \cap D = {}
  BY DEF D
<1>8. /\ Cardinality(A) \in Nat /\ Cardinality(B) \in Nat /\ Cardinality(D) \in Nat
      /\ Cardinality(A \cap D) = 0
  BY <1>5, <1>7, FS_CardinalityType, FS_EmptySet DEF A, B
<1>9. Units(h, S) \subseteq A \cup D
  BY DEF D
<1>10. /\ IsFiniteSet(Units(h, S)) /\ Cardinality(Units(h, S)) <= Cardinality(A \cup D)
       /\ Cardinality(Units(h, S)) \in Nat
  BY <1>6, <1>9, FS_Subset, FS_CardinalityType
<1> QED
  BY <1>5, <1>6, <1>8, <1>10 DEF SumOf, A, B
=============================================================================
