---------------------------- MODULE SumTheorems -----------------------------
(***************************************************************************)
(* Facts about sums, cited by the proofs about the pool and about the      *)
(* server's books.  A sum is a cardinality, so none of them needs induction. *)
(***************************************************************************)
EXTENDS Sums, FiniteSetTheorems, FunctionTheorems, TLAPS

\* A unit is an element of the set with a number up to its value.
LEMMA UnitsIn ==
    ASSUME NEW f, NEW S
    PROVE  \A u : u \in Units(f, S) <=> \E x \in S : \E k \in 1..f[x] : u = <<x, k>>
BY DEF Units

\* A sum of natural numbers over a finite set is one.
LEMMA SumNat ==
    ASSUME NEW S, IsFiniteSet(S), NEW f, \A x \in S : f[x] \in Nat
    PROVE  IsFiniteSet(Units(f, S)) /\ SumOf(f, S) \in Nat
<1> DEFINE T == {{x} \X (1..f[x]) : x \in S}
           g == [x \in S |-> {x} \X (1..f[x])]
<1>1. g \in Surjection(S, T)
    BY DEF Surjection
<1>2. IsFiniteSet(T)
    BY <1>1, FS_Surjection
<1>3. ASSUME NEW U \in T PROVE IsFiniteSet(U)
  <2>1. PICK x \in S : U = {x} \X (1..f[x])
      BY <1>3
  <2>2. IsFiniteSet({x})
      BY FS_Singleton
  <2>3. IsFiniteSet(1..f[x])
      BY FS_Interval
  <2> QED
      BY <2>1, <2>2, <2>3, FS_Product
<1>4. IsFiniteSet(UNION T)
    BY <1>2, <1>3, FS_UNION
<1> QED
    BY <1>4, FS_CardinalityType DEF Units, SumOf

\* One element contributes its value to a sum.
LEMMA SumPart ==
    ASSUME NEW S, IsFiniteSet(S), NEW f, \A x \in S : f[x] \in Nat, NEW a \in S
    PROVE  SumOf(f, S) = SumOf(f, S \ {a}) + f[a]
<1> DEFINE R == S \ {a}
           A == {a} \X (1..f[a])
<1>1. IsFiniteSet(R) /\ \A x \in R : f[x] \in Nat
    BY FS_RemoveElement
<1>2. IsFiniteSet(Units(f, R)) /\ SumOf(f, R) \in Nat
    BY <1>1, SumNat
<1>3. IsFiniteSet(A) /\ Cardinality(A) = f[a]
  <2>1. IsFiniteSet({a}) /\ Cardinality({a}) = 1
      BY FS_Singleton
  <2>2. IsFiniteSet(1..f[a]) /\ Cardinality(1..f[a]) = f[a]
      BY FS_Interval
  <2> QED
      BY <2>1, <2>2, FS_Product
<1>4. Units(f, S) = Units(f, R) \cup A /\ Units(f, R) \cap A = {}
  <2>1. \A u : u \in A <=> \E k \in 1..f[a] : u = <<a, k>>
      OBVIOUS
  <2>2. /\ \A u : u \in Units(f, S) <=> \E x \in S : \E k \in 1..f[x] : u = <<x, k>>
        /\ \A u : u \in Units(f, R) <=> \E x \in R : \E k \in 1..f[x] : u = <<x, k>>
      BY UnitsIn
  <2> HIDE DEF A
  <2>3. ASSUME NEW u PROVE u \in Units(f, S) <=> u \in Units(f, R) \cup A
    <3>1. CASE u \in A
        BY <3>1, <2>1, <2>2
    <3>2. CASE u \notin A
        BY <3>2, <2>1, <2>2
    <3> QED
        BY <3>1, <3>2
  <2>4. ASSUME NEW u, u \in Units(f, R), u \in A PROVE FALSE
    <3>1. PICK x \in R : \E k \in 1..f[x] : u = <<x, k>>
        BY <2>2, <2>4
    <3>2. PICK j \in 1..f[a] : u = <<a, j>>
        BY <2>1, <2>4
    <3> QED
        BY <3>1, <3>2
  <2> QED
      BY <2>3, <2>4
<1> HIDE DEF A, R
<1>5. Cardinality(Units(f, S)) = Cardinality(Units(f, R)) + Cardinality(A)
  <2>1. Cardinality({}) = 0
      BY FS_EmptySet
  <2>2. Cardinality(Units(f, R) \cup A)
            = Cardinality(Units(f, R)) + Cardinality(A) - Cardinality(Units(f, R) \cap A)
      BY <1>2, <1>3, FS_Union, Zenon
  <2>3. Cardinality(Units(f, R)) \in Nat /\ Cardinality(A) \in Nat
      BY <1>2, <1>3, FS_CardinalityType
  <2>4. /\ Cardinality(Units(f, S)) = Cardinality(Units(f, R) \cup A)
        /\ Cardinality(Units(f, R) \cap A) = Cardinality({})
      BY <1>4, Zenon
  <2> QED
      BY <2>1, <2>2, <2>3, <2>4
<1> QED
    BY <1>3, <1>5 DEF SumOf, Units, R

\* A sum depends on the values over its set only.
LEMMA SumSame ==
    ASSUME NEW S, NEW f, NEW g, \A x \in S : f[x] = g[x]
    PROVE  SumOf(f, S) = SumOf(g, S)
<1>1. \A u : u \in Units(f, S) <=> u \in Units(g, S)
    BY UnitsIn
<1>2. Units(f, S) = Units(g, S)
    BY <1>1
<1> QED
    BY <1>2 DEF SumOf, Units

\* Changing one value changes the sum by the difference.
LEMMA SumChange ==
    ASSUME NEW S, IsFiniteSet(S), NEW f, NEW g, NEW a \in S,
           \A x \in S : f[x] \in Nat, \A x \in S : g[x] \in Nat,
           \A x \in S \ {a} : g[x] = f[x]
    PROVE  SumOf(g, S) = SumOf(f, S) - f[a] + g[a]
<1>1. SumOf(f, S) = SumOf(f, S \ {a}) + f[a] /\ SumOf(g, S) = SumOf(g, S \ {a}) + g[a]
    BY SumPart
<1>2. SumOf(f, S \ {a}) = SumOf(g, S \ {a})
    BY SumSame
<1>3. SumOf(f, S \ {a}) \in Nat
    BY FS_RemoveElement, SumNat
<1> QED
    BY <1>1, <1>2, <1>3

\* No element is more than the sum.
LEMMA SumElement ==
    ASSUME NEW S, IsFiniteSet(S), NEW f, \A x \in S : f[x] \in Nat, NEW a \in S
    PROVE  f[a] <= SumOf(f, S)
<1>1. SumOf(f, S) = SumOf(f, S \ {a}) + f[a]
    BY SumPart
<1>2. SumOf(f, S \ {a}) \in Nat
    BY FS_RemoveElement, SumNat
<1> QED
    BY <1>1, <1>2

\* The sum of nothing is zero.
LEMMA SumZero ==
    ASSUME NEW S, NEW f, \A x \in S : f[x] = 0
    PROVE  SumOf(f, S) = 0
<1>1. Units(f, S) = {}
  <2>1. \A u : u \notin Units(f, S)
    <3> SUFFICES ASSUME NEW u, u \in Units(f, S) PROVE FALSE
        OBVIOUS
    <3>1. PICK x \in S : \E k \in 1..f[x] : u = <<x, k>>
        BY UnitsIn
    <3>2. f[x] = 0
        OBVIOUS
    <3> QED
        BY <3>1, <3>2
  <2> QED
      BY <2>1
<1> QED
    BY <1>1, FS_EmptySet DEF SumOf, Units

\* A sum is monotone in its values.
LEMMA SumMonotone ==
    ASSUME NEW S, IsFiniteSet(S), NEW f, NEW g,
           \A x \in S : f[x] \in Nat, \A x \in S : g[x] \in Nat, \A x \in S : g[x] <= f[x]
    PROVE  SumOf(g, S) <= SumOf(f, S)
<1>1. ASSUME NEW u, u \in Units(g, S) PROVE u \in Units(f, S)
  <2>1. PICK x \in S : \E k \in 1..g[x] : u = <<x, k>>
      BY <1>1, UnitsIn
  <2>2. \A k \in 1..g[x] : k \in 1..f[x]
      OBVIOUS
  <2> QED
      BY <2>1, <2>2, UnitsIn
<1>2. Units(g, S) \in SUBSET Units(f, S)
    BY <1>1
<1>3. IsFiniteSet(Units(f, S))
    BY SumNat
<1> QED
    BY <1>2, <1>3, FS_Subset DEF SumOf, Units

\* The sum of sums is the sum.
LEMMA SumPlus ==
    ASSUME NEW S, IsFiniteSet(S), NEW f, NEW g, NEW h,
           \A x \in S : f[x] \in Nat, \A x \in S : g[x] \in Nat,
           \A x \in S : h[x] = f[x] + g[x]
    PROVE  SumOf(h, S) = SumOf(f, S) + SumOf(g, S)
<1> DEFINE F == Units(f, S)
           G == Units(g, S)
           V == Units(h, S) \ F
           m == [u \in G |-> <<u[1], f[u[1]] + u[2]>>]
<1>1. IsFiniteSet(F) /\ IsFiniteSet(G)
    BY SumNat
<1>2. \A x \in S : h[x] \in Nat
    OBVIOUS
<1>3. /\ \A u : u \in F <=> \E x \in S : \E k \in 1..f[x] : u = <<x, k>>
      /\ \A u : u \in G <=> \E x \in S : \E k \in 1..g[x] : u = <<x, k>>
      /\ \A u : u \in Units(h, S) <=> \E x \in S : \E k \in 1..h[x] : u = <<x, k>>
    BY UnitsIn
<1> HIDE DEF F, G
<1>4. F \cup V = Units(h, S) /\ F \cap V = {}
  <2>1. ASSUME NEW u \in F PROVE u \in Units(h, S)
    <3>1. PICK x \in S : \E k \in 1..f[x] : u = <<x, k>>
        BY <1>3
    <3>2. \A k \in 1..f[x] : k \in 1..h[x]
        OBVIOUS
    <3> QED
        BY <1>3, <3>1, <3>2
  <2> QED
      BY <2>1
<1>5. ASSUME NEW v PROVE v \in V <=> \E x \in S : \E k \in 1..g[x] : v = <<x, f[x] + k>>
  <2>1. ASSUME v \in V PROVE \E x \in S : \E k \in 1..g[x] : v = <<x, f[x] + k>>
    <3>1. PICK x \in S : \E k \in 1..h[x] : v = <<x, k>>
        BY <1>3, <2>1
    <3>2. PICK k \in 1..h[x] : v = <<x, k>>
        BY <3>1
    <3>3. k \notin 1..f[x]
        BY <1>3, <2>1, <3>2
    <3>4. k - f[x] \in 1..g[x] /\ k = f[x] + (k - f[x])
        BY <3>3
    <3> QED
        BY <3>2, <3>4
  <2>2. ASSUME NEW x \in S, NEW k \in 1..g[x], v = <<x, f[x] + k>> PROVE v \in V
    <3>1. f[x] + k \in 1..h[x] /\ f[x] + k \notin 1..f[x]
        OBVIOUS
    <3>2. v \in Units(h, S)
        BY <1>3, <2>2, <3>1
    <3>3. v \notin F
        BY <1>3, <2>2, <3>1
    <3> QED
        BY <3>2, <3>3
  <2> QED
      BY <2>1, <2>2
<1> HIDE DEF V
<1>6. \A x \in S : \A k \in 1..g[x] : <<x, k>> \in G /\ m[<<x, k>>] = <<x, f[x] + k>>
    BY <1>3
<1> HIDE DEF m
<1>7. m \in [G -> V]
  <2>1. ASSUME NEW u \in G PROVE m[u] \in V
      BY <1>3, <1>5, <1>6
  <2> QED
      BY <2>1 DEF m
<1>8. ASSUME NEW u \in G, NEW w \in G, m[u] = m[w] PROVE u = w
  <2>1. PICK x \in S : \E k \in 1..g[x] : u = <<x, k>>
      BY <1>3
  <2>2. PICK k \in 1..g[x] : u = <<x, k>>
      BY <2>1
  <2>3. PICK y \in S : \E j \in 1..g[y] : w = <<y, j>>
      BY <1>3
  <2>4. PICK j \in 1..g[y] : w = <<y, j>>
      BY <2>3
  <2>5. <<x, f[x] + k>> = <<y, f[y] + j>>
      BY <1>6, <1>8, <2>2, <2>4
  <2>6. x = y /\ f[x] + k = f[y] + j
      BY <2>5
  <2>7. x = y /\ k = j
      BY <2>6
  <2> QED
      BY <2>2, <2>4, <2>7
<1>9. ASSUME NEW v \in V PROVE \E u \in G : m[u] = v
  <2>1. PICK x \in S : \E k \in 1..g[x] : v = <<x, f[x] + k>>
      BY <1>5
  <2>2. PICK k \in 1..g[x] : v = <<x, f[x] + k>>
      BY <2>1
  <2>3. <<x, k>> \in G /\ m[<<x, k>>] = v
      BY <1>6, <2>2
  <2> QED
      BY <2>3
<1>10. ExistsBijection(G, V)
  <2>1. m \in Injection(G, V)
      BY <1>7, <1>8, Fun_IsInj
  <2>2. m \in Surjection(G, V)
      BY <1>7, <1>9 DEF Surjection
  <2> QED
      BY <2>1, <2>2 DEF ExistsBijection, Bijection
<1>11. IsFiniteSet(V) /\ Cardinality(V) = Cardinality(G)
    BY <1>1, <1>10, FS_Bijection
<1>12. Cardinality(F \cup V) = Cardinality(F) + Cardinality(V)
  <2>1. Cardinality({}) = 0
      BY FS_EmptySet
  <2>2. Cardinality(F \cup V) = Cardinality(F) + Cardinality(V) - Cardinality(F \cap V)
      BY <1>1, <1>11, FS_Union, Zenon
  <2>3. Cardinality(F) \in Nat /\ Cardinality(V) \in Nat
      BY <1>1, <1>11, FS_CardinalityType
  <2>4. Cardinality(F \cap V) = Cardinality({})
      BY <1>4, Zenon
  <2> QED
      BY <2>1, <2>2, <2>3, <2>4
<1>13. Cardinality(Units(h, S)) = Cardinality(F) + Cardinality(G)
    BY <1>4, <1>11, <1>12, Zenon
<1> QED
    BY <1>13 DEF SumOf, Units, F, G

\* Numbers of the form (k - 1) * c + j with j in 1..c are each of that form once.
LEMMA Blocks ==
    ASSUME NEW c \in Nat \ {0}
    PROVE  /\ \A n \in Nat \ {0} :
                  \E k \in Nat \ {0}, j \in 1..c : n = (k - 1) * c + j
           /\ \A k, l \in Nat \ {0}, i, j \in 1..c :
                  (k - 1) * c + i = (l - 1) * c + j => k = l /\ i = j
           /\ \A k, b \in Nat \ {0}, j \in 1..c :
                  k <= b <=> (k - 1) * c + j <= b * c
<1>1. ASSUME NEW n \in Nat \ {0}
      PROVE  \E k \in Nat \ {0}, j \in 1..c : n = (k - 1) * c + j
  <2> DEFINE q == (n - 1) \div c
             r == (n - 1) % c
  <2>1. q \in Nat /\ r \in 0..(c - 1) /\ n - 1 = c * q + r
      OBVIOUS
  <2> HIDE DEF q, r
  <2>2. q + 1 \in Nat \ {0} /\ r + 1 \in 1..c /\ n = ((q + 1) - 1) * c + (r + 1)
      BY <2>1
  <2> QED
      BY <2>2
<1>2. ASSUME NEW k \in Nat \ {0}, NEW l \in Nat \ {0}, k < l PROVE (k - 1) * c + c <= (l - 1) * c
  <2>1. (l - 1) * c = (k - 1) * c + (l - k) * c
      OBVIOUS
  <2>2. (l - k) * c >= c
    <3>1. l - k - 1 \in Nat /\ c \in Nat
        BY <1>2
    <3>2. (l - k - 1) * c \in Nat
        BY <3>1
    <3>3. (l - k) * c = (l - k - 1) * c + c
        OBVIOUS
    <3> QED
        BY <3>2, <3>3
  <2>3. (k - 1) * c \in Int /\ (l - k) * c \in Int
      OBVIOUS
  <2> QED
      BY <2>1, <2>2, <2>3
<1>3. ASSUME NEW k \in Nat \ {0}, NEW l \in Nat \ {0}, NEW i \in 1..c, NEW j \in 1..c,
             (k - 1) * c + i = (l - 1) * c + j
      PROVE  k = l /\ i = j
  <2>1. (k - 1) * c \in Int /\ (l - 1) * c \in Int
      OBVIOUS
  <2>2. ~(k < l)
      BY <1>2, <1>3, <2>1
  <2>3. ~(l < k)
      BY <1>2, <1>3, <2>1
  <2>4. k = l
      BY <2>2, <2>3
  <2> QED
      BY <1>3, <2>1, <2>4
<1>4. ASSUME NEW k \in Nat \ {0}, NEW b \in Nat \ {0}, NEW j \in 1..c
      PROVE  k <= b <=> (k - 1) * c + j <= b * c
  <2>1. (k - 1) * c \in Int /\ b * c \in Int
      OBVIOUS
  <2>2. b * c = ((b + 1) - 1) * c
      OBVIOUS
  <2>3. k < b + 1 => (k - 1) * c + c <= b * c
      BY <1>2, <2>2
  <2>4. b + 1 < k => b * c + c <= (k - 1) * c
      BY <1>2, <2>2
  <2>5. k = b + 1 => (k - 1) * c = b * c
      OBVIOUS
  <2> QED
      BY <2>1, <2>3, <2>4, <2>5
<1> QED
    BY <1>1, <1>3, <1>4

\* A sum of multiples is the multiple of the sum.
LEMMA SumTimes ==
    ASSUME NEW S, IsFiniteSet(S), NEW f, NEW h, NEW c \in Nat,
           \A x \in S : f[x] \in Nat, \A x \in S : h[x] = f[x] * c
    PROVE  SumOf(h, S) = SumOf(f, S) * c
<1>1. SumOf(f, S) \in Nat
    BY SumNat
<1>2. CASE c = 0
  <2>1. \A x \in S : h[x] = 0
      BY <1>2
  <2>2. SumOf(h, S) = 0
      BY <2>1, SumZero
  <2> QED
      BY <1>1, <1>2, <2>2
<1>3. CASE c # 0
  <2> DEFINE F == Units(f, S)
             D == F \X (1..c)
             H == Units(h, S)
             m == [d \in D |-> <<d[1][1], (d[1][2] - 1) * c + d[2]>>]
  <2>1. IsFiniteSet(F) /\ c \in Nat \ {0}
      BY SumNat, <1>3
  <2>2. IsFiniteSet(D) /\ Cardinality(D) = Cardinality(F) * c
    <3>1. IsFiniteSet(1..c) /\ Cardinality(1..c) = c
        BY FS_Interval
    <3> HIDE DEF F
    <3> QED
        BY <2>1, <3>1, FS_Product
  <2>3. /\ \A u : u \in F <=> \E x \in S : \E k \in 1..f[x] : u = <<x, k>>
        /\ \A u : u \in H <=> \E x \in S : \E k \in 1..h[x] : u = <<x, k>>
      BY UnitsIn
  <2> HIDE DEF F, H
  <2>4. ASSUME NEW d \in D
        PROVE  \E x \in S, k \in Nat \ {0}, j \in 1..c :
                   /\ k \in 1..f[x] /\ d = <<<<x, k>>, j>>
                   /\ m[d] = <<x, (k - 1) * c + j>>
    <3>1. PICK u \in F, j \in 1..c : d = <<u, j>>
        OBVIOUS
    <3>2. PICK x \in S : \E k \in 1..f[x] : u = <<x, k>>
        BY <2>3
    <3>3. PICK k \in 1..f[x] : u = <<x, k>>
        BY <3>2
    <3>4. k \in Nat \ {0}
        OBVIOUS
    <3> QED
        BY <3>1, <3>3, <3>4
  <2>5. ASSUME NEW x \in S, NEW k \in 1..f[x], NEW j \in 1..c
        PROVE  <<<<x, k>>, j>> \in D /\ m[<<<<x, k>>, j>>] = <<x, (k - 1) * c + j>>
    <3>1. <<x, k>> \in F
        BY <2>3
    <3> QED
        BY <3>1
  <2> HIDE DEF D, m
  <2>6. m \in [D -> H]
    <3>1. ASSUME NEW d \in D PROVE m[d] \in H
      <4>1. PICK x \in S, k \in Nat \ {0}, j \in 1..c :
                /\ k \in 1..f[x] /\ d = <<<<x, k>>, j>>
                /\ m[d] = <<x, (k - 1) * c + j>>
          BY <2>4
      <4>2. (k - 1) * c \in Nat
          OBVIOUS
      <4>3. f[x] \in Nat \ {0} /\ k <= f[x]
          BY <4>1
      <4>4. (k - 1) * c + j <= f[x] * c
          BY <2>1, <4>3, Blocks
      <4>5. (k - 1) * c + j \in 1..h[x]
          BY <4>2, <4>4
      <4> QED
          BY <2>3, <4>1, <4>5
    <3> QED
        BY <3>1 DEF m
  <2>7. ASSUME NEW d \in D, NEW e \in D, m[d] = m[e] PROVE d = e
    <3>1. PICK x \in S, k \in Nat \ {0}, i \in 1..c :
              d = <<<<x, k>>, i>> /\ m[d] = <<x, (k - 1) * c + i>>
        BY <2>4
    <3>2. PICK y \in S, l \in Nat \ {0}, j \in 1..c :
              e = <<<<y, l>>, j>> /\ m[e] = <<y, (l - 1) * c + j>>
        BY <2>4
    <3>3. x = y /\ (k - 1) * c + i = (l - 1) * c + j
        BY <2>7, <3>1, <3>2
    <3>4. k = l /\ i = j
        BY <2>1, <3>3, Blocks
    <3> QED
        BY <3>1, <3>2, <3>3, <3>4
  <2>8. ASSUME NEW v \in H PROVE \E d \in D : m[d] = v
    <3>1. PICK x \in S : \E n \in 1..h[x] : v = <<x, n>>
        BY <2>3
    <3>2. PICK n \in 1..h[x] : v = <<x, n>>
        BY <3>1
    <3>3. n \in Nat \ {0} /\ h[x] = f[x] * c /\ f[x] \in Nat
        OBVIOUS
    <3>4. PICK k \in Nat \ {0}, j \in 1..c : n = (k - 1) * c + j
        BY <2>1, <3>3, Blocks
    <3>5. f[x] # 0
        BY <3>3
    <3>6. k <= f[x]
        BY <2>1, <3>2, <3>3, <3>4, <3>5, Blocks
    <3>7. k \in 1..f[x]
        BY <3>3, <3>6
    <3> QED
        BY <2>5, <3>2, <3>4, <3>7
  <2>9. ExistsBijection(D, H)
    <3>1. m \in Injection(D, H)
        BY <2>6, <2>7, Fun_IsInj
    <3>2. m \in Surjection(D, H)
        BY <2>6, <2>8 DEF Surjection
    <3> QED
        BY <3>1, <3>2 DEF ExistsBijection, Bijection
  <2>10. Cardinality(H) = Cardinality(F) * c
      BY <2>2, <2>9, FS_Bijection
  <2> QED
      BY <2>10 DEF SumOf, Units, F, H
<1> QED
    BY <1>2, <1>3

\* Shares of a whole: when each g[x] : f[x] is at most n : d, so is the sum of g to the
\* sum of f.
LEMMA SumShares ==
    ASSUME NEW S, IsFiniteSet(S), NEW f, NEW g, NEW n \in Nat, NEW d \in Nat,
           \A x \in S : f[x] \in Nat, \A x \in S : g[x] \in Nat,
           \A x \in S : g[x] * d <= f[x] * n
    PROVE  SumOf(g, S) * d <= SumOf(f, S) * n
<1> DEFINE F == [x \in S |-> f[x] * n]
           G == [x \in S |-> g[x] * d]
<1>1. (\A x \in S : F[x] = f[x] * n) /\ (\A x \in S : G[x] = g[x] * d)
    OBVIOUS
<1>2. (\A x \in S : F[x] \in Nat) /\ (\A x \in S : G[x] \in Nat)
    OBVIOUS
<1> HIDE DEF F, G
<1>3. SumOf(F, S) = SumOf(f, S) * n
    BY <1>1, SumTimes
<1>4. SumOf(G, S) = SumOf(g, S) * d
    BY <1>1, SumTimes
<1>5. \A x \in S : G[x] <= F[x]
    BY <1>1
<1>6. SumOf(G, S) <= SumOf(F, S)
    BY <1>2, <1>5, SumMonotone
<1> QED
    BY <1>3, <1>4, <1>6
=============================================================================
