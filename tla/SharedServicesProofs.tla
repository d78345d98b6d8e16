-------------------------- MODULE SharedServicesProofs --------------------------
(* Theorems about the services of SharedServices, for every value of the constants. *)
EXTENDS SharedServices, TLAPS, SequenceTheorems, FiniteSetTheorems,
        FunctionTheorems, WellFoundedInduction

-----------------------------------------------------------------------------
(* Sequences *)

\* That t is s without the element at m.
IsWithout(t, s, m) ==
  /\ Len(t) = Len(s) - 1
  /\ \A i \in 1 .. Len(s) - 1 : t[i] = IF i < m THEN s[i] ELSE s[i + 1]

LEMMA SequenceWithout ==
  ASSUME NEW S, NEW s \in Seq(S), NEW m \in 1 .. Len(s)
  PROVE  LET t == SubSeq(s, 1, m - 1) \o SubSeq(s, m + 1, Len(s)) IN
         /\ t \in Seq(S) /\ Len(t) = Len(s) - 1
         /\ \A i \in 1 .. Len(s) - 1 : t[i] = IF i < m THEN s[i] ELSE s[i + 1]
<1> DEFINE a == SubSeq(s, 1, m - 1)
           b == SubSeq(s, m + 1, Len(s))
<1>1. Len(s) \in Nat /\ m \in Int /\ 1 <= m /\ m <= Len(s) /\ \A i \in 1 .. Len(s) : s[i] \in S
  BY LenProperties, ElementOfSeq
<1>2. /\ a \in Seq(S) /\ Len(a) = m - 1
      /\ \A i \in 1 .. m - 1 : a[i] = s[i]
  <2>1. /\ a \in Seq(S) /\ Len(a) = (IF 1 <= m - 1 THEN (m - 1) - 1 + 1 ELSE 0)
        /\ \A i \in 1 .. (m - 1) - 1 + 1 : a[i] = s[1 + i - 1]
    BY <1>1, SubSeqProperties
  <2>2. QED
    BY <1>1, <2>1
<1>3. /\ b \in Seq(S) /\ Len(b) = Len(s) - m
      /\ \A i \in 1 .. Len(s) - m : b[i] = s[m + i]
  <2>1. /\ b \in Seq(S) /\ Len(b) = (IF m + 1 <= Len(s) THEN Len(s) - (m + 1) + 1 ELSE 0)
        /\ \A i \in 1 .. Len(s) - (m + 1) + 1 : b[i] = s[(m + 1) + i - 1]
    BY <1>1, SubSeqProperties
  <2>2. QED
    BY <1>1, <2>1
<1>4. /\ a \o b \in Seq(S) /\ Len(a \o b) = Len(a) + Len(b)
      /\ \A i \in 1 .. Len(a) + Len(b) : (a \o b)[i] = IF i <= Len(a) THEN a[i] ELSE b[i - Len(a)]
  BY <1>2, <1>3, ConcatProperties, Zenon
<1> HIDE DEF a, b
<1>5. ASSUME NEW i \in 1 .. Len(s) - 1 PROVE (a \o b)[i] = IF i < m THEN s[i] ELSE s[i + 1]
  <2>0. i \in 1 .. Len(a) + Len(b) /\ i \in Int /\ Len(a) = m - 1
    BY <1>1, <1>2, <1>3
  <2>1. CASE i < m
    <3>1. i <= Len(a) /\ i \in 1 .. m - 1
      BY <1>1, <2>0, <2>1
    <3>2. QED
      BY <1>2, <1>4, <2>0, <2>1, <3>1
  <2>2. CASE i >= m
    <3>0. ~(i <= Len(a))
      BY <1>1, <2>0, <2>2
    <3>1. i - (m - 1) \in 1 .. Len(s) - m /\ m + (i - (m - 1)) = i + 1
      BY <1>1, <2>2
    <3>2. QED
      BY <1>1, <1>3, <1>4, <2>0, <2>2, <3>0, <3>1
  <2>3. QED
    BY <1>1, <2>0, <2>1, <2>2
<1>6. a \o b \in Seq(S) /\ Len(a \o b) = Len(s) - 1
  BY <1>1, <1>2, <1>3, <1>4
<1>7. QED
  BY <1>5, <1>6, Zenon DEF a, b

LEMMA SequenceWithoutLast ==
  ASSUME NEW S, NEW s \in Seq(S), Len(s) # 0
  PROVE  LET t == SubSeq(s, 1, Len(s) - 1) IN
         /\ t \in Seq(S) /\ Len(t) = Len(s) - 1
         /\ \A i \in 1 .. Len(s) - 1 : t[i] = s[i]
<1> DEFINE n == Len(s)
           t == SubSeq(s, 1, n - 1)
<1>1. n \in Nat \ {0} /\ \A i \in 1 .. n : s[i] \in S
  BY LenProperties, ElementOfSeq
<1> HIDE DEF n
<1>2. n - 1 \in Int /\ \A i \in 1 .. n - 1 : s[i] \in S
  BY <1>1
<1>3. /\ t \in Seq(S) /\ Len(t) = (IF 1 <= n - 1 THEN (n - 1) - 1 + 1 ELSE 0)
      /\ \A i \in 1 .. (n - 1) - 1 + 1 : t[i] = s[1 + i - 1]
  BY <1>2, SubSeqProperties
<1> HIDE DEF t
<1>4. Len(t) = n - 1
  BY <1>1, <1>3
<1>5. ASSUME NEW i \in 1 .. n - 1 PROVE t[i] = s[i]
  <2>1. i \in 1 .. (n - 1) - 1 + 1 /\ 1 + i - 1 = i
    BY <1>1
  <2>2. QED
    BY <1>3, <2>1
<1>6. QED
  BY <1>3, <1>4, <1>5 DEF n, t

\* Where an element is in a sequence.
Places(s, c) == {i \in DOMAIN s : s[i] = c}

\* The places of an element, once another element is dropped.
LEMMA PlacesWithout ==
  ASSUME NEW S, NEW s \in Seq(S), NEW m \in 1 .. Len(s), NEW t \in Seq(S), NEW c,
         IsWithout(t, s, m)
  PROVE  Cardinality(Places(t, c)) = Cardinality(Places(s, c)) - (IF s[m] = c THEN 1 ELSE 0)
<1> DEFINE P == {i \in DOMAIN s : s[i] = c}
           Q == {i \in DOMAIN t : t[i] = c}
           f == [i \in Q |-> IF i < m THEN i ELSE i + 1]
<1>1. /\ Len(s) \in Nat /\ m \in Int /\ 1 <= m /\ m <= Len(s)
      /\ DOMAIN s = 1 .. Len(s) /\ DOMAIN t = 1 .. Len(s) - 1
  BY LenProperties DEF IsWithout
<1>t. \A i \in 1 .. Len(s) - 1 : t[i] = IF i < m THEN s[i] ELSE s[i + 1]
  BY DEF IsWithout
<1>2. IsFiniteSet(P) /\ IsFiniteSet(Q) /\ IsFiniteSet(P \ {m})
      /\ Cardinality(P \ {m}) = Cardinality(P) - (IF s[m] = c THEN 1 ELSE 0)
  <2>1. IsFiniteSet(1 .. Len(s)) /\ IsFiniteSet(1 .. Len(s) - 1)
    BY <1>1, FS_Interval
  <2>2. P \in SUBSET (1 .. Len(s)) /\ Q \in SUBSET (1 .. Len(s) - 1)
    BY <1>1
  <2>3. IsFiniteSet(P) /\ IsFiniteSet(Q)
    BY <2>1, <2>2, FS_Subset
  <2>4. m \in P <=> s[m] = c
    BY <1>1
  <2>5. Cardinality(P) \in Nat
    BY <2>3, FS_CardinalityType
  <2> HIDE DEF P
  <2>6. /\ IsFiniteSet(P \ {m})
        /\ Cardinality(P \ {m}) = IF m \in P THEN Cardinality(P) - 1 ELSE Cardinality(P)
    BY <2>3, FS_RemoveElement, Zenon
  <2>7. Cardinality(P \ {m}) = Cardinality(P) - (IF s[m] = c THEN 1 ELSE 0)
    BY <2>4, <2>5, <2>6
  <2>8. QED
    BY <2>3, <2>6, <2>7
<1>3. f \in Bijection(Q, P \ {m})
  <2>1. \A i \in Q : f[i] \in P \ {m}
    BY <1>1, <1>t
  <2>2. \A i, j \in Q : f[i] = f[j] => i = j
    BY <1>1, <1>t
  <2>3. ASSUME NEW j \in P \ {m} PROVE \E i \in Q : f[i] = j
    <3>1. CASE j < m
      <4>1. j \in Q /\ f[j] = j
        BY <1>1, <1>t, <3>1
      <4>2. QED
        BY <4>1
    <3>2. CASE j > m
      <4>1. /\ j \in Int /\ j <= Len(s) /\ (j - 1) + 1 = j /\ ~(j - 1 < m)
            /\ j - 1 \in 1 .. Len(s) - 1 /\ s[j] = c
        BY <1>1, <1>t, <3>2
      <4>3. j - 1 \in Q
        BY <1>1, <1>t, <4>1
      <4>4. f[j - 1] = j
        <5> HIDE DEF Q
        <5>1. f[j - 1] = IF j - 1 < m THEN j - 1 ELSE (j - 1) + 1
          BY <4>3
        <5> HIDE DEF f
        <5>2. QED
          BY <4>1, <5>1
      <4>5. \E i \in Q : f[i] = j
        <5> HIDE DEF Q, f
        <5>1. QED
          BY <4>3, <4>4
      <4>6. QED
        BY <4>5
    <3>3. j \in Int /\ m \in Int /\ j # m
      BY <1>1, <1>t
    <3> HIDE DEF P, Q, f
    <3>4. QED
      BY <3>1, <3>2, <3>3
  <2> HIDE DEF P, Q
  <2>4. f \in [Q -> P \ {m}]
    BY <2>1
  <2> HIDE DEF f
  <2>5. QED
    BY <2>2, <2>3, <2>4 DEF Bijection, Injection, Surjection, IsInjective
<1>4. ExistsBijection(Q, P \ {m})
  BY <1>3 DEF ExistsBijection
<1> HIDE DEF P, Q, f
<1>5. Cardinality(P \ {m}) = Cardinality(Q)
  BY <1>2, <1>4, FS_Bijection
<1>6. QED
  BY <1>2, <1>5 DEF P, Q, Places

\* A set of natural numbers has a least element.
LEMMA LeastNumber ==
  ASSUME NEW T \in SUBSET Nat, T # {}
  PROVE  \E n \in T : \A m \in T : n <= m
<1> DEFINE R == {ss \in Nat \X Nat : ss[1] < ss[2]}
<1>1. IsWellFoundedOn(R, Nat)
  BY NatLessThanWellFounded DEF OpToRel
<1>2. \A m, n \in Nat : <<m, n>> \notin R => n <= m
  OBVIOUS
<1> HIDE DEF R
<1>3. PICK n \in T : \A m \in T : <<m, n>> \notin R
  BY <1>1, WFMin, Zenon
<1>4. QED
  BY <1>2, <1>3, Zenon

\* What is somewhere in a sequence is somewhere for the last time.
LEMMA LastPlace ==
  ASSUME NEW S, NEW s \in Seq(S), NEW c, \E i \in DOMAIN s : s[i] = c
  PROVE  \E i \in DOMAIN s : s[i] = c /\ \A j \in i + 1 .. Len(s) : s[j] # c
<1> DEFINE D == {n \in Nat : \E i \in DOMAIN s : s[i] = c /\ n = Len(s) - i}
<1>1. DOMAIN s = 1 .. Len(s) /\ Len(s) \in Nat
  BY LenProperties
<1>2. D \subseteq Nat /\ D # {}
  <2>1. PICK i \in DOMAIN s : s[i] = c
    OBVIOUS
  <2>2. Len(s) - i \in D
    BY <1>1, <2>1
  <2>3. QED
    BY <2>2
<1>3. PICK n \in D : \A k \in D : n <= k
  <2> HIDE DEF D
  <2>1. QED
    BY <1>2, LeastNumber, Zenon
<1>4. PICK i \in DOMAIN s : s[i] = c /\ n = Len(s) - i
  OBVIOUS
<1>5. ASSUME NEW j \in i + 1 .. Len(s), s[j] = c PROVE FALSE
  <2>1. j \in DOMAIN s /\ Len(s) - j \in Nat /\ Len(s) - j < n
    BY <1>1, <1>4, <1>5
  <2>2. Len(s) - j \in D
    BY <1>5, <2>1
  <2>3. QED
    BY <1>1, <1>3, <1>4, <2>1, <2>2
<1>6. QED
  BY <1>4, <1>5, Zenon

-----------------------------------------------------------------------------
(* Sums *)

\* As many elements as the numbers of a function over a set come to.
Units(g, S) == UNION {{x} \X (1 .. g[x]) : x \in S}
Sum(g, S) == Cardinality(Units(g, S))

LEMMA SumFinite ==
  ASSUME NEW S, IsFiniteSet(S), NEW g, \A x \in S : g[x] \in Nat
  PROVE  IsFiniteSet(Units(g, S)) /\ Sum(g, S) \in Nat
<1> DEFINE u == [x \in S |-> {x} \X (1 .. g[x])]
           T == {{x} \X (1 .. g[x]) : x \in S}
<1>1. \A x \in S : IsFiniteSet({x} \X (1 .. g[x]))
  <2> TAKE x \in S
  <2>0. 1 \in Int /\ g[x] \in Int
    OBVIOUS
  <2>1. IsFiniteSet({x}) /\ IsFiniteSet(1 .. g[x])
    BY <2>0, FS_Singleton, FS_Interval, Zenon
  <2>2. QED
    BY <2>1, FS_Product, Zenon
<1>2. u \in Surjection(S, T)
  <2>1. u \in [S -> T]
    OBVIOUS
  <2>2. \A t \in T : \E x \in S : u[x] = t
    OBVIOUS
  <2> HIDE DEF u, T
  <2>3. QED
    BY <2>1, <2>2 DEF Surjection
<1>3. \A t \in T : IsFiniteSet(t)
  BY <1>1
<1> HIDE DEF u, T
<1>4. IsFiniteSet(T)
  BY <1>2, FS_Surjection
<1>5. IsFiniteSet(UNION T)
  BY <1>3, <1>4, FS_UNION
<1>6. Units(g, S) = UNION T
  BY DEF Units, T
<1>7. QED
  BY <1>5, <1>6, FS_CardinalityType DEF Sum

LEMMA SumRemove ==
  ASSUME NEW S, IsFiniteSet(S), NEW g, \A y \in S : g[y] \in Nat, NEW x \in S
  PROVE  Sum(g, S) = g[x] + Sum(g, S \ {x})
<1> DEFINE R == S \ {x}
           A == {x} \X (1 .. g[x])
           B == Units(g, R)
<1>1. IsFiniteSet(R) /\ \A y \in R : g[y] \in Nat
  BY FS_RemoveElement
<1>2. IsFiniteSet(B) /\ Sum(g, R) \in Nat
  <2> HIDE DEF R
  <2>1. QED
    BY <1>1, SumFinite
<1>3. IsFiniteSet(A) /\ Cardinality(A) = g[x]
  <2>1. /\ IsFiniteSet({x}) /\ Cardinality({x}) = 1
    BY FS_Singleton, Zenon
  <2>2. g[x] \in Nat
    OBVIOUS
  <2>3. IsFiniteSet(1 .. g[x]) /\ Cardinality(1 .. g[x]) = g[x]
    <3> DEFINE n == g[x]
    <3> HIDE DEF n
    <3>1. n \in Nat
      BY <2>2 DEF n
    <3>2. IsFiniteSet(1 .. n) /\ Cardinality(1 .. n) = IF 1 > n THEN 0 ELSE n - 1 + 1
      BY <3>1, FS_Interval
    <3>3. Cardinality(1 .. n) = n
      BY <3>1, <3>2
    <3>4. QED
      BY <3>2, <3>3 DEF n
  <2>4. IsFiniteSet(A) /\ Cardinality(A) = 1 * g[x]
    BY <2>1, <2>3, FS_Product
  <2>5. QED
    BY <2>2, <2>4
<1>4. Units(g, S) = A \cup B
  BY DEF Units
<1>5. A \cap B = {}
  BY DEF Units
<1> HIDE DEF A, B
<1>6. Cardinality(A \cup B) = Cardinality(A) + Cardinality(B) - Cardinality(A \cap B)
  BY <1>2, <1>3, FS_Union
<1>7. Cardinality(A \cap B) = 0
  BY <1>5, FS_EmptySet
<1>8. Cardinality(B) = Sum(g, R)
  BY DEF Sum, B
<1>9. Sum(g, S) = Cardinality(A \cup B)
  BY <1>4 DEF Sum
<1>10. QED
  BY <1>2, <1>3, <1>6, <1>7, <1>8, <1>9

LEMMA SumSame ==
  ASSUME NEW S, NEW g, NEW h, \A x \in S : g[x] = h[x]
  PROVE  Sum(g, S) = Sum(h, S)
BY DEF Sum, Units

LEMMA SumZero ==
  ASSUME NEW S, NEW g, \A x \in S : g[x] = 0
  PROVE  Sum(g, S) = 0
<1>1. \A x \in S : {x} \X (1 .. g[x]) = {}
  OBVIOUS
<1>2. Units(g, S) = {}
  BY <1>1 DEF Units
<1>3. QED
  BY <1>2, FS_EmptySet DEF Sum

\* What changes at one element changes the sum by as much.
LEMMA SumChange ==
  ASSUME NEW S, IsFiniteSet(S), NEW g, NEW h, NEW x \in S,
         \A y \in S : g[y] \in Nat /\ h[y] \in Nat,
         \A y \in S : y # x => h[y] = g[y]
  PROVE  Sum(h, S) = Sum(g, S) - g[x] + h[x]
<1> DEFINE R == S \ {x}
<1>1. Sum(g, S) = g[x] + Sum(g, R) /\ Sum(h, S) = h[x] + Sum(h, R)
  BY SumRemove
<1>2. IsFiniteSet(R) /\ \A y \in R : h[y] = g[y] /\ g[y] \in Nat
  BY FS_RemoveElement
<1> HIDE DEF R
<1>3. Sum(h, R) = Sum(g, R)
  BY <1>2, SumSame
<1>4. Sum(g, R) \in Nat
  BY <1>2, SumFinite
<1>5. g[x] \in Nat /\ h[x] \in Nat
  OBVIOUS
<1>6. QED
  BY <1>1, <1>3, <1>4, <1>5

\* That f folds a function over the subsets of a set, an element that is chosen first.
IsFold(f, g, S) ==
  f = [s \in SUBSET S |->
        IF s = {} THEN 0 ELSE g[CHOOSE x \in s : TRUE] + f[s \ {CHOOSE x \in s : TRUE}]]

\* There is one such fold.
LEMMA OneFold ==
  ASSUME NEW S, IsFiniteSet(S), NEW g, NEW h, IsFold(h, g, S)
  PROVE  (CHOOSE f : IsFold(f, g, S))[S] = h[S]
<1> DEFINE first(s) == CHOOSE x \in s : TRUE
           f == CHOOSE k : IsFold(k, g, S)
<1>1. IsFold(f, g, S)
  OBVIOUS
<1> HIDE DEF f
<1>2. ASSUME NEW k, IsFold(k, g, S)
      PROVE  /\ k[{}] = 0
             /\ \A s \in SUBSET S : s # {} => k[s] = g[first(s)] + k[s \ {first(s)}]
  <2>1. \A s \in SUBSET S : k[s] = IF s = {} THEN 0 ELSE g[first(s)] + k[s \ {first(s)}]
    BY <1>2 DEF IsFold
  <2> HIDE DEF first
  <2>2. QED
    BY <2>1, Zenon
<1> DEFINE bad == {n \in Nat : \E s \in SUBSET S : Cardinality(s) = n /\ f[s] # h[s]}
<1>3. ASSUME bad # {} PROVE FALSE
  <2>1. bad \in SUBSET Nat
    OBVIOUS
  <2>2. PICK n \in bad : \A m \in bad : n <= m
    <3> HIDE DEF bad
    <3>1. QED
      BY <1>3, <2>1, LeastNumber
  <2>3. PICK s \in SUBSET S : Cardinality(s) = n /\ f[s] # h[s]
    OBVIOUS
  <2>4. s # {}
    BY <1>1, <1>2, <2>3, Zenon
  <2> DEFINE x == first(s)
             t == s \ {x}
  <2>5. x \in s /\ h[s] = g[x] + h[t] /\ f[s] = g[x] + f[t]
    BY <1>1, <1>2, <2>4
  <2>6. t \in SUBSET S
    OBVIOUS
  <2> HIDE DEF first, x
  <2>7. IsFiniteSet(s) /\ n \in Nat
    BY <2>1, <2>2, FS_Subset
  <2>8. Cardinality(t) = n - 1 /\ Cardinality(t) \in Nat
    BY <2>3, <2>5, <2>7, FS_RemoveElement, FS_CardinalityType
  <2>9. f[t] # h[t]
    BY <2>3, <2>5
  <2> HIDE DEF t
  <2>10. Cardinality(t) \in bad
    BY <2>6, <2>8, <2>9
  <2> HIDE DEF bad
  <2>11. n <= Cardinality(t)
    BY <2>2, <2>10
  <2>12. QED
    BY <2>7, <2>8, <2>11
<1>4. Cardinality(S) \in Nat /\ S \in SUBSET S
  BY FS_CardinalityType
<1>5. f[S] = h[S]
  BY <1>3, <1>4
<1>6. QED
  BY <1>5 DEF f

\* A fold of numbers that may be negative is the sum of some less the sum of the others.
LEMMA FoldIsDifference ==
  ASSUME NEW S, IsFiniteSet(S), NEW g, NEW p, NEW n,
         \A x \in S : p[x] \in Nat /\ n[x] \in Nat /\ g[x] = p[x] - n[x]
  PROVE  (CHOOSE f : IsFold(f, g, S))[S] = Sum(p, S) - Sum(n, S)
<1> DEFINE first(s) == CHOOSE x \in s : TRUE
           sums == [s \in SUBSET S |-> Sum(p, s) - Sum(n, s)]
<1>1. ASSUME NEW s \in SUBSET S, s # {}
      PROVE  Sum(p, s) - Sum(n, s) = g[first(s)] + (Sum(p, s \ {first(s)}) - Sum(n, s \ {first(s)}))
  <2> DEFINE x == first(s)
  <2>1. x \in s
    BY <1>1
  <2>2. IsFiniteSet(s) /\ \A y \in s : p[y] \in Nat /\ n[y] \in Nat
    BY FS_Subset
  <2> HIDE DEF x, first
  <2>3. Sum(p, s) = p[x] + Sum(p, s \ {x}) /\ Sum(n, s) = n[x] + Sum(n, s \ {x})
    BY <2>1, <2>2, SumRemove
  <2>4. IsFiniteSet(s \ {x}) /\ \A y \in s \ {x} : p[y] \in Nat /\ n[y] \in Nat
    BY <2>2, FS_RemoveElement
  <2>5. Sum(p, s \ {x}) \in Nat /\ Sum(n, s \ {x}) \in Nat
    BY <2>4, SumFinite
  <2>6. p[x] \in Nat /\ n[x] \in Nat /\ g[x] = p[x] - n[x]
    BY <2>1
  <2>7. QED
    BY <2>3, <2>5, <2>6 DEF x
<1>2. Sum(p, {}) = 0 /\ Sum(n, {}) = 0
  BY SumZero
<1>3. IsFold(sums, g, S)
  <2> DEFINE r == [s \in SUBSET S |-> IF s = {} THEN 0 ELSE g[first(s)] + sums[s \ {first(s)}]]
  <2>1. ASSUME NEW s \in SUBSET S
        PROVE  Sum(p, s) - Sum(n, s) = IF s = {} THEN 0 ELSE g[first(s)] + sums[s \ {first(s)}]
    <3>1. CASE s = {}
      BY <1>2, <3>1
    <3>2. CASE s # {}
      <4>1. s \ {first(s)} \in SUBSET S
        OBVIOUS
      <4>2. sums[s \ {first(s)}] = Sum(p, s \ {first(s)}) - Sum(n, s \ {first(s)})
        BY <4>1
      <4> HIDE DEF first, sums
      <4>3. QED
        BY <1>1, <3>2, <4>2
    <3>3. QED
      BY <3>1, <3>2
  <2>2. sums = r
    BY <2>1, Zenon
  <2>3. QED
    BY <2>2, Zenon DEF IsFold
<1>4. (CHOOSE f : IsFold(f, g, S))[S] = sums[S]
  <2> HIDE DEF sums
  <2>1. QED
    BY <1>3, OneFold
<1>5. QED
  BY <1>4

\* A fold of natural numbers is their sum.
LEMMA FoldIsSum ==
  ASSUME NEW S, IsFiniteSet(S), NEW g, \A x \in S : g[x] \in Nat
  PROVE  (CHOOSE f : IsFold(f, g, S))[S] = Sum(g, S)
<1> DEFINE zero == [x \in S |-> 0]
<1>1. \A x \in S : zero[x] = 0
  OBVIOUS
<1> HIDE DEF zero
<1>2. \A x \in S : g[x] \in Nat /\ zero[x] \in Nat /\ g[x] = g[x] - zero[x]
  BY <1>1
<1>3. (CHOOSE f : IsFold(f, g, S))[S] = Sum(g, S) - Sum(zero, S)
  BY <1>2, FoldIsDifference
<1>4. Sum(g, S) \in Nat /\ Sum(zero, S) = 0
  BY <1>1, SumZero, SumFinite
<1>5. QED
  BY <1>3, <1>4

-----------------------------------------------------------------------------
(* BusinessLines *)

\* What a process has cached of a line has a status the line was to have, a line
\* about to be saved is cached, and nothing is cached of lines that do not exist.
LinesInv ==
  /\ Lining!TypeOK
  /\ Lining!CacheFollowsRows
  /\ \A p \in Processes, b \in 1 .. MaxLines :
       /\ cache[p][b] # None => b \in DOMAIN rows /\ cache[p][b].status \in given[b]
  /\ \A p \in Processes : stage[p] = "save" => line[p] # 0 /\ cache[p][line[p]] # None

LEMMA LinesInit == Lining!Init => LinesInv
<1> SUFFICES ASSUME Lining!Init PROVE LinesInv
  OBVIOUS
<1> USE ServicesAssumption DEF Lining!Init, ServicesAssumption
<1>1. rows \in Seq([status : Lining!Statuses, active : 0 .. 0]) /\ Len(rows) = 0
      /\ given \in Seq(SUBSET Lining!Statuses)
  OBVIOUS
<1>2. Lining!TypeOK
  BY <1>1 DEF Lining!TypeOK
<1>3. QED
  BY <1>2 DEF LinesInv, Lining!CacheFollowsRows

\* Every step of the registry preserves it.
LEMMA LinesStep == LinesInv /\ [Lining!Next]_(Lining!vars) => LinesInv'
<1> SUFFICES ASSUME LinesInv, [Lining!Next]_(Lining!vars) PROVE LinesInv'
  OBVIOUS
<1> DEFINE Row(n) == [status : Lining!Statuses, active : 0 .. n]
<1>a. clock \in Nat /\ MaxLines \in Nat /\ MaxSaves \in Nat
  BY ServicesAssumption DEF ServicesAssumption, LinesInv, Lining!TypeOK
<1>b. /\ None \notin Row(clock) /\ None \notin Row(clock + 1)
      /\ Row(clock) \subseteq Row(clock + 1)
  BY <1>a, ServicesAssumption DEF ServicesAssumption
<1>c. /\ DOMAIN rows = 1 .. Len(rows) /\ Len(rows) \in Nat /\ Len(rows) <= MaxLines
      /\ \A b \in DOMAIN rows : rows[b] \in Row(clock)
  BY LenProperties, ElementOfSeq, Zenon DEF LinesInv, Lining!TypeOK
<1>d. DOMAIN given = 1 .. Len(rows) /\ \A b \in DOMAIN given : given[b] \subseteq Lining!Statuses
  BY LenProperties, ElementOfSeq DEF LinesInv, Lining!TypeOK
<1>e. /\ stage \in [Processes -> {"idle", "save"}] /\ line \in [Processes -> 0 .. Len(rows)]
      /\ cache \in [Processes -> [1 .. MaxLines -> {None} \cup Row(clock)]]
      /\ behindRows \in [Processes -> SUBSET DOMAIN rows]
  BY DEF LinesInv, Lining!TypeOK
<1>f. \A q \in Processes, b \in 1 .. MaxLines :
        cache[q][b] # None => b \in DOMAIN rows /\ cache[q][b].status \in given[b]
  BY DEF LinesInv
<1>g. \A q \in Processes : stage[q] = "save" => line[q] # 0 /\ cache[q][line[q]] # None
  BY DEF LinesInv
<1> USE DEF LinesInv, Lining!TypeOK, Lining!CacheFollowsRows
<1>1. ASSUME NEW p \in Processes, Lining!Create(p)
      PROVE  LinesInv'
  <2> DEFINE new == [status |-> "active", active |-> clock]
             l == Len(rows) + 1
  <2> USE <1>1 DEF Lining!Create
  <2>1. /\ rows' = Append(rows, new) /\ given' = Append(given, {"active"})
        /\ new \in Row(clock) /\ {"active"} \in SUBSET Lining!Statuses
        /\ l \in 1 .. MaxLines
    BY <1>a, <1>c DEF Lining!Statuses
  <2>2. /\ rows' \in Seq(Row(clock)) /\ Len(rows') = l /\ DOMAIN rows' = 1 .. l
        /\ rows'[l] = new /\ \A b \in DOMAIN rows : rows'[b] = rows[b]
    BY <1>c, <2>1, AppendProperties, LenProperties
  <2>3. /\ given' \in Seq(SUBSET Lining!Statuses) /\ Len(given') = l
        /\ given'[l] = {"active"} /\ \A b \in DOMAIN rows : given'[b] = given[b]
    BY <1>c, <1>d, <2>1, AppendProperties, LenProperties
  <2>4. cache' = [cache EXCEPT ![p][l] = new] /\ UNCHANGED <<stage, line, clock, behindRows>>
    OBVIOUS
  <2>5. \A q \in Processes : behindRows[q] \subseteq DOMAIN rows /\ line[q] \in 0 .. Len(rows)
    OBVIOUS
  <2>6. Lining!TypeOK'
    BY <1>a, <1>c, <2>1, <2>2, <2>3, <2>4, <2>5
  <2>7. \A q \in Processes, b \in 1 .. MaxLines :
          cache'[q][b] = IF q = p /\ b = l THEN new ELSE cache[q][b]
    <3> HIDE <1>1 DEF Lining!Create, new, l, LinesInv, Lining!TypeOK
    <3> QED
      BY <1>e, <2>1, <2>4, Zenon
  <2>8. \A q \in Processes : cache[q][l] = None
    BY <1>c, <2>1
  <2>9. \A b \in DOMAIN rows' : b \in DOMAIN rows \/ b = l
    BY <1>c, <2>2
  <2> HIDE <1>1 DEF Lining!Create, new, l
  <2>10. Lining!CacheFollowsRows'
    BY <1>c, <2>1, <2>2, <2>3, <2>4, <2>7, <2>8, <2>9 DEF new
  <2>11. \A q \in Processes, b \in 1 .. MaxLines :
          cache'[q][b] # None => b \in DOMAIN rows' /\ cache'[q][b].status \in given'[b]
    <3> HIDE DEF LinesInv
    <3>1. new.status = "active"
      BY DEF new
    <3>2. {"active"} = given'[l] /\ DOMAIN rows' = 1 .. l
      BY <2>2, <2>3
    <3>3. l \in DOMAIN rows' /\ DOMAIN rows \subseteq DOMAIN rows'
      BY <1>c, <2>1, <3>2 DEF l
    <3> QED
      BY <1>f, <2>3, <2>7, <3>1, <3>2, <3>3
  <2>12. \A q \in Processes : stage'[q] = "save" => line'[q] # 0 /\ cache'[q][line'[q]] # None
    BY <1>b, <1>c, <2>1, <2>4, <2>7
  <2>13. QED
    BY <2>6, <2>10, <2>11, <2>12
<1>2. ASSUME NEW p \in Processes, NEW b \in DOMAIN rows, Lining!Get(p, b)
      PROVE  LinesInv'
  <2>1. /\ cache' = [cache EXCEPT ![p][b] = Lining!Cached(p, b)]
        /\ UNCHANGED <<stage, line, rows, clock, given, behindRows>>
    BY <1>2 DEF Lining!Get
  <2>2. Lining!Cached(p, b) \in Row(clock) /\ b \in 1 .. MaxLines
    BY <1>a, <1>c DEF Lining!Cached
  <2>3. \A q \in Processes, c \in 1 .. MaxLines :
          cache'[q][c] = IF q = p /\ c = b THEN Lining!Cached(p, b) ELSE cache[q][c]
    BY <2>1, Zenon
  <2>4. Lining!TypeOK'
    BY <2>1, <2>2
  <2>5. Lining!CacheFollowsRows'
    BY <1>c, <1>a, <2>1, <2>3 DEF Lining!Cached
  <2>6. QED
    <3>1. Lining!Cached(p, b).status \in given[b] /\ Lining!Cached(p, b) # None
      BY <1>b, <1>c, <1>f, <2>2 DEF Lining!Cached
    <3>2. \A q \in Processes, c \in 1 .. MaxLines :
            cache'[q][c] # None => c \in DOMAIN rows' /\ cache'[q][c].status \in given'[c]
      <4> HIDE DEF LinesInv
      <4> QED
        BY <1>f, <2>1, <2>3, <3>1
    <3>3. \A q \in Processes : stage'[q] = "save" => line'[q] # 0 /\ cache'[q][line'[q]] # None
      BY <1>c, <1>e, <1>g, <2>1, <2>3, <3>1
    <3> QED
      BY <2>4, <2>5, <3>2, <3>3
<1>3. ASSUME NEW p \in Processes, NEW statuses \in SUBSET Lining!Statuses, Lining!List(p, statuses)
      PROVE  LinesInv'
  <2> DEFINE listed == {b \in DOMAIN rows : rows[b].status \in statuses}
  <2>1. /\ cache' = [cache EXCEPT ![p] = [b \in 1 .. MaxLines |->
                       IF b \in listed THEN rows[b] ELSE cache[p][b]]]
        /\ behindRows' = [behindRows EXCEPT ![p] = @ \ listed]
        /\ UNCHANGED <<stage, line, rows, clock, given>>
        /\ stage[p] = "idle"
    BY <1>3 DEF Lining!List
  <2>2. listed \subseteq DOMAIN rows
    OBVIOUS
  <2>3. \A q \in Processes, b \in 1 .. MaxLines :
          cache'[q][b] = IF q = p /\ b \in listed THEN rows[b] ELSE cache[q][b]
    BY <2>1
  <2> HIDE DEF listed
  <2>4. Lining!TypeOK'
    <3>1. cache' \in [Processes -> [1 .. MaxLines -> {None} \cup Row(clock)]]
      <4>1. [b \in 1 .. MaxLines |-> IF b \in listed THEN rows[b] ELSE cache[p][b]]
              \in [1 .. MaxLines -> {None} \cup Row(clock)]
        <5> HIDE DEF LinesInv, Lining!TypeOK, Row
        <5> QED
          BY <1>c, <1>e, <2>2, Zenon
      <4> HIDE DEF LinesInv, Lining!TypeOK, Row
      <4> QED
        BY <1>e, <2>1, <4>1
    <3>2. behindRows' \in [Processes -> SUBSET DOMAIN rows]
      BY <1>e, <2>1
    <3> QED
      BY <2>1, <3>1, <3>2
  <2>5. Lining!CacheFollowsRows'
    BY <1>c, <1>a, <2>1, <2>2, <2>3
  <2>6. QED
    BY <1>b, <1>c, <2>1, <2>2, <2>3, <2>4, <2>5
<1>4. ASSUME NEW p \in Processes, NEW b \in DOMAIN rows, NEW status \in Lining!Statuses,
             Lining!UpdateStatus(p, b, status)
      PROVE  LinesInv'
  <2> DEFINE new == [status |-> status, active |-> clock + 1]
  <2>1. /\ stage' = [stage EXCEPT ![p] = "save"] /\ line' = [line EXCEPT ![p] = b]
        /\ clock' = clock + 1 /\ clock < MaxSaves
        /\ cache' = [cache EXCEPT ![p][b] = new]
        /\ given' = [given EXCEPT ![b] = @ \cup {status}]
        /\ behindRows' = [behindRows EXCEPT ![p] = @ \cup {b}]
        /\ rows' = rows
    BY <1>4 DEF Lining!UpdateStatus
  <2>2. new \in Row(clock + 1) /\ b \in 1 .. MaxLines /\ new.status = status
    BY <1>a, <1>c
  <2>3. \A q \in Processes, c \in 1 .. MaxLines :
          cache'[q][c] = IF q = p /\ c = b THEN new ELSE cache[q][c]
    BY <2>1, <2>2, Zenon
  <2>4. /\ given' \in Seq(SUBSET Lining!Statuses) /\ Len(given') = Len(given)
        /\ \A c \in DOMAIN rows : given[c] \subseteq given'[c]
        /\ status \in given'[b]
    BY <1>c, <1>d, <2>1, ExceptSeq
  <2>5. rows' \in Seq(Row(clock + 1))
    BY <1>b, <2>1, SeqMonotonic, Zenon
  <2> HIDE DEF new
  <2>6. clock' \in 0 .. MaxSaves /\ stage' \in [Processes -> {"idle", "save"}]
        /\ line' \in [Processes -> 0 .. Len(rows)]
        /\ behindRows' \in [Processes -> SUBSET DOMAIN rows]
    BY <1>a, <1>c, <2>1
  <2>7. cache' \in [Processes -> [1 .. MaxLines -> {None} \cup Row(clock + 1)]]
    BY <1>b, <2>1, <2>2
  <2>8. Lining!TypeOK'
    BY <2>1, <2>4, <2>5, <2>6, <2>7, Zenon
  <2>9. Lining!CacheFollowsRows'
    BY <1>a, <1>c, <2>1, <2>3, <2>4
  <2>10. \A q \in Processes, c \in 1 .. MaxLines :
          cache'[q][c] # None => c \in DOMAIN rows' /\ cache'[q][c].status \in given'[c]
    BY <1>c, <2>1, <2>2, <2>3, <2>4
  <2>11. \A q \in Processes : stage'[q] = "save" => line'[q] # 0 /\ cache'[q][line'[q]] # None
    BY <1>b, <1>c, <2>1, <2>2, <2>3
  <2>12. QED
    BY <2>8, <2>9, <2>10, <2>11
<1>5. ASSUME NEW p \in Processes, Lining!SaveBusinessLine(p)
      PROVE  LinesInv'
  <2> DEFINE b == line[p]
  <2>1. /\ stage[p] = "save" /\ stage' = [stage EXCEPT ![p] = "idle"]
        /\ rows' = [rows EXCEPT ![b] = cache[p][b]]
        /\ behindRows' = [q \in Processes |->
             IF q = p THEN behindRows[q] \ {b} ELSE behindRows[q] \cup {b}]
        /\ UNCHANGED <<line, cache, clock, given>>
    BY <1>5 DEF Lining!SaveBusinessLine
  <2>2. b \in DOMAIN rows /\ b \in 1 .. MaxLines /\ cache[p][b] \in Row(clock)
        /\ cache[p][b].status \in given[b]
    BY <1>a, <1>c, <2>1
  <2>3. /\ rows' \in Seq(Row(clock)) /\ Len(rows') = Len(rows) /\ DOMAIN rows' = DOMAIN rows
        /\ \A c \in DOMAIN rows : rows'[c] = IF c = b THEN cache[p][b] ELSE rows[c]
    BY <1>c, <2>1, <2>2, ExceptSeq, LenProperties
  <2> HIDE DEF b
  <2>4. Lining!TypeOK'
    BY <2>1, <2>2, <2>3
  <2>5. Lining!CacheFollowsRows'
    BY <1>c, <1>a, <2>1, <2>2, <2>3
  <2>6. QED
    BY <2>1, <2>3, <2>4, <2>5
<1>6. ASSUME NEW p \in Processes, Lining!SaveFails(p)
      PROVE  LinesInv'
  <2>1. /\ stage' = [stage EXCEPT ![p] = "idle"]
        /\ UNCHANGED <<line, rows, cache, clock, given, behindRows>>
    BY <1>6 DEF Lining!SaveFails
  <2>2. QED
    BY <2>1
<1>7. CASE UNCHANGED Lining!vars
  BY <1>7 DEF Lining!vars
<1>8. QED
  BY <1>1, <1>2, <1>3, <1>4, <1>5, <1>6, <1>7, Zenon DEF Lining!Next

-----------------------------------------------------------------------------
(* DryRunMode *)

\* Of the open contexts of a coroutine.
Opened(c) == Places(order, c)

\* Each open context is in the order once; and as long as none is crossed, the
\* oldest found the mode that was set outside and every other a dry run.
DryInv ==
  /\ Drying!TypeOK
  /\ Drying!DryRunHolds
  /\ \A c \in Processes : Len(contexts[c]) = Cardinality(Opened(c))
  /\ ~crossed => \A c \in Processes : \A k \in 1 .. Len(contexts[c]) :
       IF k = 1 /\ order[1] = c
       THEN contexts[c][k].enabled = base /\ contexts[c][k].tools = base
       ELSE contexts[c][k].enabled /\ contexts[c][k].tools

LEMMA DryInit == Drying!Init => DryInv
<1> SUFFICES ASSUME Drying!Init PROVE DryInv
  OBVIOUS
<1>0. MaxDepth \in Nat /\ configured \in BOOLEAN /\ order = <<>> /\ Len(order) = 0
      /\ DOMAIN order = {} /\ order \in Seq(Processes)
  BY ServicesAssumption, EmptySeq, LenProperties DEF ServicesAssumption, Drying!Init
<1>1. mode \in Drying!Modes /\ mode.enabled = base /\ mode.tools = base /\ base = configured
      /\ provider = configured
  BY <1>0 DEF Drying!Init, Drying!Modes
<1>2. /\ contexts \in [Processes -> Seq(Drying!Modes)]
      /\ \A c \in Processes : contexts[c] = <<>> /\ Len(contexts[c]) = 0
  BY EmptySeq DEF Drying!Init
<1>n. \A c \in Processes : Len(contexts[c]) \in Nat /\ Len(contexts[c]) <= 0
  <2> TAKE c \in Processes
  <2> QED
    BY <1>2
<1>3. Drying!TypeOK
  <2>1. crossed \in BOOLEAN /\ provider \in BOOLEAN /\ base \in BOOLEAN
    BY <1>0, <1>1, Zenon DEF Drying!Init
  <2>2. allowed \subseteq tools /\ tools \subseteq Tools \cup Plain
    BY DEF Drying!Init
  <2>3. \A c \in Processes : Len(contexts[c]) <= MaxDepth
    <3> TAKE c \in Processes
    <3>1. MaxDepth \in Nat
      BY <1>0
    <3>2. QED
      BY <1>n, <3>1
  <2>4. QED
    BY <1>0, <1>1, <1>2, <2>1, <2>2, <2>3, Zenon DEF Drying!TypeOK
<1>4. Drying!DryRunHolds
  BY <1>0, <1>1 DEF Drying!Init, Drying!DryRunHolds
<1>5. \A c \in Processes : Cardinality(Opened(c)) = 0
  BY <1>0, FS_EmptySet DEF Opened, Places
<1>6. \A c \in Processes : 1 .. Len(contexts[c]) = {}
  <2> TAKE c \in Processes
  <2> QED
    BY <1>n
<1> HIDE DEF Opened
<1>7. \A c \in Processes : Len(contexts[c]) = Cardinality(Opened(c))
  BY <1>2, <1>5
<1>8. \A c \in Processes : \A k \in 1 .. Len(contexts[c]) :
        IF k = 1 /\ order[1] = c
        THEN contexts[c][k].enabled = base /\ contexts[c][k].tools = base
        ELSE contexts[c][k].enabled /\ contexts[c][k].tools
  BY <1>6
<1>9. QED
  BY <1>3, <1>4, <1>7, <1>8, Zenon DEF DryInv

\* Entering one and leaving one, the order kept.
LEMMA DryEnter ==
  ASSUME DryInv, NEW c \in Processes, Drying!Enter(c)
  PROVE  DryInv'
<1>a. /\ order \in Seq(Processes) /\ contexts \in [Processes -> Seq(Drying!Modes)]
      /\ mode \in Drying!Modes /\ crossed \in BOOLEAN /\ base \in BOOLEAN /\ configured \in BOOLEAN
      /\ MaxDepth \in Nat
  BY ServicesAssumption DEF ServicesAssumption, DryInv, Drying!TypeOK
<1>c. \A e \in Processes : Len(contexts[e]) = Cardinality(Opened(e))
  BY DEF DryInv
<1>b. /\ Len(contexts[c]) < MaxDepth
      /\ contexts' = [contexts EXCEPT ![c] = Append(contexts[c], mode)]
      /\ mode' = [enabled |-> TRUE, tools |-> TRUE] /\ provider' = (TRUE \/ configured)
      /\ order' = Append(order, c)
      /\ UNCHANGED <<configured, tools, allowed, call, crossed, base>>
  BY DEF Drying!Enter, Drying!SetsDryRun
<1>1. /\ order' \in Seq(Processes) /\ DOMAIN order' = 1 .. Len(order) + 1
      /\ DOMAIN order = 1 .. Len(order) /\ Len(order) \in Nat /\ Len(order') = Len(order) + 1
      /\ order'[Len(order) + 1] = c /\ \A i \in DOMAIN order : order'[i] = order[i]
  BY <1>a, <1>b, AppendProperties, LenProperties
<1>2. /\ contexts[c] \in Seq(Drying!Modes) /\ Len(contexts[c]) \in Nat
      /\ contexts'[c] \in Seq(Drying!Modes) /\ Len(contexts'[c]) = Len(contexts[c]) + 1
      /\ contexts'[c][Len(contexts[c]) + 1] = mode
      /\ \A k \in 1 .. Len(contexts[c]) : contexts'[c][k] = contexts[c][k]
      /\ \A d \in Processes : d # c => contexts'[d] = contexts[d]
  BY <1>a, <1>b, AppendProperties, LenProperties
<1>3. \A d \in Processes : IsFiniteSet(Opened(d)) /\ Cardinality(Opened(d)) \in Nat
  <2> TAKE d \in Processes
  <2>1. IsFiniteSet(1 .. Len(order)) /\ Opened(d) \in SUBSET (1 .. Len(order))
    BY <1>1, FS_Interval DEF Opened, Places
  <2>2. QED
    BY <2>1, FS_Subset, FS_CardinalityType
<1>4. ASSUME NEW d \in Processes
      PROVE  Cardinality(Opened(d)') = Cardinality(Opened(d)) + (IF d = c THEN 1 ELSE 0)
  <2>1. CASE d = c
    <3>1. Opened(d)' = Opened(d) \cup {Len(order) + 1} /\ Len(order) + 1 \notin Opened(d)
      BY <1>1, <2>1 DEF Opened, Places
    <3>2. QED
      BY <1>3, <2>1, <3>1, FS_AddElement, Zenon
  <2>2. CASE d # c
    <3>1. Opened(d)' = Opened(d)
      BY <1>1, <2>2 DEF Opened, Places
    <3>2. QED
      BY <1>3, <2>2, <3>1
  <2>3. QED
    BY <2>1, <2>2
<1>5. mode' \in Drying!Modes /\ mode'.enabled /\ mode'.tools /\ provider' = TRUE
  BY <1>b, Zenon DEF Drying!Modes
<1>6. order' # <<>>
  BY <1>1
<1>7. Drying!TypeOK'
  <2>1. contexts' \in [Processes -> Seq(Drying!Modes)]
    BY <1>a, <1>b, <1>2
  <2>2. \A d \in Processes : Len(contexts'[d]) <= MaxDepth
    BY <1>a, <1>b, <1>2 DEF DryInv, Drying!TypeOK
  <2>3. QED
    BY <1>b, <1>1, <1>5, <2>1, <2>2 DEF DryInv, Drying!TypeOK
<1>8. Drying!DryRunHolds'
  BY <1>b, <1>5, <1>6, Zenon DEF DryInv, Drying!DryRunHolds
<1>9. \A d \in Processes : Len(contexts'[d]) = Cardinality(Opened(d)')
  BY <1>2, <1>3, <1>4 DEF DryInv
<1>10. ASSUME ~crossed', NEW d \in Processes, NEW k \in 1 .. Len(contexts'[d])
       PROVE  IF k = 1 /\ order'[1] = d
              THEN contexts'[d][k].enabled = base' /\ contexts'[d][k].tools = base'
              ELSE contexts'[d][k].enabled /\ contexts'[d][k].tools
  <2>1. ~crossed /\ base' = base
    BY <1>b, <1>10
  <2>2. ASSUME order # <<>> PROVE order'[1] = order[1] /\ 1 \in DOMAIN order
    <3>1. Len(order) # 0
      BY <1>a, <2>2, EmptySeq
    <3>2. 1 \in DOMAIN order
      BY <1>1, <3>1
    <3>3. QED
      BY <1>1, <3>2
  <2>3. ASSUME order = <<>> PROVE \A e \in Processes : Len(contexts[e]) = 0
    <3>1. DOMAIN order = {}
      BY <2>3
    <3>2. \A e \in Processes : Opened(e) = {}
      BY <3>1 DEF Opened, Places
    <3>3. \A e \in Processes : Cardinality(Opened(e)) = 0
      BY <3>2, FS_EmptySet, Zenon
    <3>4. QED
      BY <1>c, <3>3
  <2>4. CASE d = c /\ k = Len(contexts[c]) + 1
    <3>1. contexts'[d][k] = mode
      BY <1>2, <2>4
    <3>2. CASE order = <<>>
      <4>1. Len(order) = 0
        BY <1>a, <3>2, EmptySeq
      <4>2. k = 1 /\ order'[1] = c
        BY <1>1, <2>3, <2>4, <3>2, <4>1
      <4>3. mode.enabled = base /\ mode.tools = base
        BY <2>1, <3>2 DEF DryInv, Drying!DryRunHolds
      <4>4. QED
        BY <2>1, <2>4, <3>1, <4>2, <4>3
    <3>3. CASE order # <<>>
      <4>1. mode.enabled /\ mode.tools
        BY <2>1, <3>3 DEF DryInv, Drying!DryRunHolds
      <4>2. ASSUME order'[1] = c PROVE k # 1
        <5>1. 1 \in Opened(c)
          BY <2>2, <3>3, <4>2 DEF Opened, Places
        <5>2. Cardinality(Opened(c)) # 0
          BY <1>3, <5>1, FS_EmptySet
        <5>3. QED
          BY <1>2, <2>4, <5>2 DEF DryInv
      <4>3. QED
        BY <2>4, <3>1, <4>1, <4>2, Zenon
    <3>4. QED
      BY <3>2, <3>3
  <2>5. CASE ~(d = c /\ k = Len(contexts[c]) + 1)
    <3>1. k \in 1 .. Len(contexts[d]) /\ contexts'[d][k] = contexts[d][k]
      BY <1>2, <2>5
    <3>2. order # <<>>
      BY <2>3, <3>1
    <3>3. order'[1] = order[1]
      BY <2>2, <3>2
    <3>4. QED
      BY <2>1, <3>1, <3>3 DEF DryInv
  <2>6. QED
    BY <2>4, <2>5
<1>11. QED
  BY <1>7, <1>8, <1>9, <1>10 DEF DryInv

LEMMA DryExit ==
  ASSUME DryInv, NEW c \in Processes, Drying!Exit(c)
  PROVE  DryInv'
<1> DEFINE found == contexts[c][Len(contexts[c])]
           m == CHOOSE i \in DOMAIN order : order[i] = c /\ \A j \in i + 1 .. Len(order) : order[j] # c
<1>a. /\ order \in Seq(Processes) /\ contexts \in [Processes -> Seq(Drying!Modes)]
      /\ crossed \in BOOLEAN /\ base \in BOOLEAN /\ configured \in BOOLEAN
  BY DEF DryInv, Drying!TypeOK
<1>b. /\ contexts[c] # <<>> /\ mode' = found /\ provider' = (found.enabled \/ configured)
      /\ contexts' = [contexts EXCEPT ![c] = SubSeq(contexts[c], 1, Len(contexts[c]) - 1)]
      /\ order' = SubSeq(order, 1, m - 1) \o SubSeq(order, m + 1, Len(order))
      /\ crossed' = (crossed \/ m # Len(order))
      /\ UNCHANGED <<configured, tools, allowed, call, base>>
  BY DEF Drying!Exit, Drying!SetsDryRun
<1>c. \A d \in Processes : Len(contexts[d]) = Cardinality(Opened(d))
  BY DEF DryInv
<1>d. DOMAIN order = 1 .. Len(order) /\ Len(order) \in Nat
  BY <1>a, LenProperties
<1>e. \A d \in Processes : IsFiniteSet(Opened(d)) /\ Cardinality(Opened(d)) \in Nat
  <2> TAKE d \in Processes
  <2>1. IsFiniteSet(1 .. Len(order)) /\ Opened(d) \in SUBSET (1 .. Len(order))
    BY <1>d, FS_Interval DEF Opened, Places
  <2>2. QED
    BY <2>1, FS_Subset, FS_CardinalityType
<1>f. /\ contexts[c] \in Seq(Drying!Modes) /\ Len(contexts[c]) \in Nat \ {0}
      /\ \A k \in 1 .. Len(contexts[c]) : contexts[c][k] \in Drying!Modes
  BY <1>a, <1>b, EmptySeq, LenProperties, ElementOfSeq
<1>1. /\ contexts'[c] \in Seq(Drying!Modes) /\ Len(contexts'[c]) = Len(contexts[c]) - 1
      /\ \A k \in 1 .. Len(contexts[c]) - 1 : contexts'[c][k] = contexts[c][k]
      /\ \A d \in Processes : d # c => contexts'[d] = contexts[d]
  <2> DEFINE t == SubSeq(contexts[c], 1, Len(contexts[c]) - 1)
  <2>1. /\ t \in Seq(Drying!Modes) /\ Len(t) = Len(contexts[c]) - 1
        /\ \A k \in 1 .. Len(contexts[c]) - 1 : t[k] = contexts[c][k]
    BY <1>f, SequenceWithoutLast
  <2>2. contexts'[c] = t /\ \A d \in Processes : d # c => contexts'[d] = contexts[d]
    BY <1>a, <1>b
  <2> HIDE DEF t
  <2>3. QED
    BY <2>1, <2>2
<1>2. m \in 1 .. Len(order) /\ order[m] = c
  <2>1. Opened(c) # {}
    BY <1>c, <1>e, <1>f, FS_EmptySet
  <2>2. \E i \in DOMAIN order : order[i] = c
    BY <2>1 DEF Opened, Places
  <2>3. \E i \in DOMAIN order : order[i] = c /\ \A j \in i + 1 .. Len(order) : order[j] # c
    BY <1>a, <2>2, LastPlace, Zenon
  <2>4. m \in DOMAIN order /\ order[m] = c
    BY <2>3
  <2>5. QED
    BY <1>d, <2>4
<1> HIDE DEF m
<1>3. /\ order' \in Seq(Processes) /\ Len(order') = Len(order) - 1
      /\ \A i \in 1 .. Len(order) - 1 : order'[i] = IF i < m THEN order[i] ELSE order[i + 1]
  BY <1>a, <1>b, <1>2, SequenceWithout, Zenon
<1>4. ASSUME NEW d \in Processes
      PROVE  Cardinality(Opened(d)') = Cardinality(Opened(d)) - (IF d = c THEN 1 ELSE 0)
  <2> DEFINE t == order'
  <2>1. t \in Seq(Processes) /\ IsWithout(t, order, m)
    BY <1>3 DEF IsWithout
  <2> HIDE DEF t
  <2>2. Cardinality(Places(t, d)) = Cardinality(Places(order, d)) - (IF order[m] = d THEN 1 ELSE 0)
    BY <1>a, <1>2, <2>1, PlacesWithout
  <2>3. QED
    BY <1>2, <2>2 DEF Opened, t
<1>5. \A d \in Processes : Len(contexts'[d]) = Cardinality(Opened(d)')
  <2> TAKE d \in Processes
  <2>1. CASE d = c
    BY <1>1, <1>c, <1>4, <2>1
  <2>2. CASE d # c
    <3>1. Cardinality(Opened(d)') = Cardinality(Opened(d)) - 0
      BY <1>4, <2>2
    <3>2. QED
      BY <1>1, <1>c, <1>e, <2>2, <3>1
  <2>3. QED
    BY <2>1, <2>2
<1>6. found \in Drying!Modes
  BY <1>f
<1>7. Drying!TypeOK'
  <2>1. contexts' \in [Processes -> Seq(Drying!Modes)]
    BY <1>a, <1>b, <1>1, Zenon
  <2>2. \A d \in Processes : Len(contexts'[d]) <= MaxDepth
    <3> TAKE d \in Processes
    <3>1. Len(contexts[d]) <= MaxDepth /\ MaxDepth \in Nat
      BY ServicesAssumption DEF ServicesAssumption, DryInv, Drying!TypeOK
    <3>2. QED
      BY <1>1, <1>f, <3>1
  <2>3. found.enabled \in BOOLEAN
    BY <1>6 DEF Drying!Modes
  <2> HIDE DEF found
  <2>4. crossed' \in BOOLEAN /\ provider' \in BOOLEAN
    BY <1>b
  <2>5. allowed' \subseteq tools' /\ tools' \subseteq Tools \cup Plain /\ base' \in BOOLEAN
        /\ configured' \in BOOLEAN
    BY <1>a, <1>b, Zenon DEF DryInv, Drying!TypeOK
  <2>6. mode' \in Drying!Modes
    BY <1>b, <1>6
  <2>7. QED
    BY <1>3, <2>1, <2>2, <2>4, <2>5, <2>6, Zenon DEF Drying!TypeOK
<1>8. ASSUME ~crossed'
      PROVE  /\ ~crossed /\ m = Len(order)
             /\ IF Len(order) = 1 THEN found.enabled = base /\ found.tools = base
                ELSE found.enabled /\ found.tools
  <2>1. ~crossed /\ m = Len(order)
    BY <1>b, <1>8, Zenon
  <2>2. IF Len(contexts[c]) = 1 /\ order[1] = c
        THEN found.enabled = base /\ found.tools = base
        ELSE found.enabled /\ found.tools
    <3>1. Len(contexts[c]) \in 1 .. Len(contexts[c])
      BY <1>f
    <3>2. QED
      BY <2>1, <3>1, Zenon DEF DryInv
  <2>3. ASSUME Len(order) = 1 PROVE Len(contexts[c]) = 1 /\ order[1] = c
    <3>1. order[1] = c
      BY <1>2, <2>1, <2>3
    <3>2. Opened(c) = {1}
      BY <1>d, <2>3, <3>1 DEF Opened, Places
    <3>3. Cardinality(Opened(c)) = 1
      BY <3>2, FS_Singleton
    <3>4. QED
      BY <1>c, <3>1, <3>3, Zenon
  <2>4. ASSUME Len(order) # 1 PROVE ~(Len(contexts[c]) = 1 /\ order[1] = c)
    <3>1. SUFFICES ASSUME Len(contexts[c]) = 1, order[1] = c PROVE FALSE
      OBVIOUS
    <3>2. 1 \in Opened(c) /\ m \in Opened(c) /\ m # 1
      BY <1>2, <1>d, <2>1, <2>4, <3>1 DEF Opened, Places
    <3>3. Cardinality(Opened(c)) = 1
      BY <1>c, <3>1, Zenon
    <3>4. \E x : Opened(c) = {x}
      BY <1>e, <3>3, FS_Singleton, Zenon
    <3>5. QED
      BY <3>2, <3>4
  <2>5. QED
    BY <2>1, <2>2, <2>3, <2>4, Zenon
<1>9. order' = <<>> <=> Len(order) = 1
  <2>1. order' = <<>> <=> Len(order') = 0
    BY <1>3, EmptySeq
  <2>2. QED
    BY <1>3, <1>d, <2>1
<1> HIDE DEF found
<1>10. Drying!DryRunHolds'
  <2>1. ASSUME ~crossed'
        PROVE  /\ order' # <<>> => mode'.enabled /\ mode'.tools /\ provider'
               /\ order' = <<>> => mode'.enabled = base' /\ mode'.tools = base'
    BY <1>b, <1>8, <1>9, <2>1, Zenon
  <2>2. call' # None /\ call'.within => call'.outcome # "run"
    BY <1>b DEF DryInv, Drying!DryRunHolds
  <2>3. ~mode'.enabled => provider' = configured'
    BY <1>a, <1>b, Zenon
  <2>4. QED
    BY <2>1, <2>2, <2>3, Zenon DEF Drying!DryRunHolds
<1>11. ASSUME ~crossed', NEW d \in Processes, NEW k \in 1 .. Len(contexts'[d])
       PROVE  IF k = 1 /\ order'[1] = d
              THEN contexts'[d][k].enabled = base' /\ contexts'[d][k].tools = base'
              ELSE contexts'[d][k].enabled /\ contexts'[d][k].tools
  <2>1. ~crossed /\ m = Len(order) /\ base' = base
    BY <1>b, <1>8, <1>11
  <2>2. k \in 1 .. Len(contexts[d]) /\ contexts'[d][k] = contexts[d][k]
    BY <1>1, <1>f
  <2>3. order'[1] = order[1]
    <3>1. Opened(d)' # {}
      <4>1. Cardinality(Opened(d)') # 0
        <5>1. Len(contexts'[d]) # 0
          OBVIOUS
        <5>2. QED
          BY <1>5, <5>1
      <4>2. QED
        BY <4>1, FS_EmptySet
    <3>2. DOMAIN order' = 1 .. Len(order) - 1
      BY <1>3, LenProperties
    <3>3. Len(order) - 1 >= 1
      BY <1>d, <3>1, <3>2 DEF Opened, Places
    <3>4. 1 \in 1 .. Len(order) - 1 /\ 1 < m
      BY <1>d, <2>1, <3>3
    <3>5. order'[1] = IF 1 < m THEN order[1] ELSE order[1 + 1]
      BY <1>3, <3>4, Zenon
    <3>6. QED
      BY <3>4, <3>5
  <2>4. IF k = 1 /\ order[1] = d
        THEN contexts[d][k].enabled = base /\ contexts[d][k].tools = base
        ELSE contexts[d][k].enabled /\ contexts[d][k].tools
    <3>1. \A e \in Processes : \A l \in 1 .. Len(contexts[e]) :
            IF l = 1 /\ order[1] = e
            THEN contexts[e][l].enabled = base /\ contexts[e][l].tools = base
            ELSE contexts[e][l].enabled /\ contexts[e][l].tools
      BY <2>1 DEF DryInv
    <3>2. QED
      BY <2>2, <3>1, Zenon
  <2>5. QED
    BY <2>1, <2>2, <2>3, <2>4, Zenon
<1>12. QED
  BY <1>5, <1>7, <1>10, <1>11, Zenon DEF DryInv

LEMMA DryStep == DryInv /\ [Drying!Next]_(Drying!vars) => DryInv'
<1> SUFFICES ASSUME DryInv, [Drying!Next]_(Drying!vars) PROVE DryInv'
  OBVIOUS
<1>a. /\ order \in Seq(Processes) /\ contexts \in [Processes -> Seq(Drying!Modes)]
      /\ mode \in Drying!Modes /\ crossed \in BOOLEAN /\ base \in BOOLEAN /\ configured \in BOOLEAN
  BY DEF DryInv, Drying!TypeOK
<1>c. \A d \in Processes : Len(contexts[d]) = Cardinality(Opened(d))
  BY DEF DryInv
<1>d. ASSUME order = <<>> PROVE \A c \in Processes : 1 .. Len(contexts[c]) = {}
  <2> TAKE c \in Processes
  <2>1. Opened(c) = {}
    BY <1>d DEF Opened, Places
  <2>2. Cardinality(Opened(c)) = 0
    BY <2>1, FS_EmptySet
  <2>3. QED
    BY <1>c, <2>2
<1>1. ASSUME NEW enabled \in BOOLEAN, Drying!SetDryRun(enabled)
      PROVE  DryInv'
  <2>1. /\ mode' = [enabled |-> enabled, tools |-> enabled] /\ provider' = (enabled \/ configured)
        /\ base' = (IF order = <<>> THEN enabled ELSE base) /\ crossed' = (order # <<>>)
        /\ UNCHANGED <<configured, tools, allowed, contexts, call, order>>
    BY <1>1 DEF Drying!SetDryRun, Drying!SetsDryRun
  <2>2. /\ mode' \in Drying!Modes /\ provider' \in BOOLEAN /\ crossed' \in BOOLEAN
        /\ base' \in BOOLEAN /\ mode'.enabled = enabled /\ mode'.tools = enabled
    BY <1>a, <2>1 DEF Drying!Modes
  <2>3. Drying!TypeOK'
    BY <2>1, <2>2 DEF DryInv, Drying!TypeOK
  <2>4. Drying!DryRunHolds'
    BY <1>a, <2>1, <2>2, Zenon DEF DryInv, Drying!DryRunHolds
  <2>5. ~crossed' => \A c \in Processes : 1 .. Len(contexts'[c]) = {}
    BY <1>d, <2>1, Zenon
  <2>6. \A d \in Processes : Len(contexts'[d]) = Cardinality(Opened(d)')
    BY <1>c, <2>1 DEF Opened, Places
  <2>7. QED
    BY <2>3, <2>4, <2>5, <2>6 DEF DryInv
<1>2. ASSUME NEW tool \in Tools \cup Plain, Drying!RegisterTool(tool)
      PROVE  DryInv'
  <2>1. /\ tools' = tools \cup {tool}
        /\ allowed' = (IF tool \in Tools THEN allowed \cup {tool} ELSE allowed)
        /\ UNCHANGED <<configured, mode, provider, contexts, call, order, crossed, base>>
    BY <1>2 DEF Drying!RegisterTool
  <2>2. Drying!TypeOK'
    BY <2>1 DEF DryInv, Drying!TypeOK
  <2>3. QED
    BY <2>1, <2>2 DEF DryInv, Drying!DryRunHolds, Opened
<1>3. ASSUME NEW c \in Processes, NEW outcome, Drying!Calls(c, outcome),
             ~crossed => (outcome = "run" => order = <<>>)
      PROVE  DryInv'
  <2>1. /\ call' = [within |-> contexts[c] # <<>> /\ ~crossed, outcome |-> outcome]
        /\ UNCHANGED <<configured, mode, provider, tools, allowed, contexts, order, crossed, base>>
    BY <1>3 DEF Drying!Calls
  <2>2. call'.within => call'.outcome # "run"
    <3>1. SUFFICES ASSUME contexts[c] # <<>>, ~crossed PROVE outcome # "run"
      BY <2>1, Zenon
    <3>2. Len(contexts[c]) \in Nat /\ Len(contexts[c]) # 0
      BY <1>a, <3>1, EmptySeq, LenProperties
    <3>3. 1 .. Len(contexts[c]) # {}
      BY <3>2
    <3>4. QED
      BY <1>3, <1>d, <3>1, <3>3
  <2>3. Drying!TypeOK'
    BY <2>1 DEF DryInv, Drying!TypeOK
  <2>4. Drying!DryRunHolds'
    BY <2>1, <2>2 DEF DryInv, Drying!DryRunHolds
  <2>5. QED
    BY <2>1, <2>3, <2>4 DEF DryInv, Opened
<1>4. ASSUME NEW c \in Processes, NEW tool, Drying!CallTool(c, tool)
      PROVE  DryInv'
  <2>1. ~crossed /\ ~mode.tools => order = <<>>
    BY DEF DryInv, Drying!DryRunHolds
  <2>2. QED
    BY <1>3, <1>4, <2>1 DEF Drying!CallTool
<1>5. ASSUME NEW c \in Processes, Drying!Generate(c)
      PROVE  DryInv'
  <2>1. ~crossed /\ ~provider => order = <<>>
    BY DEF DryInv, Drying!DryRunHolds
  <2>2. QED
    BY <1>3, <1>5, <2>1 DEF Drying!Generate
<1>6. CASE UNCHANGED Drying!vars
  BY <1>6 DEF Drying!vars, DryInv, Drying!TypeOK, Drying!DryRunHolds, Opened
<1>7. QED
  BY <1>1, <1>2, <1>4, <1>5, <1>6, DryEnter, DryExit DEF Drying!Next

-----------------------------------------------------------------------------
(* ResponseCache *)

\* The place of the k-th number of a set, and its rank in it.
Rank(K, i) == Caching!Cardinality({j \in K : j < i})
Ranked(K, k) == CHOOSE i \in K : Rank(K, i) = k - 1

\* The service's cardinality is that of the library.
LEMMA CachingCardinality == \A S : Caching!Cardinality(S) = Cardinality(S)
BY DEF Caching!Cardinality, Cardinality

\* Ranks number the elements of a finite set of numbers from 1.
LEMMA RanksNumber ==
  ASSUME NEW n \in Nat, NEW K \in SUBSET (1 .. n)
  PROVE  /\ IsFiniteSet(K) /\ Cardinality(K) \in Nat
         /\ \A k \in 1 .. Cardinality(K) : Ranked(K, k) \in K
         /\ \A k, l \in 1 .. Cardinality(K) : Ranked(K, k) = Ranked(K, l) => k = l
         /\ \A i \in K : \E k \in 1 .. Cardinality(K) : Ranked(K, k) = i
<1> DEFINE c == Cardinality(K)
           B(i) == {j \in K : j < i}
           r == [i \in K |-> Rank(K, i)]
           R == {r[i] : i \in K}
<1>1. IsFiniteSet(K) /\ c \in Nat
  <2>1. n \in Int /\ 1 \in Int
    OBVIOUS
  <2>2. IsFiniteSet(1 .. n)
    BY <2>1, FS_Interval
  <2>3. QED
    BY <2>2, FS_Subset, FS_CardinalityType, Zenon
<1>2. \A i \in K : IsFiniteSet(B(i)) /\ Rank(K, i) = Cardinality(B(i)) /\ Rank(K, i) \in Nat
  <2> TAKE i \in K
  <2>1. B(i) \in SUBSET K
    OBVIOUS
  <2>2. IsFiniteSet(B(i)) /\ Cardinality(B(i)) \in Nat
    BY <1>1, <2>1, FS_Subset, FS_CardinalityType
  <2>3. Rank(K, i) = Cardinality(B(i))
    BY CachingCardinality DEF Rank
  <2>4. QED
    BY <2>2, <2>3
<1>3. \A i \in K : r[i] \in 0 .. c - 1
  <2> TAKE i \in K
  <2>1. B(i) \in SUBSET (K \ {i})
    OBVIOUS
  <2>2. IsFiniteSet(K \ {i}) /\ Cardinality(K \ {i}) = c - 1
    BY <1>1, FS_RemoveElement
  <2>3. Cardinality(B(i)) <= c - 1
    BY <2>1, <2>2, FS_Subset
  <2>4. QED
    BY <1>1, <1>2, <2>3
<1>i. \A i \in K : i \in Int
  BY SMT
<1>4. ASSUME NEW i \in K, NEW j \in K, i < j PROVE r[i] < r[j]
  <2>1. i \in B(j) /\ B(i) \in SUBSET (B(j) \ {i})
    <3>1. i \in B(j)
      BY <1>4
    <3>2. ASSUME NEW l \in B(i) PROVE l \in K /\ l < j /\ l # i
      BY <1>4, <1>i
    <3>3. QED
      BY <3>1, <3>2, Zenon
  <2>2. IsFiniteSet(B(j) \ {i}) /\ Cardinality(B(j) \ {i}) = Cardinality(B(j)) - 1
    <3>1. IsFiniteSet(B(j))
      BY <1>2
    <3> HIDE DEF B
    <3>2. /\ IsFiniteSet(B(j) \ {i})
          /\ Cardinality(B(j) \ {i}) = IF i \in B(j) THEN Cardinality(B(j)) - 1 ELSE Cardinality(B(j))
      BY <3>1, FS_RemoveElement
    <3>3. QED
      BY <2>1, <3>2
  <2>3. Cardinality(B(i)) <= Cardinality(B(j)) - 1
    <3> HIDE DEF B
    <3>1. QED
      BY <2>1, <2>2, FS_Subset
  <2>4. /\ Rank(K, i) = Cardinality(B(i)) /\ Rank(K, j) = Cardinality(B(j))
        /\ Rank(K, i) \in Nat /\ Rank(K, j) \in Nat
    BY <1>2
  <2>5. r[i] = Rank(K, i) /\ r[j] = Rank(K, j)
    OBVIOUS
  <2> HIDE DEF B, r
  <2>6. QED
    BY <2>3, <2>4, <2>5
<1>5. \A i, j \in K : r[i] = r[j] => i = j
  <2> TAKE i, j \in K
  <2>1. i \in Int /\ j \in Int /\ r[i] \in Int /\ r[j] \in Int
    <3>1. Rank(K, i) \in Nat /\ Rank(K, j) \in Nat
      BY <1>2, Zenon
    <3>2. QED
      BY <1>i, <3>1
  <2>2. (i < j => r[i] < r[j]) /\ (j < i => r[j] < r[i])
    BY <1>4
  <2>3. i < j \/ j < i \/ i = j
    BY <2>1
  <2>4. r[i] < r[j] => r[i] # r[j]
    BY <2>1
  <2>5. r[j] < r[i] => r[i] # r[j]
    BY <2>1
  <2> HIDE DEF r
  <2>6. QED
    BY <2>2, <2>3, <2>4, <2>5, Zenon
<1> HIDE DEF r
<1>6. R = 0 .. c - 1
  <2>1. r \in Bijection(K, R)
    <3>1. r \in [K -> R] /\ \A x \in R : \E i \in K : r[i] = x
      BY DEF r
    <3>2. QED
      BY <1>5, <3>1 DEF Bijection, Injection, Surjection, IsInjective
  <2>2. Cardinality(R) = c
    BY <1>1, <2>1, FS_Bijection DEF ExistsBijection
  <2>3. IsFiniteSet(0 .. c - 1) /\ Cardinality(0 .. c - 1) = c
    <3>1. /\ IsFiniteSet(0 .. c - 1)
          /\ Cardinality(0 .. c - 1) = IF 0 > c - 1 THEN 0 ELSE (c - 1) - 0 + 1
      BY <1>1, FS_Interval
    <3> HIDE DEF c
    <3>2. QED
      BY <1>1, <3>1
  <2>4. R \in SUBSET (0 .. c - 1)
    BY <1>3
  <2> HIDE DEF R
  <2>5. QED
    BY <2>2, <2>3, <2>4, FS_Subset, Zenon
<1>7. \A i \in K : Rank(K, i) = r[i]
  BY DEF r
<1> HIDE DEF c
<1>8. ASSUME NEW k \in 1 .. c PROVE Ranked(K, k) \in K /\ r[Ranked(K, k)] = k - 1
  <2>1. k - 1 \in R
    BY <1>1, <1>6
  <2>2. PICK i \in K : r[i] = k - 1
    BY <2>1
  <2>3. QED
    BY <1>7, <2>2, Zenon DEF Ranked
<1>9. ASSUME NEW i \in K PROVE \E k \in 1 .. c : Ranked(K, k) = i
  <2>1. r[i] + 1 \in 1 .. c /\ (r[i] + 1) - 1 = r[i]
    BY <1>1, <1>3
  <2>2. Ranked(K, r[i] + 1) \in K /\ r[Ranked(K, r[i] + 1)] = r[i]
    BY <1>8, <2>1
  <2>3. Ranked(K, r[i] + 1) = i
    BY <1>5, <2>2, Zenon
  <2>4. QED
    BY <2>1, <2>3
<1>10. \A k, l \in 1 .. c : Ranked(K, k) = Ranked(K, l) => k = l
  <2> TAKE k, l \in 1 .. c
  <2>1. r[Ranked(K, k)] = k - 1 /\ r[Ranked(K, l)] = l - 1 /\ k \in Int /\ l \in Int
    BY <1>1, <1>8
  <2>2. QED
    BY <2>1
<1>11. QED
  BY <1>1, <1>8, <1>9, <1>10 DEF c

\* A table has one entry of each of its keys.
Entry(n) == [key : Prompts, at : 0 .. n]
KeysOf(s) == {s[i].key : i \in DOMAIN s}
IsTable(s, n) ==
  s \in Seq(Entry(n)) /\ \A i, j \in DOMAIN s : s[i].key = s[j].key => i = j

LEMMA TableSize ==
  ASSUME NEW n \in Nat, NEW s, IsTable(s, n)
  PROVE  /\ IsFiniteSet(KeysOf(s)) /\ Cardinality(KeysOf(s)) = Len(s) /\ Len(s) \in Nat
         /\ KeysOf(s) \subseteq Prompts /\ DOMAIN s = 1 .. Len(s)
<1>1. DOMAIN s = 1 .. Len(s) /\ Len(s) \in Nat /\ \A i \in DOMAIN s : s[i] \in Entry(n)
  BY LenProperties, ElementOfSeq DEF IsTable
<1>2. KeysOf(s) \subseteq Prompts
  BY <1>1 DEF KeysOf, Entry
<1> DEFINE f == [i \in 1 .. Len(s) |-> s[i].key]
<1>3. f \in Bijection(1 .. Len(s), KeysOf(s))
  <2>1. f \in [1 .. Len(s) -> KeysOf(s)] /\ \A k \in KeysOf(s) : \E i \in 1 .. Len(s) : f[i] = k
    BY <1>1 DEF KeysOf
  <2>2. \A i, j \in 1 .. Len(s) : f[i] = f[j] => i = j
    BY <1>1 DEF IsTable
  <2> HIDE DEF f
  <2>3. QED
    BY <2>1, <2>2 DEF Bijection, Injection, Surjection, IsInjective
<1>4. IsFiniteSet(1 .. Len(s)) /\ Cardinality(1 .. Len(s)) = Len(s)
  <2> DEFINE l == Len(s)
  <2>1. l \in Nat
    BY <1>1
  <2> HIDE DEF l
  <2>2. IsFiniteSet(1 .. l) /\ Cardinality(1 .. l) = IF 1 > l THEN 0 ELSE l - 1 + 1
    BY <2>1, FS_Interval
  <2>3. IsFiniteSet(1 .. l) /\ Cardinality(1 .. l) = l
    BY <2>1, <2>2
  <2>4. QED
    BY <2>3 DEF l
<1>5. ExistsBijection(1 .. Len(s), KeysOf(s))
  BY <1>3 DEF ExistsBijection
<1>6. IsFiniteSet(KeysOf(s)) /\ Cardinality(KeysOf(s)) = Len(s)
  BY <1>4, <1>5, FS_Bijection
<1>7. QED
  BY <1>1, <1>2, <1>6

LEMMA TableWithout ==
  ASSUME NEW n \in Nat, IsTable(entries, n), NEW keys
  PROVE  /\ IsTable(Caching!Without(keys), n)
         /\ KeysOf(Caching!Without(keys)) = KeysOf(entries) \ keys
<1> DEFINE K == {i \in DOMAIN entries : entries[i].key \notin keys}
           c == Cardinality(K)
           W == [k \in 1 .. c |-> entries[Ranked(K, k)]]
<1>1. Caching!Without(keys) = W
  BY CachingCardinality, Zenon DEF Caching!Without, Ranked, Rank
<1>2. /\ DOMAIN entries = 1 .. Len(entries) /\ Len(entries) \in Nat
      /\ \A i \in DOMAIN entries : entries[i] \in Entry(n)
  BY LenProperties, ElementOfSeq DEF IsTable
<1>3. K \in SUBSET (1 .. Len(entries))
  BY <1>2
<1> HIDE DEF K
<1>4. /\ c \in Nat /\ \A k \in 1 .. c : Ranked(K, k) \in K
      /\ \A k, l \in 1 .. c : Ranked(K, k) = Ranked(K, l) => k = l
      /\ \A i \in K : \E k \in 1 .. c : Ranked(K, k) = i
  BY <1>2, <1>3, RanksNumber, Zenon
<1> HIDE DEF c
<1>5. W \in Seq(Entry(n)) /\ DOMAIN W = 1 .. c
  <2>1. \A k \in 1 .. c : entries[Ranked(K, k)] \in Entry(n)
    BY <1>2, <1>3, <1>4, Zenon
  <2>2. W \in [1 .. c -> Entry(n)]
    BY <2>1
  <2>3. QED
    BY <1>4, <2>2, SeqDef
<1>6. \A k, l \in DOMAIN W : W[k].key = W[l].key => k = l
  <2> TAKE k, l \in 1 .. c
  <2>1. Ranked(K, k) \in DOMAIN entries /\ Ranked(K, l) \in DOMAIN entries
    BY <1>2, <1>3, <1>4, Zenon
  <2>2. W[k] = entries[Ranked(K, k)] /\ W[l] = entries[Ranked(K, l)]
    OBVIOUS
  <2> HIDE DEF W
  <2>3. QED
    BY <1>4, <2>1, <2>2 DEF IsTable
<1>7. KeysOf(W) = KeysOf(entries) \ keys
  <2>1. ASSUME NEW x \in KeysOf(W) PROVE x \in KeysOf(entries) \ keys
    <3>1. PICK k \in 1 .. c : x = W[k].key
      BY <1>5 DEF KeysOf
    <3>2. Ranked(K, k) \in K /\ W[k] = entries[Ranked(K, k)]
      BY <1>4
    <3>3. QED
      BY <3>1, <3>2, Zenon DEF K, KeysOf
  <2>2. ASSUME NEW x \in KeysOf(entries) \ keys PROVE x \in KeysOf(W)
    <3>1. PICK i \in DOMAIN entries : x = entries[i].key
      BY DEF KeysOf
    <3>2. i \in K
      BY <3>1 DEF K
    <3>3. PICK k \in 1 .. c : Ranked(K, k) = i
      BY <1>4, <3>2
    <3>4. W[k] = entries[i] /\ k \in DOMAIN W
      BY <3>3
    <3> HIDE DEF W
    <3>5. QED
      BY <3>1, <3>4 DEF KeysOf
  <2>3. QED
    BY <2>1, <2>2
<1>8. QED
  BY <1>1, <1>5, <1>6, <1>7 DEF IsTable

LEMMA TableAppend ==
  ASSUME NEW n \in Nat, NEW s, IsTable(s, n), NEW e \in Entry(n), e.key \notin KeysOf(s)
  PROVE  IsTable(Append(s, e), n) /\ KeysOf(Append(s, e)) = KeysOf(s) \cup {e.key}
<1> DEFINE t == Append(s, e)
           l == Len(s)
<1>1. /\ t \in Seq(Entry(n)) /\ DOMAIN t = 1 .. l + 1 /\ DOMAIN s = 1 .. l /\ l \in Nat
      /\ t[l + 1] = e /\ \A i \in 1 .. l : t[i] = s[i]
  BY AppendProperties, LenProperties DEF IsTable
<1> HIDE DEF t, l
<1>2. \A i \in 1 .. l + 1 : i \in 1 .. l \/ i = l + 1
  BY <1>1
<1>3. \A i \in 1 .. l : s[i].key # e.key
  BY <1>1 DEF KeysOf
<1>4. \A i, j \in DOMAIN t : t[i].key = t[j].key => i = j
  <2> TAKE i, j \in DOMAIN t
  <2>1. i \in 1 .. l + 1 /\ j \in 1 .. l + 1
    BY <1>1
  <2>2. QED
    BY <1>1, <1>2, <1>3, <2>1 DEF IsTable
<1>5. KeysOf(t) = KeysOf(s) \cup {e.key}
  <2>1. 1 .. l + 1 = 1 .. l \cup {l + 1}
    BY <1>1
  <2>2. QED
    BY <1>1, <2>1 DEF KeysOf
<1>6. QED
  BY <1>1, <1>4, <1>5 DEF IsTable, t

LEMMA TableTail ==
  ASSUME NEW n \in Nat, NEW s, IsTable(s, n), s # <<>>
  PROVE  IsTable(Tail(s), n) /\ KeysOf(Tail(s)) \subseteq KeysOf(s)
<1> DEFINE t == Tail(s)
           l == Len(s)
<1>1. /\ t \in Seq(Entry(n)) /\ DOMAIN t = 1 .. l - 1 /\ DOMAIN s = 1 .. l /\ l \in Nat
      /\ \A i \in 1 .. l - 1 : t[i] = s[i + 1]
  <2>1. t \in Seq(Entry(n)) /\ Len(t) = l - 1 /\ \A i \in 1 .. Len(t) : t[i] = s[i + 1]
    BY HeadTailProperties DEF IsTable
  <2>2. DOMAIN t = 1 .. Len(t) /\ DOMAIN s = 1 .. l /\ l \in Nat
    BY <2>1, LenProperties DEF IsTable
  <2> HIDE DEF t, l
  <2>3. QED
    BY <2>1, <2>2
<1> HIDE DEF t, l
<1>2. \A i \in 1 .. l - 1 : i + 1 \in 1 .. l /\ i \in Int
  BY <1>1
<1>3. \A i, j \in DOMAIN t : t[i].key = t[j].key => i = j
  <2> TAKE i, j \in DOMAIN t
  <2>1. i \in 1 .. l - 1 /\ j \in 1 .. l - 1
    BY <1>1
  <2>2. t[i].key = t[j].key => i + 1 = j + 1
    BY <1>1, <1>2, <2>1, Zenon DEF IsTable
  <2>3. QED
    BY <1>2, <2>1, <2>2
<1>4. KeysOf(t) \subseteq KeysOf(s)
  BY <1>1, <1>2 DEF KeysOf
<1>5. QED
  BY <1>1, <1>3, <1>4 DEF IsTable, t

\* An entry takes the place of that of its key.
LEMMA TableReplace ==
  ASSUME NEW n \in Nat, NEW s, IsTable(s, n), NEW e \in Entry(n), e.key \in KeysOf(s)
  PROVE  LET t == [i \in DOMAIN s |-> IF s[i].key = e.key THEN e ELSE s[i]] IN
         IsTable(t, n) /\ KeysOf(t) = KeysOf(s)
<1> DEFINE t == [i \in DOMAIN s |-> IF s[i].key = e.key THEN e ELSE s[i]]
<1>1. DOMAIN s = 1 .. Len(s) /\ Len(s) \in Nat /\ \A i \in DOMAIN s : s[i] \in Entry(n)
  BY LenProperties, ElementOfSeq DEF IsTable
<1>2. DOMAIN t = DOMAIN s /\ \A i \in DOMAIN s : t[i] \in Entry(n) /\ t[i].key = s[i].key
  BY <1>1
<1>3. t \in Seq(Entry(n))
  <2>1. t \in [1 .. Len(s) -> Entry(n)]
    BY <1>1, <1>2
  <2>2. QED
    BY <1>1, <2>1, SeqDef
<1> HIDE DEF t
<1>4. KeysOf(t) = KeysOf(s)
  BY <1>2 DEF KeysOf
<1>5. IsTable(t, n)
  BY <1>2, <1>3 DEF IsTable
<1>6. QED
  BY <1>4, <1>5 DEF t

\* What the service takes from its table.
LEMMA TableEntry ==
  ASSUME NEW n \in Nat, IsTable(entries, n)
  PROVE  /\ Caching!Cached = KeysOf(entries)
         /\ \A p \in KeysOf(entries) : Caching!EntryOf(p) \in Entry(n) /\ Caching!EntryOf(p).key = p
<1>1. Caching!ToSet(entries) = {entries[i] : i \in DOMAIN entries}
  BY DEF Caching!ToSet
<1>2. Caching!Cached = KeysOf(entries)
  BY DEF Caching!Cached, KeysOf
<1>3. ASSUME NEW p \in KeysOf(entries)
      PROVE  Caching!EntryOf(p) \in Entry(n) /\ Caching!EntryOf(p).key = p
  <2>1. PICK i \in DOMAIN entries : p = entries[i].key
    BY DEF KeysOf
  <2>2. \E e \in Caching!ToSet(entries) : e.key = p
    BY <1>1, <2>1
  <2>3. Caching!EntryOf(p) \in Caching!ToSet(entries) /\ Caching!EntryOf(p).key = p
    BY <2>2 DEF Caching!EntryOf
  <2>4. \A j \in DOMAIN entries : entries[j] \in Entry(n)
    BY LenProperties, ElementOfSeq DEF IsTable
  <2>5. QED
    BY <1>1, <2>3, <2>4
<1>4. QED
  BY <1>2, <1>3

\* The prompts about to be moved to the end, the keys of the other entries, and the
\* threads that evict.
Moving == {held[t].prompt : t \in {u \in Processes : stage[u] = "move"}}
Left == KeysOf(entries) \ Moving
Evicting == {t \in Processes : stage[t] \in {"evict", "popitem"}}

Stages == {"idle", "scan", "pops", "lookup", "check", "call", "insert", "move", "evict",
           "popitem", "zero", "raised"}
Calls == [prompt : Prompts \cup {None}, entry : Entry(now) \cup {None}, expired : SUBSET Prompts,
          then : {"lookup", "insert", "idle", None}, attempts : 0 .. CallRetries]

\* What a thread at a stage knows of its call.
Fits(at, query) ==
  /\ \/ at \in {"lookup", "check", "call", "insert", "move"}
     \/ at \in {"scan", "pops"} /\ query.then # "idle"
     => query.prompt \in Prompts
  /\ at \in {"scan", "pops"} => query.then \in {"lookup", "insert", "idle"}
  /\ at = "check" => query.entry \in Entry(now) /\ query.entry.key = query.prompt

\* An entry beyond the size is one about to be moved, or one for a thread that evicts.
SizeHolds == Cardinality(Left) <= MaxSize + Cardinality(Evicting)

CacheInv ==
  /\ stage \in [Processes -> Stages] /\ held \in [Processes -> Calls]
  /\ IsTable(entries, now) /\ now \in 0 .. MaxTime /\ asks \in 0 .. MaxAsks
  /\ hits \in Nat /\ misses \in Nat /\ lookups \in Nat /\ mutated \subseteq Processes
  /\ hits + misses = lookups
  /\ \A a \in answers : a.of = a.to /\ a.age <= Ttl
  /\ \A t \in Processes : Fits(stage[t], held[t])
  /\ SizeHolds

LEMMA CacheTypes == CacheInv => Caching!TypeOK
<1> SUFFICES ASSUME CacheInv PROVE Caching!TypeOK
  OBVIOUS
<1>1. Caching!IsInjective(Caching!Keys(entries))
  BY DEF CacheInv, IsTable, Caching!IsInjective, Caching!Keys
<1>2. entries \in Seq([key : Prompts, at : 0 .. now])
  BY DEF CacheInv, IsTable, Entry
<1>3. stage \in [Processes -> {"idle", "scan", "pops", "lookup", "check", "call", "insert", "move",
                             "evict", "popitem", "zero", "raised"}]
  BY DEF CacheInv, Stages
<1>4. held \in [Processes -> [prompt : Prompts \cup {None},
        entry : [key : Prompts, at : 0 .. now] \cup {None}, expired : SUBSET Prompts,
        then : {"lookup", "insert", "idle", None}, attempts : 0 .. CallRetries]]
  BY DEF CacheInv, Calls, Entry
<1>5. QED
  BY <1>1, <1>2, <1>3, <1>4, Zenon DEF CacheInv, Caching!TypeOK

\* The entries are those left, those about to be moved and those for threads that evict.
LEMMA CacheHolds == CacheInv => Caching!CacheKeepsItsWord
<1> SUFFICES ASSUME CacheInv PROVE Caching!CacheKeepsItsWord
  OBVIOUS
<1> DEFINE M == {t \in Processes : stage[t] = "move"}
           A == {t \in Processes : stage[t] \in {"move", "evict", "popitem"}}
           f == [t \in M |-> held[t].prompt]
<1>0. IsFiniteSet(Processes) /\ MaxSize \in Nat /\ now \in Nat
  BY ServicesAssumption DEF ServicesAssumption, CacheInv
<1>1. IsFiniteSet(M) /\ IsFiniteSet(Evicting) /\ IsFiniteSet(A)
  BY <1>0, FS_Subset DEF Evicting
<1>2. /\ IsFiniteSet(KeysOf(entries)) /\ Cardinality(KeysOf(entries)) = Len(entries)
      /\ Len(entries) \in Nat
  BY <1>0, TableSize DEF CacheInv
<1>3. IsFiniteSet(Moving) /\ Cardinality(Moving) <= Cardinality(M)
  <2>1. f \in Surjection(M, Moving)
    BY DEF Moving, Surjection
  <2>2. IsFiniteSet(M)
    BY <1>1
  <2> HIDE DEF M, A, f
  <2>3. QED
    BY <2>1, <2>2, FS_Surjection
<1>4. Cardinality(A) = Cardinality(M) + Cardinality(Evicting)
  <2>1. A = M \cup Evicting /\ M \cap Evicting = {}
    BY DEF Evicting
  <2> HIDE DEF M, A
  <2>2. Cardinality(A) = Cardinality(M) + Cardinality(Evicting) - Cardinality(M \cap Evicting)
    BY <1>1, <2>1, FS_Union
  <2>3. Cardinality(M) \in Nat /\ Cardinality(Evicting) \in Nat /\ Cardinality(M \cap Evicting) = 0
    BY <1>1, <2>1, FS_CardinalityType, FS_EmptySet, Zenon
  <2> HIDE DEF Evicting
  <2>4. QED
    BY <2>2, <2>3
<1> HIDE DEF M, A
<1>5. /\ IsFiniteSet(Left \cup Moving)
      /\ Cardinality(Left \cup Moving) <= Cardinality(Left) + Cardinality(Moving)
  <2>1. IsFiniteSet(Left)
    BY <1>2, FS_Subset DEF Left
  <2>2. /\ IsFiniteSet(Left \cup Moving) /\ IsFiniteSet(Left \cap Moving)
        /\ Cardinality(Left \cup Moving)
              = Cardinality(Left) + Cardinality(Moving) - Cardinality(Left \cap Moving)
    BY <1>3, <2>1, FS_Union, FS_Intersection
  <2>3. /\ Cardinality(Left) \in Nat /\ Cardinality(Moving) \in Nat
        /\ Cardinality(Left \cap Moving) \in Nat
    BY <1>3, <2>1, <2>2, FS_CardinalityType
  <2>4. QED
    BY <2>2, <2>3
<1>6. Cardinality(KeysOf(entries)) <= Cardinality(Left \cup Moving)
  <2>1. KeysOf(entries) \in SUBSET (Left \cup Moving)
    BY DEF Left
  <2>2. QED
    BY <1>5, <2>1, FS_Subset
<1>7. Len(entries) <= MaxSize + Cardinality(A)
  <2>1. /\ Cardinality(Left) \in Nat /\ Cardinality(Moving) \in Nat /\ Cardinality(M) \in Nat
        /\ Cardinality(Evicting) \in Nat /\ Cardinality(Left \cup Moving) \in Nat
    BY <1>1, <1>2, <1>3, <1>5, FS_Subset, FS_CardinalityType DEF Left
  <2>2. Cardinality(Left) <= MaxSize + Cardinality(Evicting)
    BY DEF CacheInv, SizeHolds
  <2>3. QED
    BY <1>0, <1>2, <1>3, <1>4, <1>5, <1>6, <2>1, <2>2
<1>8. Caching!Cardinality(A) = Cardinality(A)
  BY CachingCardinality
<1>9. QED
  BY <1>7, <1>8 DEF CacheInv, Caching!CacheKeepsItsWord, A

LEMMA CacheInit == Caching!Init => CacheInv
<1> SUFFICES ASSUME Caching!Init PROVE CacheInv
  OBVIOUS
<1>0. IsFiniteSet(Processes) /\ MaxSize \in Nat /\ CallRetries \in Nat /\ MaxTime \in Nat
      /\ MaxAsks \in Nat
  BY ServicesAssumption DEF ServicesAssumption
<1>1. /\ stage = [t \in Processes |-> "idle"] /\ held = [t \in Processes |-> Caching!Nothing]
      /\ entries = <<>> /\ hits = 0 /\ misses = 0 /\ now = 0 /\ asks = 0
      /\ mutated = {} /\ lookups = 0 /\ answers = {}
  BY DEF Caching!Init
<1>2. IsTable(entries, now) /\ KeysOf(entries) = {}
  BY <1>1, EmptySeq DEF IsTable, KeysOf
<1>3. Caching!Nothing \in Calls
  BY <1>0 DEF Caching!Nothing, Calls
<1>4. stage \in [Processes -> Stages] /\ held \in [Processes -> Calls]
  BY <1>1, <1>3 DEF Stages
<1>5. \A t \in Processes : Fits(stage[t], held[t])
  BY <1>1 DEF Fits
<1>6. SizeHolds
  <2>1. Evicting = {} /\ Left = {}
    BY <1>1, <1>2 DEF Evicting, Left
  <2>2. Cardinality({}) = 0
    BY FS_EmptySet
  <2>3. QED
    BY <1>0, <2>1, <2>2 DEF SizeHolds
<1>7. QED
  BY <1>0, <1>1, <1>2, <1>4, <1>5, <1>6 DEF CacheInv

\* The size as entries leave, and as a thread has one to evict.
LEMMA SizeKept ==
  ASSUME CacheInv, Left' \subseteq Left, Evicting \subseteq Evicting'
  PROVE  SizeHolds'
<1>0. IsFiniteSet(Processes) /\ MaxSize \in Nat /\ now \in Nat
  BY ServicesAssumption DEF ServicesAssumption, CacheInv
<1>1. IsFiniteSet(Left)
  BY <1>0, TableSize, FS_Subset DEF CacheInv, Left
<1>2. Evicting' \in SUBSET Processes
  BY DEF Evicting
<1>3. IsFiniteSet(Evicting')
  BY <1>0, <1>2, FS_Subset
<1>4. Cardinality(Evicting) <= Cardinality(Evicting') /\ IsFiniteSet(Evicting)
  BY <1>3, FS_Subset
<1>5. Cardinality(Left') <= Cardinality(Left) /\ IsFiniteSet(Left')
  BY <1>1, FS_Subset
<1>6. /\ Cardinality(Left) \in Nat /\ Cardinality(Left') \in Nat
      /\ Cardinality(Evicting) \in Nat /\ Cardinality(Evicting') \in Nat
  BY <1>1, <1>3, <1>4, <1>5, FS_CardinalityType
<1>7. Cardinality(Left) <= MaxSize + Cardinality(Evicting)
  BY DEF CacheInv, SizeHolds
<1>8. Cardinality(Left') <= MaxSize + Cardinality(Evicting')
  BY <1>0, <1>4, <1>5, <1>6, <1>7
<1>9. QED
  BY <1>8 DEF SizeHolds

LEMMA SizeMoved ==
  ASSUME CacheInv, NEW p, NEW t \in Processes, t \notin Evicting,
         Left' \subseteq Left \cup {p}, Evicting \cup {t} \subseteq Evicting'
  PROVE  SizeHolds'
<1>0. IsFiniteSet(Processes) /\ MaxSize \in Nat /\ now \in Nat
  BY ServicesAssumption DEF ServicesAssumption, CacheInv
<1>1. IsFiniteSet(Left)
  BY <1>0, TableSize, FS_Subset DEF CacheInv, Left
<1>2. Evicting' \in SUBSET Processes /\ Evicting \in SUBSET Processes
  BY DEF Evicting
<1>3. IsFiniteSet(Evicting') /\ IsFiniteSet(Evicting)
  BY <1>0, <1>2, FS_Subset
<1>4. /\ IsFiniteSet(Evicting \cup {t})
      /\ Cardinality(Evicting \cup {t}) = Cardinality(Evicting) + 1
  BY <1>3, FS_AddElement
<1>5. Cardinality(Evicting \cup {t}) <= Cardinality(Evicting')
  BY <1>3, FS_Subset
<1>6. /\ IsFiniteSet(Left \cup {p}) /\ Cardinality(Left) \in Nat
      /\ Cardinality(Left \cup {p}) <= Cardinality(Left) + 1
  <2>1. /\ IsFiniteSet(Left \cup {p}) /\ Cardinality(Left) \in Nat
        /\ Cardinality(Left \cup {p}) = IF p \in Left THEN Cardinality(Left) ELSE Cardinality(Left) + 1
    BY <1>1, FS_AddElement, FS_CardinalityType
  <2>2. QED
    BY <2>1
<1>7. Cardinality(Left') <= Cardinality(Left \cup {p}) /\ IsFiniteSet(Left')
  BY <1>6, FS_Subset
<1>8. /\ Cardinality(Left') \in Nat /\ Cardinality(Left \cup {p}) \in Nat
      /\ Cardinality(Evicting) \in Nat /\ Cardinality(Evicting') \in Nat
  BY <1>3, <1>6, <1>7, FS_CardinalityType
<1>9. Cardinality(Left) <= MaxSize + Cardinality(Evicting)
  BY DEF CacheInv, SizeHolds
<1>10. Cardinality(Left') <= MaxSize + Cardinality(Evicting')
  BY <1>0, <1>4, <1>5, <1>6, <1>7, <1>8, <1>9
<1>11. QED
  BY <1>10 DEF SizeHolds

LEMMA SizeSmall ==
  ASSUME CacheInv, KeysOf(entries)' \subseteq KeysOf(entries), Len(entries) <= MaxSize
  PROVE  SizeHolds'
<1>0. IsFiniteSet(Processes) /\ MaxSize \in Nat /\ now \in Nat
  BY ServicesAssumption DEF ServicesAssumption, CacheInv
<1>1. /\ IsFiniteSet(KeysOf(entries)) /\ Cardinality(KeysOf(entries)) = Len(entries)
      /\ Len(entries) \in Nat
  BY <1>0, TableSize DEF CacheInv
<1>2. Left' \in SUBSET KeysOf(entries)
  BY DEF Left
<1>3. IsFiniteSet(Left') /\ Cardinality(Left') <= Cardinality(KeysOf(entries))
  BY <1>1, <1>2, FS_Subset
<1>4. Evicting' \in SUBSET Processes
  BY DEF Evicting
<1>5. Cardinality(Evicting') \in Nat /\ Cardinality(Left') \in Nat
  BY <1>0, <1>3, <1>4, FS_Subset, FS_CardinalityType
<1>6. Cardinality(Left') <= MaxSize + Cardinality(Evicting')
  BY <1>0, <1>1, <1>3, <1>5
<1>7. QED
  BY <1>6 DEF SizeHolds

\* A step of one thread: what it must keep for itself, and for the table.
LEMMA CacheStep ==
  ASSUME CacheInv, NEW t \in Processes, NEW to \in Stages, NEW h \in Calls,
         stage' = [stage EXCEPT ![t] = to], held' = [held EXCEPT ![t] = h], now' = now,
         Fits(to, h), asks' \in 0 .. MaxAsks, IsTable(entries', now), mutated' \subseteq Processes,
         hits' \in Nat, misses' \in Nat, lookups' \in Nat, hits' + misses' = lookups',
         \A a \in answers' : a.of = a.to /\ a.age <= Ttl,
         SizeHolds'
  PROVE  CacheInv'
<1>1. stage' \in [Processes -> Stages] /\ held' \in [Processes -> Calls]
  BY DEF CacheInv
<1>2. Calls' = Calls /\ Stages' = Stages
  BY DEF Calls, Stages, Entry
<1>3. \A u \in Processes : Fits(stage[u], held[u]) => Fits(stage[u], held[u])'
  <2> TAKE u \in Processes
  <2>1. CASE u = t
    <3>1. stage'[u] = to /\ held'[u] = h
      BY <2>1 DEF CacheInv
    <3>2. QED
      BY <3>1 DEF Fits, Entry
  <2>2. CASE u # t
    <3>1. stage'[u] = stage[u] /\ held'[u] = held[u]
      BY <2>2 DEF CacheInv
    <3>2. QED
      BY <3>1 DEF Fits, Entry
  <2>3. QED
    BY <2>1, <2>2
<1>4. QED
  BY <1>1, <1>2, <1>3, Zenon DEF CacheInv

\* Of a thread that neither moves nor evicts, before and after.
LEMMA SizeAside ==
  ASSUME CacheInv, NEW t \in Processes, NEW to \in Stages, NEW h,
         stage' = [stage EXCEPT ![t] = to], held' = [held EXCEPT ![t] = h],
         stage[t] \notin {"move", "evict", "popitem"}, to \notin {"move", "evict", "popitem"},
         KeysOf(entries)' \subseteq KeysOf(entries)
  PROVE  SizeHolds'
<1>1. /\ \A u \in Processes : stage'[u] = IF u = t THEN to ELSE stage[u]
      /\ \A u \in Processes : held'[u] = IF u = t THEN h ELSE held[u]
  BY DEF CacheInv
<1>2. Evicting' = Evicting
  BY <1>1 DEF Evicting
<1>3. Moving' = Moving
  BY <1>1 DEF Moving
<1>4. QED
  BY <1>2, <1>3, SizeKept DEF Left

\* The types of a thread's call, and what entries a change of the table leaves.
LEMMA CacheFacts ==
  ASSUME CacheInv, NEW t \in Processes
  PROVE  /\ now \in Nat /\ stage[t] \in Stages /\ held[t] \in Calls /\ Fits(stage[t], held[t])
         /\ \A to \in Stages : Caching!Goes(t, stage[t], to) =>
              stage' = [stage EXCEPT ![t] = to]
         /\ \A s : Caching!Entries(s) => entries' = s /\ mutated' \subseteq Processes
         /\ held = [held EXCEPT ![t] = held[t]]
         /\ KeysOf(entries) = Caching!Cached
<1>1. now \in Nat /\ stage[t] \in Stages /\ held[t] \in Calls /\ Fits(stage[t], held[t])
  BY ServicesAssumption DEF ServicesAssumption, CacheInv
<1>2. \A to \in Stages : Caching!Goes(t, stage[t], to) => stage' = [stage EXCEPT ![t] = to]
  BY DEF Caching!Goes
<1>3. \A s : Caching!Entries(s) => entries' = s /\ mutated' \subseteq Processes
  BY DEF Caching!Entries, CacheInv
<1>4. held = [held EXCEPT ![t] = held[t]]
  BY DEF CacheInv
<1>5. KeysOf(entries) = Caching!Cached
  BY <1>1, TableEntry DEF CacheInv
<1>6. QED
  BY <1>1, <1>2, <1>3, <1>4, <1>5

LEMMA CacheScan ==
  ASSUME CacheInv, NEW t \in Processes, NEW from \in {"idle", "call"}, NEW query \in Calls,
         NEW then \in {"lookup", "insert", "idle"}, then = "idle" \/ query.prompt \in Prompts,
         Caching!Scan(t, from, query, then), asks' \in 0 .. MaxAsks
  PROVE  CacheInv'
<1> DEFINE h == [query EXCEPT !.then = then, !.entry = None]
<1>1. /\ stage[t] = from /\ stage' = [stage EXCEPT ![t] = "scan"]
      /\ held' = [held EXCEPT ![t] = h] /\ mutated' = mutated \ {t}
      /\ UNCHANGED <<entries, hits, misses, lookups, now, answers>>
  BY DEF Caching!Scan, Caching!Goes, Caching!counters
<1>2. h \in Calls /\ h.then = then /\ h.prompt = query.prompt
  BY Zenon DEF Calls
<1> HIDE DEF h
<1>3. Fits("scan", h)
  BY <1>2 DEF Fits
<1>4. "scan" \in Stages /\ stage[t] \notin {"move", "evict", "popitem"}
  BY <1>1 DEF Stages
<1>5. KeysOf(entries)' \subseteq KeysOf(entries)
  BY <1>1
<1>6. SizeHolds'
  BY <1>1, <1>4, <1>5, SizeAside, Zenon
<1>7. IsTable(entries', now) /\ mutated' \subseteq Processes
  BY <1>1 DEF CacheInv
<1>8. /\ hits' \in Nat /\ misses' \in Nat /\ lookups' \in Nat /\ hits' + misses' = lookups'
      /\ \A a \in answers' : a.of = a.to /\ a.age <= Ttl
  BY <1>1 DEF CacheInv
<1>9. QED
  BY <1>1, <1>2, <1>3, <1>4, <1>6, <1>7, <1>8, CacheStep, Zenon

\* A step aside that leaves the counters and the answers.
LEMMA CacheQuiet ==
  ASSUME CacheInv, NEW t \in Processes, NEW to \in Stages, NEW h \in Calls,
         stage' = [stage EXCEPT ![t] = to], held' = [held EXCEPT ![t] = h],
         stage[t] \notin {"move", "evict", "popitem"}, to \notin {"move", "evict", "popitem"},
         Fits(to, h), asks' \in 0 .. MaxAsks, IsTable(entries', now),
         KeysOf(entries)' \subseteq KeysOf(entries), mutated' \subseteq Processes,
         UNCHANGED <<hits, misses, lookups, answers, now>>
  PROVE  CacheInv'
<1>1. SizeHolds'
  BY SizeAside, Zenon
<1>2. /\ hits' \in Nat /\ misses' \in Nat /\ lookups' \in Nat /\ hits' + misses' = lookups'
      /\ \A a \in answers' : a.of = a.to /\ a.age <= Ttl
  BY DEF CacheInv
<1>3. QED
  BY <1>1, <1>2, CacheStep, Zenon

\* Asking, up to the lookup.
LEMMA CacheAsks ==
  ASSUME CacheInv, NEW t \in Processes
  PROVE  /\ \A p \in Prompts : Caching!Generate(t, p) => CacheInv'
         /\ Caching!Stats(t) => CacheInv'
         /\ Caching!EndScan(t) => CacheInv'
         /\ Caching!PurgeExpired(t) => CacheInv'
<1>0. now \in Nat /\ stage[t] \in Stages /\ held[t] \in Calls /\ Fits(stage[t], held[t])
      /\ CallRetries \in Nat /\ asks \in Nat /\ MaxAsks \in Nat /\ IsTable(entries, now)
  BY CacheFacts, ServicesAssumption DEF ServicesAssumption, CacheInv
<1>1. ASSUME NEW p \in Prompts, Caching!Generate(t, p) PROVE CacheInv'
  <2> DEFINE query == [Caching!Nothing EXCEPT !.prompt = p]
  <2>1. Caching!Scan(t, "idle", query, "lookup") /\ asks' \in 0 .. MaxAsks
    BY <1>0, <1>1 DEF Caching!Generate
  <2>2. query \in Calls /\ query.prompt \in Prompts
    BY <1>0 DEF Caching!Nothing, Calls
  <2> HIDE DEF query
  <2>3. QED
    BY <2>1, <2>2, CacheScan
<1>2. ASSUME Caching!Stats(t) PROVE CacheInv'
  <2>1. Caching!Scan(t, "idle", Caching!Nothing, "idle") /\ asks' \in 0 .. MaxAsks
    BY <1>0, <1>2 DEF Caching!Stats
  <2>2. Caching!Nothing \in Calls
    BY <1>0 DEF Caching!Nothing, Calls
  <2>3. QED
    BY <2>1, <2>2, CacheScan
<1>3. ASSUME Caching!EndScan(t) PROVE CacheInv'
  <2> DEFINE X == {entry.key : entry \in {e \in Caching!ToSet(entries) : Caching!Expired(e)}}
             h == [held[t] EXCEPT !.expired = X]
             to == IF t \in mutated THEN "raised" ELSE "pops"
  <2>1. /\ stage[t] = "scan" /\ stage' = [stage EXCEPT ![t] = to]
        /\ held' = [held EXCEPT ![t] = h]
        /\ UNCHANGED <<entries, hits, misses, lookups, now, asks, mutated, answers>>
    BY <1>3 DEF Caching!EndScan, Caching!Goes, Caching!counters
  <2>2. X \subseteq Prompts
    BY <1>0, TableSize, Zenon DEF Caching!ToSet, KeysOf
  <2> HIDE DEF X
  <2>3. h \in Calls /\ h.then = held[t].then /\ h.prompt = held[t].prompt
    BY <1>0, <2>2 DEF Calls
  <2> HIDE DEF h
  <2>4. to \in Stages /\ Fits(to, h) /\ to \notin {"move", "evict", "popitem"}
    BY <1>0, <2>1, <2>3 DEF Fits, Stages
  <2> HIDE DEF to
  <2>5. IsTable(entries', now) /\ KeysOf(entries)' \subseteq KeysOf(entries)
        /\ mutated' \subseteq Processes /\ asks' \in 0 .. MaxAsks
    BY <1>0, <2>1 DEF CacheInv
  <2>6. QED
    BY <2>1, <2>3, <2>4, <2>5, CacheQuiet, Zenon
<1>4. ASSUME Caching!PurgeExpired(t) PROVE CacheInv'
  <2> DEFINE h == [held[t] EXCEPT !.expired = {}]
             to == held[t].then
             W == Caching!Without(held[t].expired)
  <2>1. /\ stage[t] = "pops" /\ stage' = [stage EXCEPT ![t] = to]
        /\ Caching!Entries(W) /\ held' = [held EXCEPT ![t] = h]
        /\ UNCHANGED <<hits, misses, lookups, now, asks, answers>>
    BY <1>4 DEF Caching!PurgeExpired, Caching!Goes, Caching!counters
  <2>2. entries' = W /\ mutated' \subseteq Processes
    BY <2>1, CacheFacts
  <2>3. IsTable(W, now) /\ KeysOf(W) \subseteq KeysOf(entries)
    BY <1>0, TableWithout
  <2>4. h \in Calls /\ h.then = held[t].then /\ h.prompt = held[t].prompt
    BY <1>0 DEF Calls
  <2> HIDE DEF h
  <2>5. to \in {"lookup", "insert", "idle"} /\ (to # "idle" => held[t].prompt \in Prompts)
    BY <1>0, <2>1 DEF Fits
  <2> HIDE DEF to
  <2>6. to \in Stages /\ Fits(to, h) /\ to \notin {"move", "evict", "popitem"}
    BY <2>4, <2>5 DEF Fits, Stages
  <2> HIDE DEF W
  <2>7. IsTable(entries', now) /\ KeysOf(entries)' \subseteq KeysOf(entries) /\ asks' \in 0 .. MaxAsks
    BY <2>1, <2>2, <2>3 DEF CacheInv, KeysOf
  <2>8. QED
    BY <2>1, <2>2, <2>4, <2>6, <2>7, CacheQuiet, Zenon
<1>5. QED
  BY <1>1, <1>2, <1>3, <1>4

\* Of an entry that was found, its key is put at the end.
LEMMA TableMove ==
  ASSUME NEW n \in Nat, IsTable(entries, n), NEW p \in KeysOf(entries)
  PROVE  LET s == Append(Caching!Without({p}), Caching!EntryOf(p)) IN
         IsTable(s, n) /\ KeysOf(s) = KeysOf(entries)
<1> DEFINE W == Caching!Without({p})
           e == Caching!EntryOf(p)
<1>1. IsTable(W, n) /\ KeysOf(W) = KeysOf(entries) \ {p}
  BY TableWithout
<1>2. e \in Entry(n) /\ e.key = p
  BY TableEntry
<1> HIDE DEF W, e
<1>3. e.key \notin KeysOf(W)
  BY <1>1, <1>2
<1>4. IsTable(Append(W, e), n) /\ KeysOf(Append(W, e)) = KeysOf(W) \cup {e.key}
  BY <1>1, <1>2, <1>3, TableAppend
<1>5. KeysOf(Append(W, e)) = KeysOf(entries)
  BY <1>1, <1>2, <1>4
<1>6. QED
  BY <1>4, <1>5 DEF W, e

\* The lookup, and what was found.
LEMMA CacheFinds ==
  ASSUME CacheInv, NEW t \in Processes
  PROVE  /\ Caching!Lookup(t) => CacheInv'
         /\ Caching!DropExpired(t) => CacheInv'
         /\ Caching!Hit(t) => CacheInv'
<1> DEFINE p == held[t].prompt
<1>0. /\ now \in Nat /\ stage[t] \in Stages /\ held[t] \in Calls /\ Fits(stage[t], held[t])
      /\ asks \in 0 .. MaxAsks /\ IsTable(entries, now) /\ mutated \subseteq Processes
      /\ held = [held EXCEPT ![t] = held[t]] /\ Caching!Cached = KeysOf(entries)
  BY CacheFacts DEF CacheInv
<1>a. /\ hits \in Nat /\ misses \in Nat /\ lookups \in Nat /\ hits + misses = lookups
      /\ \A a \in answers : a.of = a.to /\ a.age <= Ttl
  BY DEF CacheInv
<1>1. ASSUME Caching!Lookup(t) PROVE CacheInv'
  <2>1. stage[t] = "lookup" /\ p \in Prompts
    BY <1>0, <1>1 DEF Caching!Lookup, Caching!Goes, Fits
  <2>2. CASE p \in KeysOf(entries)
    <3> DEFINE h == [held[t] EXCEPT !.entry = Caching!EntryOf(p)]
    <3>1. /\ stage' = [stage EXCEPT ![t] = "check"] /\ held' = [held EXCEPT ![t] = h]
          /\ UNCHANGED <<entries, hits, misses, lookups, now, asks, mutated, answers>>
      BY <1>0, <1>1, <2>2 DEF Caching!Lookup, Caching!Goes
    <3>2. Caching!EntryOf(p) \in Entry(now) /\ Caching!EntryOf(p).key = p
      BY <1>0, <2>2, TableEntry
    <3>3. h \in Calls /\ h.entry = Caching!EntryOf(p) /\ h.prompt = p
      BY <1>0, <3>2 DEF Calls
    <3> HIDE DEF h
    <3>4. Fits("check", h) /\ "check" \in Stages
      BY <2>1, <3>2, <3>3 DEF Fits, Stages
    <3>5. IsTable(entries', now) /\ KeysOf(entries)' \subseteq KeysOf(entries)
          /\ mutated' \subseteq Processes /\ asks' \in 0 .. MaxAsks
      BY <1>0, <3>1
    <3>6. QED
      BY <2>1, <3>1, <3>3, <3>4, <3>5, CacheQuiet, Zenon
  <2>3. CASE p \notin KeysOf(entries)
    <3>1. /\ stage' = [stage EXCEPT ![t] = "call"] /\ held' = held
          /\ misses' = misses + 1 /\ lookups' = lookups + 1
          /\ UNCHANGED <<entries, hits, now, asks, mutated, answers>>
      BY <1>0, <1>1, <2>3 DEF Caching!Lookup, Caching!Goes
    <3>2. Fits("call", held[t]) /\ "call" \in Stages /\ held' = [held EXCEPT ![t] = held[t]]
      BY <1>0, <2>1, <3>1 DEF Fits, Stages
    <3>3. IsTable(entries', now) /\ KeysOf(entries)' \subseteq KeysOf(entries)
          /\ mutated' \subseteq Processes /\ asks' \in 0 .. MaxAsks
      BY <1>0, <3>1
    <3>4. SizeHolds'
      BY <2>1, <3>1, <3>2, <3>3, SizeAside, Zenon
    <3>5. /\ hits' \in Nat /\ misses' \in Nat /\ lookups' \in Nat /\ hits' + misses' = lookups'
          /\ \A a \in answers' : a.of = a.to /\ a.age <= Ttl
      BY <1>a, <3>1
    <3>6. QED
      BY <1>0, <3>1, <3>2, <3>3, <3>4, <3>5, CacheStep, Zenon
  <2>4. QED
    BY <2>2, <2>3
<1>2. ASSUME Caching!DropExpired(t) PROVE CacheInv'
  <2> DEFINE W == Caching!Without({p})
  <2>1. /\ stage[t] = "check" /\ stage' = [stage EXCEPT ![t] = "call"]
        /\ Caching!Entries(W) /\ misses' = misses + 1 /\ lookups' = lookups + 1
        /\ UNCHANGED <<held, hits, now, asks, answers>>
    BY <1>2 DEF Caching!DropExpired, Caching!Goes
  <2>2. entries' = W /\ mutated' \subseteq Processes
    BY <2>1, CacheFacts
  <2>3. IsTable(W, now) /\ KeysOf(W) \subseteq KeysOf(entries)
    BY <1>0, TableWithout
  <2> HIDE DEF W
  <2>4. IsTable(entries', now) /\ KeysOf(entries)' \subseteq KeysOf(entries) /\ asks' \in 0 .. MaxAsks
    BY <1>0, <2>1, <2>2, <2>3 DEF KeysOf
  <2>5. Fits("call", held[t]) /\ "call" \in Stages /\ held' = [held EXCEPT ![t] = held[t]]
    BY <1>0, <2>1 DEF Fits, Stages
  <2>6. SizeHolds'
    BY <2>1, <2>4, <2>5, SizeAside, Zenon
  <2>7. /\ hits' \in Nat /\ misses' \in Nat /\ lookups' \in Nat /\ hits' + misses' = lookups'
        /\ \A a \in answers' : a.of = a.to /\ a.age <= Ttl
    BY <1>a, <2>1
  <2>8. QED
    BY <1>0, <2>1, <2>2, <2>4, <2>5, <2>6, <2>7, CacheStep, Zenon
<1>3. ASSUME Caching!Hit(t) PROVE CacheInv'
  <2>1. stage[t] = "check" /\ ~Caching!Expired(held[t].entry)
    BY <1>3 DEF Caching!Hit
  <2>2. p \in Prompts /\ held[t].entry \in Entry(now) /\ held[t].entry.key = p
    BY <1>0, <2>1 DEF Fits
  <2>3. CASE p \in KeysOf(entries)
    <3> DEFINE s == Append(Caching!Without({p}), Caching!EntryOf(p))
    <3>1. /\ stage' = [stage EXCEPT ![t] = "idle"] /\ Caching!Entries(s)
          /\ hits' = hits + 1 /\ lookups' = lookups + 1
          /\ answers' = answers \cup {[to |-> p, of |-> held[t].entry.key, age |-> now - held[t].entry.at]}
          /\ UNCHANGED <<held, misses, now, asks>>
      BY <1>0, <1>3, <2>3 DEF Caching!Hit, Caching!Goes
    <3>2. IsTable(s, now) /\ KeysOf(s) = KeysOf(entries)
      BY <1>0, <2>3, TableMove
    <3> HIDE DEF s
    <3>3. entries' = s /\ mutated' \subseteq Processes
      BY <3>1, CacheFacts
    <3>4. IsTable(entries', now) /\ KeysOf(entries)' \subseteq KeysOf(entries) /\ asks' \in 0 .. MaxAsks
      BY <1>0, <3>1, <3>2, <3>3, Zenon DEF KeysOf
    <3>5. Fits("idle", held[t]) /\ "idle" \in Stages /\ held' = [held EXCEPT ![t] = held[t]]
      BY <1>0, <3>1 DEF Fits, Stages
    <3>6. SizeHolds'
      BY <2>1, <3>1, <3>4, <3>5, SizeAside, Zenon
    <3>7. now - held[t].entry.at <= Ttl
      BY <1>0, <2>1, <2>2, ServicesAssumption DEF ServicesAssumption, Caching!Expired, Entry
    <3>8. \A a \in answers' : a.of = a.to /\ a.age <= Ttl
      BY <1>a, <2>2, <3>1, <3>7
    <3>9. hits' \in Nat /\ misses' \in Nat /\ lookups' \in Nat /\ hits' + misses' = lookups'
      BY <1>a, <3>1
    <3>10. QED
      BY <1>0, <3>1, <3>3, <3>4, <3>5, <3>6, <3>8, <3>9, CacheStep, Zenon
  <2>4. CASE p \notin KeysOf(entries)
    <3>1. /\ stage' = [stage EXCEPT ![t] = "raised"]
          /\ UNCHANGED <<entries, mutated, hits, lookups, answers, held, misses, now, asks>>
      BY <1>0, <1>3, <2>4 DEF Caching!Hit, Caching!Goes
    <3>2. Fits("raised", held[t]) /\ "raised" \in Stages /\ held' = [held EXCEPT ![t] = held[t]]
      BY <1>0, <3>1 DEF Fits, Stages
    <3>3. IsTable(entries', now) /\ KeysOf(entries)' \subseteq KeysOf(entries)
          /\ mutated' \subseteq Processes /\ asks' \in 0 .. MaxAsks
      BY <1>0, <3>1
    <3>4. QED
      BY <1>0, <2>1, <3>1, <3>2, <3>3, CacheQuiet, Zenon
  <2>5. QED
    BY <2>3, <2>4
<1>4. QED
  BY <1>1, <1>2, <1>3

\* The transport.
LEMMA CacheCalls ==
  ASSUME CacheInv, NEW t \in Processes
  PROVE  /\ Caching!CallFails(t) => CacheInv'
         /\ Caching!CallAnswers(t) => CacheInv'
<1>0. /\ now \in Nat /\ stage[t] \in Stages /\ held[t] \in Calls /\ Fits(stage[t], held[t])
      /\ asks \in 0 .. MaxAsks /\ IsTable(entries, now) /\ mutated \subseteq Processes
      /\ held = [held EXCEPT ![t] = held[t]] /\ CallRetries \in Nat
  BY CacheFacts, ServicesAssumption DEF ServicesAssumption, CacheInv
<1>1. ASSUME Caching!CallFails(t) PROVE CacheInv'
  <2>1. /\ stage[t] = "call"
        /\ UNCHANGED <<entries, hits, misses, lookups, now, asks, mutated, answers>>
        /\ \/ stage' = [stage EXCEPT ![t] = "raised"] /\ held' = held
           \/ /\ held[t].attempts < CallRetries /\ stage' = [stage EXCEPT ![t] = "call"]
              /\ held' = [held EXCEPT ![t] = [held[t] EXCEPT !.attempts = held[t].attempts + 1]]
    BY <1>1 DEF Caching!CallFails, Caching!Goes, Caching!counters
  <2>2. held[t].prompt \in Prompts
    BY <1>0, <2>1 DEF Fits
  <2>3. IsTable(entries', now) /\ KeysOf(entries)' \subseteq KeysOf(entries)
        /\ mutated' \subseteq Processes /\ asks' \in 0 .. MaxAsks
    BY <1>0, <2>1
  <2>4. CASE stage' = [stage EXCEPT ![t] = "raised"] /\ held' = held
    <3>1. Fits("raised", held[t]) /\ "raised" \in Stages /\ held' = [held EXCEPT ![t] = held[t]]
      BY <1>0, <2>4 DEF Fits, Stages
    <3>2. QED
      BY <1>0, <2>1, <2>3, <2>4, <3>1, CacheQuiet, Zenon
  <2>5. CASE /\ held[t].attempts < CallRetries /\ stage' = [stage EXCEPT ![t] = "call"]
             /\ held' = [held EXCEPT ![t] = [held[t] EXCEPT !.attempts = held[t].attempts + 1]]
    <3> DEFINE h == [held[t] EXCEPT !.attempts = held[t].attempts + 1]
    <3>1. h \in Calls /\ h.prompt = held[t].prompt
      BY <1>0, <2>5 DEF Calls
    <3>2. held' = [held EXCEPT ![t] = h]
      BY <2>5
    <3> HIDE DEF h
    <3>3. Fits("call", h) /\ "call" \in Stages
      BY <2>2, <3>1 DEF Fits, Stages
    <3>4. QED
      BY <2>1, <2>3, <2>5, <3>1, <3>2, <3>3, CacheQuiet, Zenon
  <2>6. QED
    BY <2>1, <2>4, <2>5
<1>2. ASSUME Caching!CallAnswers(t) PROVE CacheInv'
  <2>1. Caching!Scan(t, "call", held[t], "insert") /\ asks' = asks
    BY <1>2 DEF Caching!CallAnswers
  <2>2. held[t].prompt \in Prompts
    BY <1>0, <2>1 DEF Fits, Caching!Scan, Caching!Goes
  <2>3. QED
    BY <1>0, <2>1, <2>2, CacheScan
<1>3. QED
  BY <1>1, <1>2

\* Storing a response, and evicting.
LEMMA CacheSets ==
  ASSUME CacheInv, NEW t \in Processes
  PROVE  /\ Caching!Insert(t) => CacheInv'
         /\ Caching!MoveToEnd(t) => CacheInv'
         /\ Caching!MeasureSize(t) => CacheInv'
         /\ Caching!Evict(t) => CacheInv'
<1> DEFINE p == held[t].prompt
<1>0. /\ now \in Nat /\ stage[t] \in Stages /\ held[t] \in Calls /\ Fits(stage[t], held[t])
      /\ asks \in 0 .. MaxAsks /\ IsTable(entries, now) /\ mutated \subseteq Processes
      /\ held = [held EXCEPT ![t] = held[t]] /\ Caching!Cached = KeysOf(entries)
      /\ MaxSize \in Nat
  BY CacheFacts, ServicesAssumption DEF ServicesAssumption, CacheInv
<1>a. /\ hits \in Nat /\ misses \in Nat /\ lookups \in Nat /\ hits + misses = lookups
      /\ \A a \in answers : a.of = a.to /\ a.age <= Ttl
  BY DEF CacheInv
<1>b. \A to \in Stages : stage' = [stage EXCEPT ![t] = to] =>
        \A u \in Processes : stage'[u] = IF u = t THEN to ELSE stage[u]
  BY DEF CacheInv
<1>1. ASSUME Caching!Insert(t) PROVE CacheInv'
  <2> DEFINE e == [key |-> p, at |-> now]
             s == IF e.key \in Caching!Cached
                  THEN [i \in DOMAIN entries |-> IF entries[i].key = e.key THEN e ELSE entries[i]]
                  ELSE Append(entries, e)
  <2>1. /\ stage[t] = "insert" /\ stage' = [stage EXCEPT ![t] = "move"] /\ Caching!Entries(s)
        /\ UNCHANGED <<held, hits, misses, lookups, now, asks, answers>>
    BY <1>1 DEF Caching!Insert, Caching!Goes, Caching!counters
  <2>2. p \in Prompts
    BY <1>0, <2>1 DEF Fits
  <2>3. e \in Entry(now) /\ e.key = p
    BY <1>0, <2>2 DEF Entry
  <2> HIDE DEF e
  <2>4. IsTable(s, now) /\ KeysOf(s) \subseteq KeysOf(entries) \cup {p}
    <3>1. CASE p \in KeysOf(entries)
      BY <1>0, <2>3, <3>1, TableReplace
    <3>2. CASE p \notin KeysOf(entries)
      BY <1>0, <2>3, <3>2, TableAppend
    <3>3. QED
      BY <3>1, <3>2
  <2> HIDE DEF s
  <2>5. entries' = s /\ mutated' \subseteq Processes
    BY <2>1, CacheFacts
  <2>6. Fits("move", held[t]) /\ "move" \in Stages /\ held' = [held EXCEPT ![t] = held[t]]
    BY <1>0, <2>1, <2>2 DEF Fits, Stages
  <2>7. \A u \in Processes : stage'[u] = IF u = t THEN "move" ELSE stage[u]
    BY <1>b, <2>1, <2>6, Zenon
  <2>8. Evicting \subseteq Evicting'
    BY <2>1, <2>7 DEF Evicting
  <2>9. Moving \cup {p} \subseteq Moving'
    BY <2>1, <2>7 DEF Moving
  <2>10. KeysOf(entries)' \subseteq KeysOf(entries) \cup {p}
    BY <2>4, <2>5 DEF KeysOf
  <2>11. Left' \subseteq Left
    BY <2>9, <2>10 DEF Left
  <2>12. SizeHolds'
    BY <2>8, <2>11, SizeKept
  <2>13. /\ hits' \in Nat /\ misses' \in Nat /\ lookups' \in Nat /\ hits' + misses' = lookups'
         /\ \A a \in answers' : a.of = a.to /\ a.age <= Ttl
    BY <1>a, <2>1
  <2>14. IsTable(entries', now) /\ asks' \in 0 .. MaxAsks
    BY <1>0, <2>1, <2>4, <2>5
  <2>15. QED
    BY <1>0, <2>1, <2>5, <2>6, <2>12, <2>13, <2>14, CacheStep, Zenon
<1>2. ASSUME Caching!MoveToEnd(t) PROVE CacheInv'
  <2>1. stage[t] = "move" /\ UNCHANGED <<held, hits, misses, lookups, now, asks, answers>>
    BY <1>2 DEF Caching!MoveToEnd, Caching!Goes, Caching!counters
  <2>2. /\ hits' \in Nat /\ misses' \in Nat /\ lookups' \in Nat /\ hits' + misses' = lookups'
        /\ \A a \in answers' : a.of = a.to /\ a.age <= Ttl
    BY <1>a, <2>1
  <2>3. CASE p \in KeysOf(entries)
    <3> DEFINE s == Append(Caching!Without({p}), Caching!EntryOf(p))
    <3>1. stage' = [stage EXCEPT ![t] = "evict"] /\ Caching!Entries(s)
      BY <1>0, <1>2, <2>3 DEF Caching!MoveToEnd, Caching!Goes
    <3>2. IsTable(s, now) /\ KeysOf(s) = KeysOf(entries)
      BY <1>0, <2>3, TableMove
    <3> HIDE DEF s
    <3>3. entries' = s /\ mutated' \subseteq Processes
      BY <3>1, CacheFacts
    <3>4. Fits("evict", held[t]) /\ "evict" \in Stages /\ held' = [held EXCEPT ![t] = held[t]]
      BY <1>0, <2>1 DEF Fits, Stages
    <3>5. \A u \in Processes : stage'[u] = IF u = t THEN "evict" ELSE stage[u]
      BY <1>b, <3>1, <3>4, Zenon
    <3>6. t \notin Evicting /\ Evicting \cup {t} \subseteq Evicting'
      BY <2>1, <3>5 DEF Evicting
    <3>7. Moving \subseteq Moving' \cup {p}
      BY <2>1, <3>5 DEF Moving
    <3>8. Left' \subseteq Left \cup {p}
      BY <3>2, <3>3, <3>7 DEF Left, KeysOf
    <3>9. SizeHolds'
      BY <3>6, <3>8, SizeMoved
    <3>10. IsTable(entries', now) /\ asks' \in 0 .. MaxAsks
      BY <1>0, <2>1, <3>2, <3>3
    <3>11. QED
      BY <1>0, <2>1, <2>2, <3>1, <3>3, <3>4, <3>9, <3>10, CacheStep, Zenon
  <2>4. CASE p \notin KeysOf(entries)
    <3>1. stage' = [stage EXCEPT ![t] = "raised"] /\ UNCHANGED <<entries, mutated>>
      BY <1>0, <1>2, <2>4 DEF Caching!MoveToEnd, Caching!Goes
    <3>2. Fits("raised", held[t]) /\ "raised" \in Stages /\ held' = [held EXCEPT ![t] = held[t]]
      BY <1>0, <2>1 DEF Fits, Stages
    <3>3. \A u \in Processes : stage'[u] = IF u = t THEN "raised" ELSE stage[u]
      BY <1>b, <3>1, <3>2, Zenon
    <3>4. Evicting \subseteq Evicting'
      BY <2>1, <3>3 DEF Evicting
    <3>5. Moving \subseteq Moving' \cup {p}
      BY <2>1, <3>3 DEF Moving
    <3>6. Left' \subseteq Left
      BY <2>4, <3>1, <3>5 DEF Left, KeysOf
    <3>7. SizeHolds'
      BY <3>4, <3>6, SizeKept
    <3>8. IsTable(entries', now) /\ asks' \in 0 .. MaxAsks /\ mutated' \subseteq Processes
      BY <1>0, <2>1, <3>1
    <3>9. QED
      BY <1>0, <2>1, <2>2, <3>1, <3>2, <3>7, <3>8, CacheStep, Zenon
  <2>5. QED
    BY <2>3, <2>4
<1>3. ASSUME Caching!MeasureSize(t) PROVE CacheInv'
  <2> DEFINE to == IF Len(entries) > MaxSize THEN "popitem" ELSE "idle"
  <2>1. /\ stage[t] = "evict" /\ stage' = [stage EXCEPT ![t] = to]
        /\ UNCHANGED <<held, entries, hits, misses, lookups, now, asks, mutated, answers>>
    BY <1>3 DEF Caching!MeasureSize, Caching!Goes, Caching!counters
  <2>2. Fits(to, held[t]) /\ to \in Stages /\ held' = [held EXCEPT ![t] = held[t]]
    BY <1>0, <2>1 DEF Fits, Stages
  <2>3. /\ hits' \in Nat /\ misses' \in Nat /\ lookups' \in Nat /\ hits' + misses' = lookups'
        /\ \A a \in answers' : a.of = a.to /\ a.age <= Ttl
    BY <1>a, <2>1
  <2>4. SizeHolds'
    <3>1. CASE Len(entries) > MaxSize
      <4>1. to = "popitem"
        BY <3>1
      <4> HIDE DEF to
      <4>2. \A u \in Processes : stage'[u] = IF u = t THEN "popitem" ELSE stage[u]
        BY <1>b, <2>1, <2>2, <4>1, Zenon
      <4>3. Evicting \subseteq Evicting'
        BY <2>1, <4>2 DEF Evicting
      <4>4. Moving \subseteq Moving'
        BY <2>1, <4>2 DEF Moving
      <4>5. Left' \subseteq Left
        BY <2>1, <4>4 DEF Left, KeysOf
      <4>6. QED
        BY <4>3, <4>5, SizeKept
    <3>2. CASE ~(Len(entries) > MaxSize)
      <4>1. Len(entries) \in Nat
        BY <1>0, TableSize
      <4>2. Len(entries) <= MaxSize
        BY <1>0, <3>2, <4>1
      <4>3. KeysOf(entries)' \subseteq KeysOf(entries)
        BY <2>1 DEF KeysOf
      <4>4. QED
        BY <4>2, <4>3, SizeSmall
    <3>3. QED
      BY <3>1, <3>2
  <2>5. IsTable(entries', now) /\ asks' \in 0 .. MaxAsks /\ mutated' \subseteq Processes
    BY <1>0, <2>1
  <2> HIDE DEF to
  <2>6. QED
    BY <1>0, <2>1, <2>2, <2>3, <2>4, <2>5, CacheStep, Zenon
<1>4. ASSUME Caching!Evict(t) PROVE CacheInv'
  <2>1. stage[t] = "popitem" /\ UNCHANGED <<held, hits, misses, lookups, now, asks, answers>>
    BY <1>4 DEF Caching!Evict, Caching!Goes, Caching!counters
  <2>2. /\ hits' \in Nat /\ misses' \in Nat /\ lookups' \in Nat /\ hits' + misses' = lookups'
        /\ \A a \in answers' : a.of = a.to /\ a.age <= Ttl
    BY <1>a, <2>1
  <2>3. CASE entries # <<>>
    <3>1. stage' = [stage EXCEPT ![t] = "evict"] /\ Caching!Entries(Tail(entries))
      BY <1>4, <2>3 DEF Caching!Evict, Caching!Goes
    <3>2. IsTable(Tail(entries), now) /\ KeysOf(Tail(entries)) \subseteq KeysOf(entries)
      BY <1>0, <2>3, TableTail
    <3>3. entries' = Tail(entries) /\ mutated' \subseteq Processes
      BY <3>1, CacheFacts, Zenon
    <3>4. Fits("evict", held[t]) /\ "evict" \in Stages /\ held' = [held EXCEPT ![t] = held[t]]
      BY <1>0, <2>1 DEF Fits, Stages
    <3>5. \A u \in Processes : stage'[u] = IF u = t THEN "evict" ELSE stage[u]
      BY <1>b, <3>1, <3>4, Zenon
    <3>6. Evicting \subseteq Evicting'
      BY <2>1, <3>5 DEF Evicting
    <3>7. Moving \subseteq Moving'
      BY <2>1, <3>5 DEF Moving
    <3>8. KeysOf(entries)' \subseteq KeysOf(entries)
      BY <3>2, <3>3, Zenon DEF KeysOf
    <3>9. SizeHolds'
      BY <3>6, <3>7, <3>8, SizeKept DEF Left
    <3>10. IsTable(entries', now) /\ asks' \in 0 .. MaxAsks
      BY <1>0, <2>1, <3>2, <3>3
    <3>11. QED
      BY <1>0, <2>1, <2>2, <3>1, <3>3, <3>4, <3>9, <3>10, CacheStep, Zenon
  <2>4. CASE entries = <<>>
    <3>1. stage' = [stage EXCEPT ![t] = "raised"] /\ UNCHANGED <<entries, mutated>>
      BY <1>4, <2>4 DEF Caching!Evict, Caching!Goes
    <3>2. Fits("raised", held[t]) /\ "raised" \in Stages /\ held' = [held EXCEPT ![t] = held[t]]
      BY <1>0, <2>1 DEF Fits, Stages
    <3>3. Len(entries) <= MaxSize
      BY <1>0, <2>4, EmptySeq
    <3>4. KeysOf(entries)' \subseteq KeysOf(entries)
      BY <3>1 DEF KeysOf
    <3>5. SizeHolds'
      BY <3>3, <3>4, SizeSmall
    <3>6. IsTable(entries', now) /\ asks' \in 0 .. MaxAsks /\ mutated' \subseteq Processes
      BY <1>0, <2>1, <3>1
    <3>7. QED
      BY <1>0, <2>1, <2>2, <3>1, <3>2, <3>5, <3>6, CacheStep, Zenon
  <2>5. QED
    BY <2>3, <2>4
<1>5. QED
  BY <1>1, <1>2, <1>3, <1>4

\* Clearing, the next task, and time.
LEMMA CacheClears ==
  ASSUME CacheInv, NEW t \in Processes
  PROVE  /\ Caching!Clear(t) => CacheInv'
         /\ Caching!ZeroCounters(t) => CacheInv'
         /\ Caching!NextTask(t) => CacheInv'
<1>0. /\ now \in Nat /\ stage[t] \in Stages /\ held[t] \in Calls /\ Fits(stage[t], held[t])
      /\ asks \in 0 .. MaxAsks /\ IsTable(entries, now) /\ mutated \subseteq Processes
      /\ held = [held EXCEPT ![t] = held[t]] /\ MaxAsks \in Nat
  BY CacheFacts, ServicesAssumption DEF ServicesAssumption, CacheInv
<1>1. ASSUME Caching!Clear(t) PROVE CacheInv'
  <2>1. /\ stage[t] = "idle" /\ stage' = [stage EXCEPT ![t] = "zero"] /\ Caching!Entries(<<>>)
        /\ asks < MaxAsks /\ asks' = asks + 1
        /\ UNCHANGED <<held, hits, misses, lookups, now, answers>>
    BY <1>1 DEF Caching!Clear, Caching!Goes, Caching!counters
  <2>2. entries' = <<>> /\ mutated' \subseteq Processes
    BY <2>1, CacheFacts
  <2>3. IsTable(<<>>, now) /\ KeysOf(<<>>) = {}
    BY EmptySeq DEF IsTable, KeysOf
  <2>4. IsTable(entries', now) /\ KeysOf(entries)' \subseteq KeysOf(entries)
    BY <2>2, <2>3 DEF KeysOf
  <2>5. Fits("zero", held[t]) /\ "zero" \in Stages /\ held' = [held EXCEPT ![t] = held[t]]
    BY <1>0, <2>1 DEF Fits, Stages
  <2>6. asks' \in 0 .. MaxAsks
    BY <1>0, <2>1
  <2>7. QED
    BY <1>0, <2>1, <2>2, <2>4, <2>5, <2>6, CacheQuiet, Zenon
<1>2. ASSUME Caching!ZeroCounters(t) PROVE CacheInv'
  <2>1. /\ stage[t] = "zero" /\ stage' = [stage EXCEPT ![t] = "idle"]
        /\ hits' = 0 /\ misses' = 0 /\ lookups' = 0
        /\ UNCHANGED <<held, entries, now, asks, mutated, answers>>
    BY <1>2 DEF Caching!ZeroCounters, Caching!Goes
  <2>2. Fits("idle", held[t]) /\ "idle" \in Stages /\ held' = [held EXCEPT ![t] = held[t]]
    BY <1>0, <2>1 DEF Fits, Stages
  <2>3. IsTable(entries', now) /\ KeysOf(entries)' \subseteq KeysOf(entries)
        /\ mutated' \subseteq Processes /\ asks' \in 0 .. MaxAsks
    BY <1>0, <2>1
  <2>4. SizeHolds'
    BY <2>1, <2>2, <2>3, SizeAside, Zenon
  <2>5. /\ hits' \in Nat /\ misses' \in Nat /\ lookups' \in Nat /\ hits' + misses' = lookups'
        /\ \A a \in answers' : a.of = a.to /\ a.age <= Ttl
    BY <2>1 DEF CacheInv
  <2>6. QED
    BY <1>0, <2>1, <2>2, <2>3, <2>4, <2>5, CacheStep, Zenon
<1>3. ASSUME Caching!NextTask(t) PROVE CacheInv'
  <2>1. /\ stage[t] = "raised" /\ stage' = [stage EXCEPT ![t] = "idle"]
        /\ UNCHANGED <<held, entries, hits, misses, lookups, now, asks, mutated, answers>>
    BY <1>3 DEF Caching!NextTask, Caching!Goes, Caching!counters
  <2>2. Fits("idle", held[t]) /\ "idle" \in Stages /\ held' = [held EXCEPT ![t] = held[t]]
    BY <1>0, <2>1 DEF Fits, Stages
  <2>3. IsTable(entries', now) /\ KeysOf(entries)' \subseteq KeysOf(entries)
        /\ mutated' \subseteq Processes /\ asks' \in 0 .. MaxAsks
    BY <1>0, <2>1
  <2>4. QED
    BY <1>0, <2>1, <2>2, <2>3, CacheQuiet, Zenon
<1>4. QED
  BY <1>1, <1>2, <1>3

LEMMA CacheTick == CacheInv /\ Caching!Tick => CacheInv'
<1> SUFFICES ASSUME CacheInv, Caching!Tick PROVE CacheInv'
  OBVIOUS
<1>1. /\ now < MaxTime /\ now' = now + 1
      /\ UNCHANGED <<stage, held, entries, hits, misses, lookups, asks, mutated, answers>>
  BY DEF Caching!Tick, Caching!counters
<1>2. now \in Nat /\ MaxTime \in Nat /\ now' \in 0 .. MaxTime
  BY <1>1, ServicesAssumption DEF ServicesAssumption, CacheInv
<1>3. Entry(now) \subseteq Entry(now')
  BY <1>1, <1>2 DEF Entry
<1>4. Calls \subseteq Calls'
  BY <1>3 DEF Calls
<1>5. held' \in [Processes -> Calls']
  BY <1>1, <1>4 DEF CacheInv
<1>6. IsTable(entries', now')
  BY <1>1, <1>3, SeqMonotonic DEF CacheInv, IsTable
<1>7. \A t \in Processes : Fits(stage[t], held[t])'
  BY <1>1, <1>3 DEF CacheInv, Fits
<1>8. Left' = Left /\ Evicting' = Evicting
  BY <1>1 DEF Left, Evicting, KeysOf, Moving
<1>9. SizeHolds'
  BY <1>8, SizeKept
<1>10. stage' \in [Processes -> Stages'] /\ asks' \in 0 .. MaxAsks /\ mutated' \subseteq Processes
  BY <1>1 DEF CacheInv, Stages
<1>11. /\ hits' \in Nat /\ misses' \in Nat /\ lookups' \in Nat /\ hits' + misses' = lookups'
       /\ \A a \in answers' : a.of = a.to /\ a.age <= Ttl
  BY <1>1 DEF CacheInv
<1>12. QED
  BY <1>2, <1>5, <1>6, <1>7, <1>9, <1>10, <1>11, Zenon DEF CacheInv

LEMMA CacheNext == CacheInv /\ [Caching!Next]_(Caching!vars) => CacheInv'
<1> SUFFICES ASSUME CacheInv, [Caching!Next]_(Caching!vars) PROVE CacheInv'
  OBVIOUS
<1>1. CASE UNCHANGED Caching!vars
  <2>1. UNCHANGED <<stage, held, entries, hits, misses, now, asks, mutated, lookups, answers>>
    BY <1>1 DEF Caching!vars
  <2>2. Left' = Left /\ Evicting' = Evicting
    BY <2>1 DEF Left, Evicting, KeysOf, Moving
  <2>3. SizeHolds'
    BY <2>2, SizeKept
  <2>4. /\ stage' \in [Processes -> Stages'] /\ held' \in [Processes -> Calls']
        /\ \A t \in Processes : Fits(stage[t], held[t])'
    BY <2>1 DEF CacheInv, Stages, Calls, Fits, Entry
  <2>5. IsTable(entries', now') /\ now' \in 0 .. MaxTime /\ asks' \in 0 .. MaxAsks
    BY <2>1 DEF CacheInv
  <2>6. /\ hits' \in Nat /\ misses' \in Nat /\ lookups' \in Nat /\ hits' + misses' = lookups'
        /\ mutated' \subseteq Processes /\ \A a \in answers' : a.of = a.to /\ a.age <= Ttl
    BY <2>1 DEF CacheInv
  <2>7. QED
    BY <2>3, <2>4, <2>5, <2>6, Zenon DEF CacheInv
<1>2. CASE Caching!Next
  BY <1>2, CacheAsks, CacheFinds, CacheCalls, CacheSets, CacheClears, CacheTick
    DEF Caching!Next, Caching!Found
<1>3. QED
  BY <1>1, <1>2

-----------------------------------------------------------------------------
(* ExperimentFeedback *)

Experiments == DOMAIN Rows
MetricNames ==
  {Items[i].signal : i \in DOMAIN Items} \cup DOMAIN Given
    \cup UNION {DOMAIN Rows[e].after : e \in Experiments}
FiniteNames == {D \in SUBSET MetricNames : IsFiniteSet(D)}
MetricsOf == UNION {[D -> Int] : D \in FiniteNames}
ExperimentRow == [after : MetricsOf, linked : BOOLEAN]
BaselineRow == [line : Feedback!Lines, metrics : MetricsOf, experiment : Experiments \cup {None},
                active : BOOLEAN]
Read == [experiment : Experiments \cup {None}, row : ExperimentRow \cup {None},
         items : SUBSET DOMAIN Items, baseline : Nat,
         verdict : {None, "experiment", "baseline", "tie", "review", "auto"}]
FeedStages == {"idle", "list", "reread", "save", "link", "create", "switch", "active", "threshold",
               "over"}

FeedTypes ==
  /\ stage \in [Processes -> FeedStages] /\ held \in [Processes -> Read]
  /\ adding \in [DOMAIN Items -> {"idle", "add", "over"}]
  /\ quality \in [DOMAIN Items -> {"none", "pass", "warn", "reject"}]
  /\ feedback \subseteq DOMAIN Items
  /\ experiment \in [Experiments -> ExperimentRow]
  /\ baselines \in Seq(BaselineRow)
  /\ threshold \in RiskThresholds \cup {600}
  /\ applied \in [Experiments -> [items : SUBSET DOMAIN Items, linked : BOOLEAN]]
  /\ behind \subseteq Processes \X Feedback!Columns
  /\ torn \subseteq Experiments \X Feedback!Columns

\* Metrics of an experiment are those it was made with, or feedback of it.
Backed(e, m, there) ==
  \A s \in DOMAIN m :
    \/ s \in DOMAIN Rows[e].after /\ m[s] = Rows[e].after[s]
    \/ \E j \in there : Items[j].experiment = e /\ Items[j].signal = s /\ Items[j].value = m[s]

\* Metrics show the latest of these items for each signal.
Shows(m, shown) ==
  \A i \in shown : /\ Items[i].signal \in DOMAIN m
                   /\ m[Items[i].signal] = Items[Feedback!Latest(shown, Items[i].signal)].value

\* What was saved passed the gate, and what is about to be saved has.
Passed(i) == Items[i].signal # "" /\ quality[i] \in {"pass", "warn"}
GateInv ==
  \A i \in DOMAIN Items :
    /\ adding[i] = "add" => Passed(i)
    /\ i \in feedback => adding[i] = "over" /\ Passed(i) /\ Items[i].kind = "number"

\* Rows of experiments are backed and show what was applied to them.
OfExperiment(e) == {i \in feedback : Items[i].experiment = e}
RowInv(e) ==
  /\ Backed(e, experiment[e].after, feedback)
  /\ applied[e].items \subseteq OfExperiment(e)
  /\ <<e, "after">> \notin torn => Shows(experiment[e].after, applied[e].items)
  /\ <<e, "linked">> \notin torn /\ applied[e].linked => experiment[e].linked

\* Rows of promoted experiments are backed too, and each line has one that is active.
PromotedInv ==
  \A i \in DOMAIN baselines :
    /\ \E k \in DOMAIN baselines : Feedback!Active(baselines[i].line) = {k}
    /\ baselines[i].experiment # None =>
         /\ baselines[i].experiment \in Experiments
         /\ Backed(baselines[i].experiment, baselines[i].metrics, feedback)

\* A command has read a row that is backed.  Unless another has written the row since,
\* what it is about to write has all that was applied, or is what the row still has.
Reading == {"list", "reread", "save", "link", "create", "active", "threshold"}
ReadInv(q) ==
  LET h == held[q]
      e == h.experiment
  IN /\ stage[q] \in Reading =>
          /\ e \in Experiments /\ h.row \in ExperimentRow /\ Backed(e, h.row.after, feedback)
     /\ stage[q] \in {"reread", "save"} =>
          /\ h.items \subseteq OfExperiment(e)
          /\ Shows(h.row.after, h.items)
          /\ <<q, "after">> \notin behind => applied[e].items \subseteq h.items
     /\ stage[q] = "link" /\ <<q, "after">> \notin behind => h.row.after = experiment[e].after
     /\ stage[q] = "save" /\ <<q, "linked">> \notin behind => h.row.linked = experiment[e].linked
     /\ stage[q] = "switch" => h.baseline \in DOMAIN baselines
     /\ stage[q] # "over" => h.verdict = None
     /\ h.verdict \in {"experiment", "baseline"} =>
          /\ h.baseline \in DOMAIN baselines
          /\ baselines[h.baseline].metrics # h.row.after

FeedInv ==
  /\ FeedTypes /\ GateInv /\ \A e \in Experiments : RowInv(e)
  /\ PromotedInv /\ \A q \in Processes : ReadInv(q)

LEMMA FeedCardinality == \A S : Feedback!Cardinality(S) = Cardinality(S)
BY DEF Feedback!Cardinality, Cardinality

LEMMA FeedHolds == FeedInv => Feedback!FeedbackCounts
<1> SUFFICES ASSUME FeedInv PROVE Feedback!AppliedStays /\ Feedback!BaselinesAreBacked
  BY DEF Feedback!FeedbackCounts
<1>1. Feedback!AppliedStays
  <2>1. ASSUME NEW e \in Experiments, <<e, "after">> \notin torn, NEW i \in applied[e].items
        PROVE  experiment[e].after[Items[i].signal]
                 = Items[Feedback!Latest(applied[e].items, Items[i].signal)].value
    BY <2>1, Zenon DEF FeedInv, RowInv, Shows
  <2>2. ASSUME NEW e \in Experiments, <<e, "linked">> \notin torn, applied[e].linked
        PROVE  experiment[e].linked
    BY <2>2, Zenon DEF FeedInv, RowInv
  <2>3. QED
    BY <2>1, <2>2, Zenon DEF Feedback!AppliedStays, Feedback!Experiments, Experiments
<1>2. ASSUME NEW i \in DOMAIN baselines
      PROVE  Feedback!Cardinality(Feedback!Active(baselines[i].line)) = 1
  <2>1. PICK k \in DOMAIN baselines : Feedback!Active(baselines[i].line) = {k}
    BY Zenon DEF FeedInv, PromotedInv
  <2>2. Cardinality({k}) = 1
    BY FS_Singleton
  <2>3. QED
    BY <2>1, <2>2, FeedCardinality
<1>3. ASSUME NEW i \in DOMAIN baselines, baselines[i].experiment # None,
             NEW s \in DOMAIN baselines[i].metrics
      PROVE  LET e == baselines[i].experiment
                 m == baselines[i].metrics
             IN \/ s \in DOMAIN Rows[e].after /\ m[s] = Rows[e].after[s]
                \/ \E j \in feedback :
                     /\ Items[j].experiment = e /\ Items[j].signal = s /\ Items[j].value = m[s]
                     /\ Feedback!Counts(j) /\ quality[j] \in {"pass", "warn"}
  <2>1. Backed(baselines[i].experiment, baselines[i].metrics, feedback)
    BY <1>3 DEF FeedInv, PromotedInv
  <2>2. \A j \in feedback : Feedback!Counts(j) /\ quality[j] \in {"pass", "warn"}
    <3>1. ASSUME NEW j \in feedback PROVE Passed(j) /\ Items[j].kind = "number"
      BY DEF FeedInv, FeedTypes, GateInv
    <3>2. QED
      BY <3>1, Zenon DEF Passed, Feedback!Counts
  <2>3. QED
    BY <1>3, <2>1, <2>2 DEF Backed
<1>4. ASSUME NEW q \in Processes, held[q].verdict \in {"experiment", "baseline"}
      PROVE  baselines[held[q].baseline].metrics # held[q].row.after
  BY <1>4, Zenon DEF FeedInv, ReadInv
<1>5. QED
  BY <1>1, <1>2, <1>3, <1>4 DEF Feedback!BaselinesAreBacked

\* A weighted mean of fractions is a fraction.
Weighted(m, b, r, c, p) ==
  (30 * m + 20 * b + 20 * (1000 - r) + 15 * (1000 - c) + 15 * p) \div 100

LEMMA WeightedFractions ==
  ASSUME NEW m \in Fractions, NEW b \in Fractions, NEW r \in Fractions, NEW c \in Fractions,
         NEW p \in Fractions
  PROVE  Weighted(m, b, r, c, p) \in Fractions
<1> DEFINE sum == 30 * m + 20 * b + 20 * (1000 - r) + 15 * (1000 - c) + 15 * p
<1>1. sum \in Int /\ 0 <= sum /\ sum <= 100000
  BY DEF Fractions
<1> HIDE DEF sum
<1>2. sum \div 100 \in Int /\ 0 <= sum \div 100 /\ sum \div 100 <= 1000
  BY <1>1
<1>3. QED
  BY <1>2 DEF sum, Weighted, Fractions

LEMMA RiskIsFraction ==
  ASSUME NEW risk, risk.magnitude \in Fractions, risk.reversibility \in Fractions,
         risk.confidence \in Fractions, risk.blast \in Fractions \cup {None}
  PROVE  Feedback!TotalRisk(risk) \in Fractions
<1> DEFINE blast == Feedback!BlastRadius(risk)
           policy == IF risk.compliant THEN 0 ELSE 1000
<1>1. ASSUME risk.blast = None PROVE blast \in {425, 950, 700, 500}
  BY <1>1 DEF Feedback!BlastRadius
<1>2. ASSUME risk.blast # None PROVE blast = risk.blast
  BY <1>2 DEF Feedback!BlastRadius
<1> HIDE DEF blast
<1>3. {425, 950, 700, 500} \subseteq Fractions /\ policy \in Fractions
  BY DEF Fractions
<1>4. blast \in Fractions
  BY <1>1, <1>2, <1>3
<1>5. Feedback!TotalRisk(risk)
        = Weighted(risk.magnitude, blast, risk.reversibility, risk.confidence, policy)
  BY DEF Feedback!TotalRisk, Weighted, blast
<1> HIDE DEF policy
<1>6. \A b, p \in Fractions :
        Weighted(risk.magnitude, b, risk.reversibility, risk.confidence, p) \in Fractions
  BY WeightedFractions, Zenon
<1> HIDE DEF policy
<1>7. QED
  BY <1>3, <1>4, <1>5, <1>6

LEMMA FeedHasTypes == FeedInv => Feedback!TypeOK
<1> SUFFICES ASSUME FeedTypes PROVE Feedback!TypeOK
  BY DEF FeedInv
<1>1. ASSUME NEW e \in Experiments
      PROVE  /\ \A s \in DOMAIN experiment[e].after : experiment[e].after[s] \in Int
             /\ experiment[e].linked \in BOOLEAN
  <2>1. experiment[e] \in ExperimentRow
    BY DEF FeedTypes
  <2>2. experiment[e].after \in MetricsOf /\ experiment[e].linked \in BOOLEAN
    BY <2>1 DEF ExperimentRow
  <2>3. QED
    BY <2>2 DEF MetricsOf
<1>2. ASSUME NEW i \in DOMAIN baselines
      PROVE  baselines[i].line \in Feedback!Lines /\ baselines[i].active \in BOOLEAN
  <2>1. baselines \in Seq(BaselineRow)
    BY DEF FeedTypes
  <2>2. baselines[i] \in BaselineRow
    BY <2>1, LenProperties, ElementOfSeq
  <2>3. QED
    BY <2>2 DEF BaselineRow
<1>3. \A e \in Experiments : Feedback!TotalRisk(Rows[e].risk) \in 0 .. 1000
  <2> TAKE e \in Experiments
  <2>1. Feedback!TotalRisk(Rows[e].risk) \in Fractions
    BY RiskIsFraction, RiskAssumption DEF Experiments
  <2>2. QED
    BY <2>1 DEF Fractions
<1>4. QED
  BY <1>1, <1>2, <1>3 DEF FeedTypes, FeedStages, Feedback!TypeOK, Feedback!Experiments, Experiments

LEMMA FeedInit == Feedback!Init => FeedInv
<1> SUFFICES ASSUME Feedback!Init PROVE FeedInv
  OBVIOUS
<1>1. /\ stage = [q \in Processes |-> "idle"]
      /\ held = [q \in Processes |-> Feedback!Nothing]
      /\ adding = [i \in DOMAIN Items |-> "idle"]
      /\ quality = [i \in DOMAIN Items |-> "none"]
      /\ feedback = {}
      /\ experiment = [e \in Experiments |-> [after |-> Rows[e].after, linked |-> FALSE]]
      /\ baselines = <<>>
      /\ threshold = 600
      /\ applied = [e \in Experiments |-> [items |-> {}, linked |-> FALSE]]
      /\ behind = {} /\ torn = {}
  BY DEF Feedback!Init, Feedback!Experiments, Experiments
<1>2. \A e \in Experiments : Rows[e].after \in MetricsOf
  <2> TAKE e \in Experiments
  <2>1. /\ DOMAIN Rows[e].after \in FiniteNames
        /\ Rows[e].after \in [DOMAIN Rows[e].after -> Int]
    BY FeedbackAssumption DEF FiniteNames, MetricNames, Experiments
  <2>2. QED
    BY <2>1 DEF MetricsOf
<1>3. Feedback!Nothing \in Read
  BY DEF Feedback!Nothing, Read
<1>4. FeedTypes
  <2>1. baselines \in Seq(BaselineRow)
    BY <1>1
  <2>2. experiment \in [Experiments -> ExperimentRow]
    BY <1>1, <1>2 DEF ExperimentRow
  <2>3. /\ stage \in [Processes -> FeedStages] /\ held \in [Processes -> Read]
        /\ applied \in [Experiments -> [items : SUBSET DOMAIN Items, linked : BOOLEAN]]
    BY <1>1, <1>3 DEF FeedStages
  <2>4. QED
    BY <1>1, <2>1, <2>2, <2>3 DEF FeedTypes
<1>5. GateInv
  BY <1>1 DEF GateInv
<1>6. \A e \in Experiments : RowInv(e)
  BY <1>1 DEF RowInv, Backed, Shows
<1>7. PromotedInv
  BY <1>1 DEF PromotedInv
<1>8. \A q \in Processes : ReadInv(q)
  <2> TAKE q \in Processes
  <2>1. stage[q] = "idle" /\ held[q].verdict = None
    BY <1>1 DEF Feedback!Nothing
  <2>2. QED
    BY <2>1, FeedbackAssumption DEF ReadInv, Reading
<1>9. QED
  BY <1>4, <1>5, <1>6, <1>7, <1>8 DEF FeedInv

\* A set of places that is not empty has a last one.
LEMMA LastOf ==
  ASSUME NEW n \in Nat, NEW T \in SUBSET (1 .. n), T # {}
  PROVE  \E k \in T : \A j \in T : j <= k
<1> DEFINE D == {n - i : i \in T}
<1>1. D \in SUBSET Nat /\ D # {}
  <2>1. \A i \in T : i \in 1 .. n
    OBVIOUS
  <2>2. \A i \in T : n - i \in Nat
    BY <2>1
  <2>3. QED
    BY <2>2, Zenon
<1> HIDE DEF D
<1>2. PICK d \in D : \A c \in D : d <= c
  BY <1>1, LeastNumber
<1>3. PICK k \in T : d = n - k
  BY DEF D
<1>4. ASSUME NEW j \in T PROVE j <= k
  <2>1. n - j \in D
    BY DEF D
  <2>2. n - k <= n - j /\ j \in Int /\ k \in Int
    BY <1>2, <1>3, <2>1
  <2>3. QED
    BY <2>2
<1>5. QED
  BY <1>4

LEMMA LatestIs ==
  ASSUME NEW shown \in SUBSET DOMAIN Items, NEW i \in shown
  PROVE  LET k == Feedback!Latest(shown, Items[i].signal)
         IN k \in shown /\ Items[k].signal = Items[i].signal
<1> DEFINE T == {j \in shown : Items[j].signal = Items[i].signal}
<1>1. Len(Items) \in Nat /\ T \in SUBSET (1 .. Len(Items)) /\ T # {}
  BY FeedbackAssumption
<1>2. PICK k \in T : \A j \in T : j <= k
  BY <1>1, LastOf, Zenon
<1>3. k \in shown /\ Items[k].signal = Items[i].signal
      /\ \A j \in shown : Items[j].signal = Items[i].signal => j <= k
  BY <1>2
<1>4. QED
  BY <1>3 DEF Feedback!Latest

LEMMA WithFeedbackIs ==
  ASSUME FeedInv, NEW e \in Experiments, NEW m \in MetricsOf, Backed(e, m, feedback)
  PROVE  LET w == Feedback!WithFeedback(m, OfExperiment(e))
         IN w \in MetricsOf /\ Backed(e, w, feedback) /\ Shows(w, OfExperiment(e))
<1> DEFINE shown == OfExperiment(e)
           signals == {Items[i].signal : i \in shown}
           w == Feedback!WithFeedback(m, shown)
<1>1. /\ shown \in SUBSET DOMAIN Items /\ shown \subseteq feedback
      /\ \A i \in shown : Items[i].experiment = e /\ Items[i].value \in Int
  BY FeedbackAssumption DEF FeedInv, FeedTypes, GateInv, OfExperiment
<1>2. IsFiniteSet(shown)
  BY <1>1, FeedbackAssumption, FS_Interval, FS_Subset
<1>3. signals \subseteq MetricNames
  BY <1>1 DEF MetricNames
<1>4. IsFiniteSet(signals)
  <2> DEFINE f == [i \in shown |-> Items[i].signal]
  <2>1. f \in Surjection(shown, signals)
    <3>1. f \in [shown -> signals] /\ \A s \in signals : \E i \in shown : f[i] = s
      OBVIOUS
    <3> HIDE DEF f, signals
    <3>2. QED
      BY <3>1 DEF Surjection
  <2> HIDE DEF f, signals
  <2>2. QED
    BY <1>2, <2>1, FS_Surjection
<1>5. m \in [DOMAIN m -> Int] /\ DOMAIN m \subseteq MetricNames /\ IsFiniteSet(DOMAIN m)
  BY DEF MetricsOf, FiniteNames
<1>6. w = [s \in DOMAIN m \cup signals |->
             IF s \in signals THEN Items[Feedback!Latest(shown, s)].value ELSE m[s]]
  BY DEF Feedback!WithFeedback
<1>7. \A s \in signals : LET k == Feedback!Latest(shown, s) IN k \in shown /\ Items[k].signal = s
  BY <1>1, LatestIs
<1>8. DOMAIN m \cup signals \in FiniteNames
  BY <1>3, <1>4, <1>5, FS_Union, Zenon DEF FiniteNames
<1> HIDE DEF w, shown, signals
<1>9. w \in [DOMAIN m \cup signals -> Int]
  BY <1>1, <1>5, <1>6, <1>7
<1>10. w \in MetricsOf
  BY <1>8, <1>9 DEF MetricsOf
<1>11. Backed(e, w, feedback)
  <2> SUFFICES ASSUME NEW s \in DOMAIN w
               PROVE  \/ s \in DOMAIN Rows[e].after /\ w[s] = Rows[e].after[s]
                      \/ \E j \in feedback : /\ Items[j].experiment = e /\ Items[j].signal = s
                                             /\ Items[j].value = w[s]
    BY DEF Backed
  <2>1. CASE s \in signals
    BY <1>1, <1>6, <1>7, <2>1
  <2>2. CASE s \notin signals
    <3>1. s \in DOMAIN m /\ w[s] = m[s]
      BY <1>6, <2>2
    <3>2. QED
      BY <3>1 DEF Backed
  <2>3. QED
    BY <2>1, <2>2
<1>12. Shows(w, shown)
  <2> SUFFICES ASSUME NEW i \in shown
               PROVE  /\ Items[i].signal \in DOMAIN w
                      /\ w[Items[i].signal] = Items[Feedback!Latest(shown, Items[i].signal)].value
    BY DEF Shows
  <2>1. Items[i].signal \in signals
    BY DEF signals
  <2>2. QED
    BY <1>6, <2>1
<1>13. QED
  BY <1>10, <1>11, <1>12 DEF w, shown

\* Metrics neither win nor lose against themselves.
LEMMA SameIsTie ==
  ASSUME NEW m \in MetricsOf
  PROVE  Feedback!Winner(m, m) = "tie"
<1> DEFINE S == DOMAIN m \cap DOMAIN m
           Score(name) == Feedback!MetricScore(name, m[name], m[name])
           g == [name \in S |-> 0]
           IsScore(f) == f = [s \in SUBSET S |->
                               IF s = {} THEN 0
                               ELSE Score(CHOOSE x \in s : TRUE) + f[s \ {CHOOSE x \in s : TRUE}]]
           score == Feedback!MapThenSumSet(Score, S)
<1>1. score = (CHOOSE f : IsScore(f))[S]
  BY Zenon DEF Feedback!MapThenSumSet, Feedback!MapThenFoldSet
<1>2. \A name \in S : Score(name) = 0
  BY DEF Feedback!MetricScore
<1>3. ASSUME NEW f PROVE IsScore(f) <=> IsFold(f, g, S)
  <2> DEFINE a == [s \in SUBSET S |->
                    IF s = {} THEN 0
                    ELSE Score(CHOOSE x \in s : TRUE) + f[s \ {CHOOSE x \in s : TRUE}]]
             b == [s \in SUBSET S |->
                    IF s = {} THEN 0
                    ELSE g[CHOOSE x \in s : TRUE] + f[s \ {CHOOSE x \in s : TRUE}]]
  <2>1. ASSUME NEW s \in SUBSET S, s # {}
        PROVE  g[CHOOSE x \in s : TRUE] = Score(CHOOSE x \in s : TRUE)
    <3>1. (CHOOSE x \in s : TRUE) \in S
      BY <2>1
    <3>2. QED
      BY <1>2, <3>1
  <2> HIDE DEF g, Score
  <2>2. a = b
    BY <2>1
  <2>3. QED
    BY <2>2, Zenon DEF IsFold
<1>4. (CHOOSE f : IsScore(f)) = (CHOOSE f : IsFold(f, g, S))
  <2> HIDE DEF g, Score, S, IsScore
  <2>1. QED
    BY <1>3
<1>5. IsFiniteSet(S) /\ \A x \in S : g[x] = 0 /\ g[x] \in Nat
  BY DEF MetricsOf, FiniteNames
<1>6. (CHOOSE f : IsFold(f, g, S))[S] = 0
  <2> HIDE DEF g, S
  <2>1. QED
    BY <1>5, FoldIsSum, SumZero
<1>7. score = 0
  BY <1>1, <1>4, <1>6, Zenon
<1>8. Feedback!Winner(m, m) = IF score > 0 THEN "experiment" ELSE IF score < 0 THEN "baseline" ELSE "tie"
  BY DEF Feedback!Winner
<1>9. QED
  BY <1>7, <1>8

\* What a command has read stays good while others go on.
LEMMA ReadKept ==
  ASSUME FeedInv, NEW q \in Processes, stage'[q] = stage[q], held'[q] = held[q],
         feedback \subseteq feedback',
         \A c \in Feedback!Columns : <<q, c>> \in behind => <<q, c>> \in behind',
         \/ stage[q] \notin Reading
         \/ /\ experiment'[held[q].experiment] = experiment[held[q].experiment]
            /\ applied'[held[q].experiment] = applied[held[q].experiment]
         \/ \A c \in Feedback!Columns : <<q, c>> \in behind',
         \A i \in DOMAIN baselines :
           i \in DOMAIN baselines' /\ baselines'[i].metrics = baselines[i].metrics
  PROVE  ReadInv(q)'
<1> DEFINE h == held[q]
           e == h.experiment
<1>0. ReadInv(q) /\ h \in Read
  BY DEF FeedInv, FeedTypes
<1>1. stage[q] \in Reading =>
        e \in Experiments /\ h.row \in ExperimentRow /\ Backed(e, h.row.after, feedback')
  BY <1>0 DEF ReadInv, Backed
<1>2. stage[q] \in {"reread", "save"} =>
        /\ h.items \subseteq {i \in feedback' : Items[i].experiment = e}
        /\ Shows(h.row.after, h.items)
        /\ <<q, "after">> \notin behind' => applied'[e].items \subseteq h.items
  BY <1>0 DEF ReadInv, Reading, OfExperiment, Feedback!Columns
<1>3. /\ stage[q] = "link" /\ <<q, "after">> \notin behind' => h.row.after = experiment'[e].after
      /\ stage[q] = "save" /\ <<q, "linked">> \notin behind' => h.row.linked = experiment'[e].linked
  BY <1>0 DEF ReadInv, Reading, Feedback!Columns
<1>4. /\ stage[q] = "switch" => h.baseline \in DOMAIN baselines'
      /\ stage[q] # "over" => h.verdict = None
      /\ h.verdict \in {"experiment", "baseline"} =>
           /\ h.baseline \in DOMAIN baselines'
           /\ baselines'[h.baseline].metrics # h.row.after
  BY <1>0 DEF ReadInv
<1> HIDE DEF h, e
<1>5. stage'[q] = stage[q] /\ held'[q] = h /\ e = h.experiment
  BY DEF h, e
<1>6. QED
  BY <1>1, <1>2, <1>3, <1>4, <1>5 DEF ReadInv, Reading, Backed, Shows, OfExperiment

\* Rows of experiments stay good while feedback is added to them, as do those of baselines.
LEMMA RowsKept ==
  ASSUME FeedInv, UNCHANGED <<experiment, applied, torn>>, feedback \subseteq feedback'
  PROVE  \A e \in Experiments : RowInv(e)'
<1> TAKE e \in Experiments
<1>1. RowInv(e)
  BY DEF FeedInv
<1>2. Backed(e, experiment'[e].after, feedback')
  BY <1>1 DEF RowInv, Backed
<1>3. applied'[e].items \subseteq OfExperiment(e)'
  BY <1>1 DEF RowInv, OfExperiment
<1>4. /\ <<e, "after">> \notin torn' => Shows(experiment'[e].after, applied'[e].items)
      /\ <<e, "linked">> \notin torn' /\ applied'[e].linked => experiment'[e].linked
  BY <1>1 DEF RowInv
<1>5. QED
  BY <1>2, <1>3, <1>4 DEF RowInv, Backed, Shows

LEMMA BaselinesKept ==
  ASSUME FeedInv, UNCHANGED baselines, feedback \subseteq feedback'
  PROVE  /\ PromotedInv'
         /\ \A i \in DOMAIN baselines :
              i \in DOMAIN baselines' /\ baselines'[i].metrics = baselines[i].metrics
BY DEF FeedInv, PromotedInv, Backed, Feedback!Active

LEMMA GateKept ==
  ASSUME GateInv, UNCHANGED <<adding, quality, feedback>>
  PROVE  GateInv'
<1> SUFFICES ASSUME NEW i \in DOMAIN Items
             PROVE  /\ adding'[i] = "add" => Passed(i)'
                    /\ i \in feedback' => adding'[i] = "over" /\ Passed(i)' /\ Items[i].kind = "number"
  BY DEF GateInv
<1>1. Passed(i)' <=> Passed(i)
  BY DEF Passed
<1>2. QED
  BY <1>1 DEF GateInv

LEMMA FeedSaveQuality ==
  ASSUME FeedInv, NEW i \in DOMAIN Items, Feedback!SaveQuality(i)
  PROVE  FeedInv'
<1>1. /\ adding[i] = "idle"
      /\ quality' = [quality EXCEPT ![i] = Feedback!Validate(Items[i])]
      /\ adding' = [adding EXCEPT ![i] = IF quality'[i] = "reject" THEN "over" ELSE "add"]
      /\ UNCHANGED <<stage, held, feedback, experiment, applied, behind, torn, baselines, threshold>>
  BY DEF Feedback!SaveQuality, Feedback!rowVars
<1>2. /\ Feedback!Validate(Items[i]) \in {"pass", "warn", "reject"}
      /\ Feedback!Validate(Items[i]) # "reject" => Items[i].signal # ""
  BY Zenon DEF Feedback!Validate
<1>3. FeedTypes'
  BY <1>1, <1>2, Zenon DEF FeedInv, FeedTypes
<1>4. GateInv'
  <2> SUFFICES ASSUME NEW j \in DOMAIN Items
               PROVE  /\ adding'[j] = "add" => Passed(j)'
                      /\ j \in feedback' =>
                           adding'[j] = "over" /\ Passed(j)' /\ Items[j].kind = "number"
    BY DEF GateInv
  <2>0. /\ adding[j] = "add" => Passed(j)
        /\ j \in feedback => adding[j] = "over" /\ Passed(j) /\ Items[j].kind = "number"
        /\ adding \in [DOMAIN Items -> {"idle", "add", "over"}]
        /\ quality \in [DOMAIN Items -> {"none", "pass", "warn", "reject"}]
    BY DEF FeedInv, FeedTypes, GateInv
  <2>1. CASE j = i
    BY <1>1, <1>2, <2>0, <2>1, Zenon DEF Passed
  <2>2. CASE j # i
    <3>1. adding'[j] = adding[j] /\ quality'[j] = quality[j]
      BY <1>1, <2>0, <2>2
    <3>2. QED
      BY <1>1, <2>0, <3>1, Zenon DEF Passed
  <2>3. QED
    BY <2>1, <2>2
<1>5. /\ \A e \in Experiments : RowInv(e)'
      /\ PromotedInv'
      /\ \A q \in Processes : ReadInv(q)'
  BY <1>1, RowsKept, BaselinesKept, ReadKept
<1>6. QED
  BY <1>3, <1>4, <1>5 DEF FeedInv

LEMMA FeedAdd ==
  ASSUME FeedInv, NEW i \in DOMAIN Items, Feedback!AddFeedback(i)
  PROVE  FeedInv'
<1>1. /\ adding[i] = "add"
      /\ adding' = [adding EXCEPT ![i] = "over"]
      /\ feedback' = IF Items[i].kind = "number" THEN feedback \cup {i} ELSE feedback
      /\ UNCHANGED <<stage, held, quality, experiment, applied, behind, torn, baselines, threshold>>
  BY DEF Feedback!AddFeedback, Feedback!rowVars
<1>2. FeedTypes'
  BY <1>1 DEF FeedInv, FeedTypes
<1>3. GateInv'
  <2> SUFFICES ASSUME NEW j \in DOMAIN Items
               PROVE  /\ adding'[j] = "add" => Passed(j)'
                      /\ j \in feedback' =>
                           adding'[j] = "over" /\ Passed(j)' /\ Items[j].kind = "number"
    BY DEF GateInv
  <2>1. /\ adding[j] = "add" => Passed(j)
        /\ j \in feedback => adding[j] = "over" /\ Passed(j) /\ Items[j].kind = "number"
        /\ adding \in [DOMAIN Items -> {"idle", "add", "over"}]
    BY DEF FeedInv, FeedTypes, GateInv
  <2>2. Passed(j)' <=> Passed(j)
    BY <1>1 DEF Passed
  <2>3. adding'[j] = IF j = i THEN "over" ELSE adding[j]
    BY <1>1, <2>1
  <2>4. j \in feedback' => j \in feedback \/ (j = i /\ Items[i].kind = "number")
    BY <1>1
  <2>5. QED
    BY <1>1, <2>1, <2>2, <2>3, <2>4
<1>4. feedback \subseteq feedback'
  BY <1>1
<1>5. /\ \A e \in Experiments : RowInv(e)'
      /\ PromotedInv'
      /\ \A q \in Processes : ReadInv(q)'
  BY <1>1, <1>4, RowsKept, BaselinesKept, ReadKept
<1>6. QED
  BY <1>2, <1>3, <1>5 DEF FeedInv

\* A command that reads, whatever else it keeps: the commands beside it stay good.
LEMMA FeedAlone ==
  ASSUME FeedInv, NEW q \in Processes,
         \A p \in Processes \ {q} : stage'[p] = stage[p] /\ held'[p] = held[p],
         behind' \in SUBSET behind, \A p \in Processes \ {q}, c \in Feedback!Columns :
           <<p, c>> \in behind => <<p, c>> \in behind',
         UNCHANGED <<adding, quality, feedback, experiment, applied, torn, baselines, threshold>>,
         stage' \in [Processes -> FeedStages], held' \in [Processes -> Read], ReadInv(q)'
  PROVE  FeedInv'
<1>1. FeedTypes'
  BY DEF FeedInv, FeedTypes
<1>2. GateInv'
  BY GateKept DEF FeedInv
<1>3. (\A e \in Experiments : RowInv(e)') /\ PromotedInv'
  BY RowsKept, BaselinesKept
<1>4. ASSUME NEW p \in Processes, p # q PROVE ReadInv(p)'
  BY <1>4, BaselinesKept, ReadKept
<1>5. QED
  BY <1>1, <1>2, <1>3, <1>4 DEF FeedInv

LEMMA FeedReads ==
  ASSUME FeedInv, NEW q \in Processes, NEW e \in Experiments,
         NEW to \in {"list", "link", "create", "active", "threshold"},
         Feedback!GoesFrom(q, "idle", to, e), UNCHANGED Feedback!rowVars, Feedback!Undisturbed
  PROVE  FeedInv'
<1>1. /\ stage[q] = "idle" /\ stage' = [stage EXCEPT ![q] = to]
      /\ held' = [held EXCEPT ![q] = [@ EXCEPT !.experiment = e, !.row = experiment[e]]]
      /\ UNCHANGED <<adding, quality, feedback, experiment, applied, behind, torn, baselines, threshold>>
  BY DEF Feedback!GoesFrom, Feedback!Goes, Feedback!rowVars, Feedback!Undisturbed,
         Feedback!feedbackVars
<1>2. /\ stage \in [Processes -> FeedStages] /\ held \in [Processes -> Read]
      /\ experiment[e] \in ExperimentRow /\ RowInv(e) /\ ReadInv(q)
  BY DEF FeedInv, FeedTypes
<1>3. /\ stage' \in [Processes -> FeedStages] /\ stage'[q] = to
      /\ held'[q] = [held[q] EXCEPT !.experiment = e, !.row = experiment[e]]
      /\ \A p \in Processes \ {q} : stage'[p] = stage[p] /\ held'[p] = held[p]
  BY <1>1, <1>2 DEF FeedStages
<1>4. /\ held'[q] \in Read /\ held'[q].experiment = e /\ held'[q].row = experiment[e]
      /\ held'[q].verdict = held[q].verdict
  <2> DEFINE h == held[q]
             r == experiment[e]
  <2>1. h \in Read /\ r \in ExperimentRow /\ held'[q] = [h EXCEPT !.experiment = e, !.row = r]
    BY <1>2, <1>3
  <2> HIDE DEF h, r
  <2>2. /\ held'[q] \in Read /\ held'[q].experiment = e /\ held'[q].row = r
        /\ held'[q].verdict = h.verdict
    BY <2>1, Zenon DEF Read
  <2>3. QED
    BY <2>2 DEF h, r
<1>5. held' \in [Processes -> Read]
  BY <1>1, <1>2, <1>3, <1>4
<1>6. ReadInv(q)'
  <2>1. held[q].verdict = None
    BY <1>1, <1>2 DEF ReadInv
  <2>2. Backed(e, experiment[e].after, feedback)
    BY <1>2 DEF RowInv
  <2>3. QED
    BY <1>1, <1>2, <1>3, <1>4, <2>1, <2>2, FeedbackAssumption DEF ReadInv, Reading, Backed
<1>7. QED
  BY <1>1, <1>3, <1>5, <1>6, FeedAlone

LEMMA FeedList ==
  ASSUME FeedInv, NEW q \in Processes, Feedback!ListFeedback(q)
  PROVE  FeedInv'
<1> DEFINE h == held[q]
           e == h.experiment
           w == Feedback!WithFeedback(h.row.after, OfExperiment(e))
           hh == [h EXCEPT !.items = OfExperiment(e), !.row = [@ EXCEPT !.after = w]]
<1>1. /\ stage[q] = "list" /\ stage' = [stage EXCEPT ![q] = "reread"]
      /\ held' = [held EXCEPT ![q] = hh]
      /\ behind' = behind \ {<<q, "after">>}
      /\ UNCHANGED <<adding, quality, feedback, experiment, applied, torn, baselines, threshold>>
  BY Zenon DEF Feedback!ListFeedback, Feedback!Goes, Feedback!Undisturbed, Feedback!feedbackVars,
         OfExperiment
<1>2. /\ stage \in [Processes -> FeedStages] /\ held \in [Processes -> Read] /\ h \in Read
      /\ e \in Experiments /\ h.row \in ExperimentRow /\ Backed(e, h.row.after, feedback)
      /\ h.verdict = None
  <2>1. ReadInv(q) /\ stage \in [Processes -> FeedStages] /\ held \in [Processes -> Read]
    BY DEF FeedInv, FeedTypes
  <2>2. QED
    BY <1>1, <2>1 DEF ReadInv, Reading
<1>3. h.row.after \in MetricsOf
  BY <1>2 DEF ExperimentRow
<1>4. w \in MetricsOf /\ Backed(e, w, feedback) /\ Shows(w, OfExperiment(e))
  BY <1>2, <1>3, WithFeedbackIs
<1>5. OfExperiment(e) \in SUBSET DOMAIN Items /\ applied[e].items \subseteq OfExperiment(e)
  <2>1. feedback \subseteq DOMAIN Items /\ RowInv(e)
    BY <1>2 DEF FeedInv, FeedTypes
  <2>2. QED
    BY <2>1 DEF RowInv, OfExperiment
<1> HIDE DEF h, w
<1>6. [h.row EXCEPT !.after = w] \in ExperimentRow /\ [h.row EXCEPT !.after = w].after = w
  BY <1>2, <1>4 DEF ExperimentRow
<1>7. /\ hh \in Read /\ hh.items = OfExperiment(e) /\ hh.experiment = e /\ hh.verdict = None
      /\ hh.row \in ExperimentRow /\ hh.row.after = w
  BY <1>2, <1>5, <1>6, Zenon DEF Read
<1> HIDE DEF hh
<1>8. /\ stage' \in [Processes -> FeedStages] /\ stage'[q] = "reread"
      /\ held' \in [Processes -> Read] /\ held'[q] = hh
      /\ \A p \in Processes \ {q} : stage'[p] = stage[p] /\ held'[p] = held[p]
  BY <1>1, <1>2, <1>7 DEF FeedStages
<1>9. ReadInv(q)'
  <2>1. /\ held'[q].experiment \in Experiments /\ held'[q].row \in ExperimentRow
        /\ Backed(held'[q].experiment, held'[q].row.after, feedback')
    BY <1>1, <1>2, <1>4, <1>7, <1>8
  <2>2. /\ held'[q].items \subseteq {i \in feedback' : Items[i].experiment = held'[q].experiment}
        /\ Shows(held'[q].row.after, held'[q].items)
        /\ applied'[held'[q].experiment].items \subseteq held'[q].items
    BY <1>1, <1>4, <1>5, <1>7, <1>8, Zenon DEF OfExperiment
  <2>3. held'[q].verdict = None /\ stage'[q] = "reread"
    BY <1>7, <1>8
  <2>4. QED
    BY <2>1, <2>2, <2>3, FeedbackAssumption DEF ReadInv, Reading, Backed, Shows, OfExperiment
<1>10. QED
  BY <1>1, <1>8, <1>9, FeedAlone

LEMMA FeedReread ==
  ASSUME FeedInv, NEW q \in Processes, Feedback!RereadRow(q)
  PROVE  FeedInv'
<1> DEFINE h == held[q]
           e == h.experiment
           linked == experiment[e].linked
           hh == [h EXCEPT !.row = [@ EXCEPT !.linked = linked]]
<1>1. /\ stage[q] = "reread" /\ stage' = [stage EXCEPT ![q] = "save"]
      /\ held' = [held EXCEPT ![q] = hh]
      /\ behind' = behind \ {<<q, "linked">>}
      /\ UNCHANGED <<adding, quality, feedback, experiment, applied, torn, baselines, threshold>>
  BY DEF Feedback!RereadRow, Feedback!Goes, Feedback!Undisturbed, Feedback!feedbackVars
<1>2. /\ stage \in [Processes -> FeedStages] /\ held \in [Processes -> Read] /\ h \in Read
      /\ e \in Experiments /\ h.row \in ExperimentRow /\ Backed(e, h.row.after, feedback)
      /\ h.items \subseteq OfExperiment(e) /\ Shows(h.row.after, h.items)
      /\ <<q, "after">> \notin behind => applied[e].items \subseteq h.items
      /\ h.verdict = None /\ experiment[e] \in ExperimentRow
  <2>1. /\ ReadInv(q) /\ stage \in [Processes -> FeedStages] /\ held \in [Processes -> Read]
        /\ experiment \in [Experiments -> ExperimentRow]
    BY DEF FeedInv, FeedTypes
  <2>2. QED
    BY <1>1, <2>1 DEF ReadInv, Reading
<1> HIDE DEF h
<1>3. /\ [h.row EXCEPT !.linked = linked] \in ExperimentRow
      /\ [h.row EXCEPT !.linked = linked].linked = linked
      /\ [h.row EXCEPT !.linked = linked].after = h.row.after
  BY <1>2 DEF ExperimentRow
<1>4. /\ hh \in Read /\ hh.items = h.items /\ hh.experiment = e /\ hh.verdict = None
      /\ hh.row \in ExperimentRow /\ hh.row.after = h.row.after /\ hh.row.linked = linked
  BY <1>2, <1>3, Zenon DEF Read
<1> HIDE DEF hh
<1>5. /\ stage' \in [Processes -> FeedStages] /\ stage'[q] = "save"
      /\ held' \in [Processes -> Read] /\ held'[q] = hh
      /\ \A p \in Processes \ {q} : stage'[p] = stage[p] /\ held'[p] = held[p]
  BY <1>1, <1>2, <1>4 DEF FeedStages
<1>6. ReadInv(q)'
  <2>1. /\ held'[q].experiment \in Experiments /\ held'[q].row \in ExperimentRow
        /\ Backed(held'[q].experiment, held'[q].row.after, feedback')
        /\ held'[q].row.linked = experiment'[held'[q].experiment].linked
    BY <1>1, <1>2, <1>4, <1>5
  <2>2. /\ held'[q].items \subseteq {i \in feedback' : Items[i].experiment = held'[q].experiment}
        /\ Shows(held'[q].row.after, held'[q].items)
        /\ <<q, "after">> \notin behind' => applied'[held'[q].experiment].items \subseteq held'[q].items
    BY <1>1, <1>2, <1>4, <1>5 DEF OfExperiment
  <2>3. held'[q].verdict = None /\ stage'[q] = "save"
    BY <1>4, <1>5
  <2>4. QED
    BY <2>1, <2>2, <2>3, FeedbackAssumption DEF ReadInv, Reading, Backed, Shows, OfExperiment
<1>7. QED
  BY <1>1, <1>5, <1>6, FeedAlone

\* A row is saved: who has read it before is behind, and the row is torn in the columns
\* that its writer was behind in.
LEMMA FeedSaves ==
  ASSUME FeedInv, NEW q \in Processes, NEW e \in Experiments, NEW row \in ExperimentRow,
         NEW marks \in [items : SUBSET DOMAIN Items, linked : BOOLEAN],
         held[q].experiment = e, stage[q] # "over",
         stage' = [stage EXCEPT ![q] = "over"], Feedback!SavesRow(q, row),
         applied' = [applied EXCEPT ![e] = marks], UNCHANGED held, Feedback!Undisturbed,
         Backed(e, row.after, feedback), marks.items \subseteq OfExperiment(e),
         <<q, "after">> \notin behind /\ <<e, "after">> \notin torn => Shows(row.after, marks.items),
         <<q, "linked">> \notin behind /\ <<e, "linked">> \notin torn /\ marks.linked => row.linked
  PROVE  FeedInv'
<1> DEFINE others == {p \in Processes \ {q} : held[p].experiment = e /\ stage[p] # "over"}
<1>1. /\ experiment' = [experiment EXCEPT ![e] = row]
      /\ behind' = behind \cup (others \X Feedback!Columns)
      /\ torn' = torn \cup {<<e, c>> : c \in {d \in Feedback!Columns : <<q, d>> \in behind}}
      /\ UNCHANGED <<held, adding, quality, feedback, baselines, threshold>>
  BY DEF Feedback!SavesRow, Feedback!Undisturbed, Feedback!feedbackVars
<1>2. FeedTypes'
  <2>1. FeedTypes
    BY DEF FeedInv
  <2>2. behind' \subseteq Processes \X Feedback!Columns /\ torn' \subseteq Experiments \X Feedback!Columns
    <3>1. behind \subseteq Processes \X Feedback!Columns /\ torn \subseteq Experiments \X Feedback!Columns
      BY <2>1 DEF FeedTypes
    <3>2. others \X Feedback!Columns \subseteq Processes \X Feedback!Columns
      OBVIOUS
    <3>3. {<<e, c>> : c \in {d \in Feedback!Columns : <<q, d>> \in behind}}
            \subseteq Experiments \X Feedback!Columns
      <4>1. \A c \in Feedback!Columns : <<e, c>> \in Experiments \X Feedback!Columns
        OBVIOUS
      <4>2. QED
        BY <4>1, Zenon
    <3> HIDE DEF others
    <3>4. QED
      BY <1>1, <3>1, <3>2, <3>3, Zenon
  <2>3. /\ experiment' \in [Experiments -> ExperimentRow]
        /\ applied' \in [Experiments -> [items : SUBSET DOMAIN Items, linked : BOOLEAN]]
        /\ stage' \in [Processes -> FeedStages]
    BY <1>1, <2>1 DEF FeedTypes, FeedStages
  <2>4. QED
    <3>1. /\ stage' \in [Processes -> FeedStages] /\ held' \in [Processes -> Read]
          /\ adding' \in [DOMAIN Items -> {"idle", "add", "over"}]
          /\ quality' \in [DOMAIN Items -> {"none", "pass", "warn", "reject"}]
          /\ feedback' \subseteq DOMAIN Items
          /\ baselines' \in Seq(BaselineRow)
          /\ threshold' \in RiskThresholds \cup {600}
      BY <1>1, <2>1, <2>3 DEF FeedTypes
    <3>2. QED
      BY <2>2, <2>3, <3>1 DEF FeedTypes
<1>3. GateInv' /\ PromotedInv'
  <2>1. GateInv'
    BY <1>1, GateKept DEF FeedInv
  <2>2. QED
    BY <1>1, <2>1, BaselinesKept
<1>4. ASSUME NEW f \in Experiments PROVE RowInv(f)'
  <2>0. /\ RowInv(f) /\ experiment \in [Experiments -> ExperimentRow]
        /\ applied \in [Experiments -> [items : SUBSET DOMAIN Items, linked : BOOLEAN]]
    BY DEF FeedInv, FeedTypes
  <2>1. CASE f # e
    <3>1. experiment'[f] = experiment[f] /\ applied'[f] = applied[f]
      BY <1>1, <2>0, <2>1
    <3>2. \A c \in Feedback!Columns : <<f, c>> \in torn' <=> <<f, c>> \in torn
      BY <1>1, <2>1, Zenon
    <3>3. QED
      BY <1>1, <2>0, <3>1, <3>2 DEF RowInv, Backed, Shows, OfExperiment, Feedback!Columns
  <2>2. CASE f = e
    <3>1. experiment'[f] = row /\ applied'[f] = marks
      BY <1>1, <2>0, <2>2
    <3>2. \A c \in Feedback!Columns : <<e, c>> \notin torn' => <<e, c>> \notin torn /\ <<q, c>> \notin behind
      BY <1>1, Zenon
    <3>3. /\ Backed(e, experiment'[e].after, feedback')
          /\ applied'[e].items \subseteq {i \in feedback' : Items[i].experiment = e}
          /\ <<e, "after">> \notin torn' => Shows(experiment'[e].after, applied'[e].items)
          /\ <<e, "linked">> \notin torn' /\ applied'[e].linked => experiment'[e].linked
      BY <1>1, <2>2, <3>1, <3>2 DEF OfExperiment, Feedback!Columns
    <3>4. QED
      BY <2>2, <3>3 DEF RowInv, Backed, Shows, OfExperiment
  <2>3. QED
    BY <2>1, <2>2
<1>5. ASSUME NEW p \in Processes, p # q PROVE ReadInv(p)'
  <2>0. /\ stage \in [Processes -> FeedStages] /\ experiment \in [Experiments -> ExperimentRow]
        /\ applied \in [Experiments -> [items : SUBSET DOMAIN Items, linked : BOOLEAN]]
    BY DEF FeedInv, FeedTypes
  <2>1. stage'[p] = stage[p] /\ held'[p] = held[p]
    BY <1>1, <1>5, <2>0
  <2>2. \A c \in Feedback!Columns : <<p, c>> \in behind => <<p, c>> \in behind'
    BY <1>1
  <2>3. CASE stage[p] = "over" \/ held[p].experiment = e
    <3>1. \/ stage[p] \notin Reading
          \/ \A c \in Feedback!Columns : <<p, c>> \in behind'
      BY <1>1, <1>5, <2>3 DEF Reading
    <3>2. QED
      BY <1>1, <2>1, <2>2, <3>1, BaselinesKept, ReadKept
  <2>4. CASE held[p].experiment # e
    <3>1. \/ stage[p] \notin Reading
          \/ /\ experiment'[held[p].experiment] = experiment[held[p].experiment]
             /\ applied'[held[p].experiment] = applied[held[p].experiment]
      <4>1. stage[p] \in Reading => held[p].experiment \in Experiments
        BY Zenon DEF FeedInv, ReadInv
      <4>2. QED
        BY <1>1, <2>0, <2>4, <4>1
    <3>2. QED
      BY <1>1, <2>1, <2>2, <3>1, BaselinesKept, ReadKept
  <2>5. QED
    BY <2>3, <2>4
<1>6. ReadInv(q)'
  <2>1. stage'[q] = "over" /\ held'[q] = held[q]
    BY <1>1 DEF FeedInv, FeedTypes
  <2>2. held[q].verdict = None
    BY DEF FeedInv, ReadInv
  <2>3. QED
    BY <2>1, <2>2, FeedbackAssumption DEF ReadInv, Reading
<1>7. QED
  BY <1>2, <1>3, <1>4, <1>5, <1>6 DEF FeedInv

LEMMA FeedSaveApplied ==
  ASSUME FeedInv, NEW q \in Processes, Feedback!SaveApplied(q)
  PROVE  FeedInv'
<1> DEFINE h == held[q]
           e == h.experiment
           marks == [applied[e] EXCEPT !.items = @ \cup h.items]
<1>1. /\ stage[q] = "save" /\ stage' = [stage EXCEPT ![q] = "over"]
      /\ Feedback!SavesRow(q, h.row) /\ applied' = [applied EXCEPT ![e] = marks]
      /\ UNCHANGED held /\ Feedback!Undisturbed
  BY DEF Feedback!SaveApplied, Feedback!Goes
<1>2. /\ h \in Read /\ e \in Experiments /\ h.row \in ExperimentRow /\ Backed(e, h.row.after, feedback)
      /\ h.items \subseteq OfExperiment(e) /\ Shows(h.row.after, h.items)
      /\ <<q, "after">> \notin behind => applied[e].items \subseteq h.items
      /\ <<q, "linked">> \notin behind => h.row.linked = experiment[e].linked
  BY <1>1 DEF FeedInv, FeedTypes, ReadInv, Reading
<1>3. /\ applied[e] \in [items : SUBSET DOMAIN Items, linked : BOOLEAN] /\ RowInv(e)
      /\ h.items \subseteq DOMAIN Items
  BY <1>2 DEF FeedInv, FeedTypes, Read
<1> HIDE DEF h
<1>4. /\ marks \in [items : SUBSET DOMAIN Items, linked : BOOLEAN]
      /\ marks.items = applied[e].items \cup h.items /\ marks.linked = applied[e].linked
  BY <1>3
<1> HIDE DEF marks
<1>5. marks.items \subseteq OfExperiment(e)
  BY <1>2, <1>3, <1>4 DEF RowInv
<1>6. <<q, "after">> \notin behind => Shows(h.row.after, marks.items)
  <2> SUFFICES ASSUME <<q, "after">> \notin behind PROVE marks.items = h.items
    BY <1>2
  <2>1. QED
    BY <1>2, <1>4
<1>7. <<q, "linked">> \notin behind /\ <<e, "linked">> \notin torn /\ marks.linked => h.row.linked
  BY <1>2, <1>3, <1>4 DEF RowInv
<1>8. QED
  BY <1>1, <1>2, <1>4, <1>5, <1>6, <1>7, FeedSaves, Zenon DEF h

LEMMA FeedSaveLink ==
  ASSUME FeedInv, NEW q \in Processes, Feedback!SaveLink(q)
  PROVE  FeedInv'
<1> DEFINE h == held[q]
           e == h.experiment
           row == [h.row EXCEPT !.linked = TRUE]
           marks == [applied[e] EXCEPT !.linked = TRUE]
<1>1. /\ stage[q] = "link" /\ stage' = [stage EXCEPT ![q] = "over"]
      /\ Feedback!SavesRow(q, row) /\ applied' = [applied EXCEPT ![e] = marks]
      /\ UNCHANGED held /\ Feedback!Undisturbed
  BY DEF Feedback!SaveLink, Feedback!Goes
<1>2. /\ h \in Read /\ e \in Experiments /\ h.row \in ExperimentRow /\ Backed(e, h.row.after, feedback)
      /\ <<q, "after">> \notin behind => h.row.after = experiment[e].after
  <2>1. ReadInv(q) /\ held \in [Processes -> Read]
    BY DEF FeedInv, FeedTypes
  <2>2. QED
    BY <1>1, <2>1 DEF ReadInv, Reading
<1>3. applied[e] \in [items : SUBSET DOMAIN Items, linked : BOOLEAN] /\ RowInv(e)
  BY <1>2 DEF FeedInv, FeedTypes
<1> HIDE DEF h
<1>4. /\ marks \in [items : SUBSET DOMAIN Items, linked : BOOLEAN]
      /\ marks.items = applied[e].items
      /\ row \in ExperimentRow /\ row.after = h.row.after /\ row.linked
  BY <1>2, <1>3, Zenon DEF ExperimentRow
<1> HIDE DEF marks, row
<1>5. marks.items \subseteq OfExperiment(e)
  BY <1>3, <1>4 DEF RowInv
<1>6. <<q, "after">> \notin behind /\ <<e, "after">> \notin torn => Shows(row.after, marks.items)
  BY <1>2, <1>3, <1>4 DEF RowInv
<1>7. QED
  BY <1>1, <1>2, <1>4, <1>5, <1>6, FeedSaves, Zenon DEF h

\* A baseline that others made way for is the one of its line that is active.
LEMMA ActiveSwitched ==
  ASSUME FeedInv, NEW l, NEW k \in DOMAIN baselines', baselines'[k].line = l, baselines'[k].active,
         DOMAIN baselines \subseteq DOMAIN baselines',
         \A i \in DOMAIN baselines' : i # k =>
           /\ i \in DOMAIN baselines
           /\ baselines'[i].line = baselines[i].line
           /\ baselines'[i].metrics = baselines[i].metrics
           /\ baselines'[i].experiment = baselines[i].experiment
           /\ baselines'[i].active = (baselines[i].active /\ baselines[i].line # l),
         k \in DOMAIN baselines => baselines[k].line = l,
         baselines'[k].experiment # None =>
           /\ baselines'[k].experiment \in Experiments
           /\ Backed(baselines'[k].experiment, baselines'[k].metrics, feedback),
         UNCHANGED feedback
  PROVE  PromotedInv'
<1>1. ASSUME NEW i \in DOMAIN baselines'
      PROVE  \E j \in DOMAIN baselines' :
               {n \in DOMAIN baselines' : baselines'[n].line = baselines'[i].line /\ baselines'[n].active} = {j}
  <2>1. CASE baselines'[i].line = l
    <3>1. \A n \in DOMAIN baselines' :
            baselines'[n].line = baselines'[i].line /\ baselines'[n].active <=> n = k
      BY <2>1, Zenon
    <3>2. QED
      BY <3>1
  <2>2. CASE baselines'[i].line # l
    <3>1. i # k /\ i \in DOMAIN baselines /\ baselines'[i].line = baselines[i].line
      BY <2>2
    <3>2. PICK j \in DOMAIN baselines : Feedback!Active(baselines[i].line) = {j}
      BY <3>1, Zenon DEF FeedInv, PromotedInv
    <3>3. \A n \in DOMAIN baselines :
            baselines[n].line = baselines[i].line /\ baselines[n].active <=> n = j
      BY <3>2 DEF Feedback!Active
    <3>4. \A n \in DOMAIN baselines' :
            baselines'[n].line = baselines'[i].line /\ baselines'[n].active <=> n = j
      BY <2>2, <3>1, <3>3, Zenon
    <3>5. j \in DOMAIN baselines'
      OBVIOUS
    <3>6. QED
      BY <3>4, <3>5
  <2>3. QED
    BY <2>1, <2>2
<1>2. ASSUME NEW i \in DOMAIN baselines', baselines'[i].experiment # None
      PROVE  /\ baselines'[i].experiment \in Experiments
             /\ Backed(baselines'[i].experiment, baselines'[i].metrics, feedback')
  <2>1. CASE i = k
    BY <2>1, <1>2
  <2>2. CASE i # k
    BY <2>2, <1>2 DEF FeedInv, PromotedInv
  <2>3. QED
    BY <2>1, <2>2
<1>3. QED
  BY <1>1, <1>2 DEF PromotedInv, Feedback!Active, Backed

\* Of a baseline that is added.
LEMMA Created ==
  ASSUME FeedInv, NEW l \in Feedback!Lines, NEW m \in MetricsOf, NEW e \in Experiments \cup {None},
         e # None => Backed(e, m, feedback), Feedback!Creates(l, m, e), UNCHANGED feedback
  PROVE  /\ baselines' \in Seq(BaselineRow) /\ PromotedInv'
         /\ \A i \in DOMAIN baselines :
              i \in DOMAIN baselines' /\ baselines'[i].metrics = baselines[i].metrics
<1> DEFINE old == Feedback!Deactivated(l)
           row == [line |-> l, metrics |-> m, experiment |-> e, active |-> TRUE]
           n == Len(baselines)
<1>1. baselines \in Seq(BaselineRow) /\ n \in Nat /\ DOMAIN baselines = 1 .. n
  BY DEF FeedInv, FeedTypes
<1>2. \A i \in 1 .. n : baselines[i] \in BaselineRow
  BY <1>1
<1>3. old = [i \in 1 .. n |->
               IF baselines[i].line = l THEN [baselines[i] EXCEPT !.active = FALSE] ELSE baselines[i]]
  BY <1>1 DEF Feedback!Deactivated
<1>4. \A i \in 1 .. n : /\ old[i] \in BaselineRow /\ old[i].line = baselines[i].line
                        /\ old[i].metrics = baselines[i].metrics
                        /\ old[i].experiment = baselines[i].experiment
                        /\ old[i].active = (baselines[i].active /\ baselines[i].line # l)
  <2> TAKE i \in 1 .. n
  <2>1. baselines[i] \in BaselineRow
    BY <1>2
  <2>2. CASE baselines[i].line = l
    <3>1. old[i] = [baselines[i] EXCEPT !.active = FALSE]
      BY <1>3, <2>2
    <3> HIDE DEF old
    <3>2. QED
      BY <2>1, <2>2, <3>1, Zenon DEF BaselineRow
  <2>3. CASE baselines[i].line # l
    <3>1. old[i] = baselines[i]
      BY <1>3, <2>3
    <3> HIDE DEF old
    <3>2. QED
      BY <2>1, <2>3, <3>1 DEF BaselineRow
  <2>4. QED
    BY <2>2, <2>3
<1> HIDE DEF old
<1>5. old \in Seq(BaselineRow) /\ Len(old) = n
  <2>1. old \in [1 .. n -> BaselineRow]
    BY <1>3, <1>4, Zenon
  <2>2. QED
    BY <1>1, <1>3, <2>1
<1>6. row \in BaselineRow
  BY DEF BaselineRow
<1>7. baselines' = Append(old, row)
  BY DEF Feedback!Creates, old
<1> HIDE DEF row, n
<1>8. /\ baselines' \in Seq(BaselineRow) /\ DOMAIN baselines' = 1 .. n + 1
      /\ baselines'[n + 1] = row /\ \A i \in 1 .. n : baselines'[i] = old[i]
  <2>1. /\ Append(old, row) \in Seq(BaselineRow) /\ Len(Append(old, row)) = n + 1
        /\ \A i \in 1 .. n : Append(old, row)[i] = old[i]
        /\ Append(old, row)[n + 1] = row
    BY <1>5, <1>6, AppendProperties
  <2>2. QED
    BY <1>1, <1>7, <2>1
<1>9. /\ \A i \in DOMAIN baselines : i \in DOMAIN baselines' /\ baselines'[i] = old[i]
      /\ n + 1 \in DOMAIN baselines' /\ n + 1 \notin DOMAIN baselines
      /\ \A i \in DOMAIN baselines' : i # n + 1 => i \in DOMAIN baselines
  BY <1>1, <1>8
<1>10. row.line = l /\ row.metrics = m /\ row.experiment = e /\ row.active
  BY DEF row
<1>11. PromotedInv'
  <2>1. ASSUME NEW i \in DOMAIN baselines', i # n + 1
        PROVE  /\ i \in DOMAIN baselines
               /\ baselines'[i].line = baselines[i].line
               /\ baselines'[i].metrics = baselines[i].metrics
               /\ baselines'[i].experiment = baselines[i].experiment
               /\ baselines'[i].active = (baselines[i].active /\ baselines[i].line # l)
    BY <1>1, <1>4, <1>9, <2>1
  <2>2. /\ baselines'[n + 1].line = l /\ baselines'[n + 1].active
        /\ baselines'[n + 1].experiment # None =>
             /\ baselines'[n + 1].experiment \in Experiments
             /\ Backed(baselines'[n + 1].experiment, baselines'[n + 1].metrics, feedback)
    BY <1>8, <1>10
  <2>3. DOMAIN baselines \subseteq DOMAIN baselines' /\ n + 1 \in DOMAIN baselines'
        /\ (n + 1 \in DOMAIN baselines => baselines[n + 1].line = l)
    BY <1>9
  <2>4. QED
    BY <2>1, <2>2, <2>3, ActiveSwitched
<1>12. QED
  BY <1>1, <1>4, <1>8, <1>9, <1>11

LEMMA FeedCreate ==
  ASSUME FeedInv, NEW l \in Feedback!Lines, Feedback!CreateBaseline(l)
  PROVE  FeedInv'
<1>1. /\ Feedback!Creates(l, Given, None)
      /\ UNCHANGED <<stage, held, adding, quality, feedback, experiment, applied, behind, torn,
                     threshold>>
  BY DEF Feedback!CreateBaseline, Feedback!feedbackVars, Feedback!rowVars
<1>2. Given \in MetricsOf
  <2>1. /\ DOMAIN Given \in FiniteNames
        /\ Given \in [DOMAIN Given -> Int]
    BY FeedbackAssumption DEF FiniteNames, MetricNames
  <2>2. QED
    BY <2>1 DEF MetricsOf
<1>3. /\ baselines' \in Seq(BaselineRow) /\ PromotedInv'
      /\ \A i \in DOMAIN baselines :
           i \in DOMAIN baselines' /\ baselines'[i].metrics = baselines[i].metrics
  BY <1>1, <1>2, Created
<1>4. FeedTypes'
  BY <1>1, <1>3 DEF FeedInv, FeedTypes
<1>5. GateInv'
  BY <1>1, GateKept DEF FeedInv
<1>6. (\A e \in Experiments : RowInv(e)') /\ \A q \in Processes : ReadInv(q)'
  BY <1>1, <1>3, RowsKept, ReadKept
<1>7. QED
  BY <1>3, <1>4, <1>5, <1>6 DEF FeedInv

\* A command that ends, having changed baselines or nothing.
LEMMA FeedEnds ==
  ASSUME FeedInv, NEW q \in Processes, stage' = [stage EXCEPT ![q] = "over"],
         UNCHANGED <<held, adding, quality, feedback, experiment, applied, behind, torn, threshold>>,
         baselines' \in Seq(BaselineRow), PromotedInv',
         \A i \in DOMAIN baselines :
           i \in DOMAIN baselines' /\ baselines'[i].metrics = baselines[i].metrics
  PROVE  FeedInv'
<1>0. stage \in [Processes -> FeedStages]
  BY DEF FeedInv, FeedTypes
<1>1. FeedTypes'
  BY DEF FeedInv, FeedTypes, FeedStages
<1>2. GateInv'
  BY GateKept DEF FeedInv
<1>3. \A e \in Experiments : RowInv(e)'
  BY RowsKept
<1>4. ASSUME NEW p \in Processes, p # q PROVE ReadInv(p)'
  BY <1>0, <1>4, ReadKept
<1>5. ReadInv(q)'
  <2>1. stage'[q] = "over" /\ held'[q] = held[q] /\ ReadInv(q)
    BY <1>0 DEF FeedInv
  <2>2. QED
    BY <2>1 DEF ReadInv, Reading
<1>6. QED
  BY <1>1, <1>2, <1>3, <1>4, <1>5 DEF FeedInv

LEMMA FeedPromote ==
  ASSUME FeedInv, NEW q \in Processes, Feedback!Promote(q)
  PROVE  FeedInv'
<1> DEFINE e == held[q].experiment
<1>1. /\ stage[q] = "create" /\ stage' = [stage EXCEPT ![q] = "over"]
      /\ Feedback!Creates(Feedback!Line(e), held[q].row.after, e)
      /\ UNCHANGED <<held, adding, quality, feedback, experiment, applied, behind, torn, threshold>>
  BY DEF Feedback!Promote, Feedback!Goes, Feedback!feedbackVars, Feedback!rowVars
<1>2. /\ e \in Experiments /\ held[q].row \in ExperimentRow
      /\ Backed(e, held[q].row.after, feedback)
  <2>1. ReadInv(q)
    BY DEF FeedInv
  <2>2. QED
    BY <1>1, <2>1 DEF ReadInv, Reading
<1>3. held[q].row.after \in MetricsOf /\ Feedback!Line(e) \in Feedback!Lines
  BY <1>2 DEF ExperimentRow, Feedback!Lines, Feedback!Experiments, Experiments
<1>4. /\ baselines' \in Seq(BaselineRow) /\ PromotedInv'
      /\ \A i \in DOMAIN baselines :
           i \in DOMAIN baselines' /\ baselines'[i].metrics = baselines[i].metrics
  BY <1>1, <1>2, <1>3, Created
<1>5. QED
  BY <1>1, <1>4, FeedEnds, Zenon

LEMMA FeedFind ==
  ASSUME FeedInv, NEW q \in Processes, NEW i \in DOMAIN baselines, Feedback!FindToActivate(q, i)
  PROVE  FeedInv'
<1> DEFINE h == held[q]
<1>1. /\ stage[q] = "idle" /\ stage' = [stage EXCEPT ![q] = "switch"]
      /\ held' = [held EXCEPT ![q] = [h EXCEPT !.baseline = i]]
      /\ UNCHANGED <<adding, quality, feedback, experiment, applied, behind, torn, baselines, threshold>>
  BY DEF Feedback!FindToActivate, Feedback!Goes, Feedback!Undisturbed, Feedback!feedbackVars,
         Feedback!rowVars
<1>2. /\ stage \in [Processes -> FeedStages] /\ held \in [Processes -> Read] /\ h \in Read
      /\ i \in Nat /\ h.verdict = None
  <2>1. ReadInv(q) /\ FeedTypes
    BY DEF FeedInv
  <2>2. QED
    BY <1>1, <2>1 DEF FeedTypes, ReadInv
<1> HIDE DEF h
<1>3. /\ [h EXCEPT !.baseline = i] \in Read /\ [h EXCEPT !.baseline = i].baseline = i
      /\ [h EXCEPT !.baseline = i].verdict = None
  BY <1>2 DEF Read
<1>4. /\ stage' \in [Processes -> FeedStages] /\ stage'[q] = "switch"
      /\ held' \in [Processes -> Read] /\ held'[q] = [h EXCEPT !.baseline = i]
      /\ \A p \in Processes \ {q} : stage'[p] = stage[p] /\ held'[p] = held[p]
  BY <1>1, <1>2, <1>3 DEF FeedStages
<1>5. ReadInv(q)'
  BY <1>1, <1>3, <1>4, FeedbackAssumption DEF ReadInv, Reading
<1>6. QED
  BY <1>1, <1>4, <1>5, FeedAlone

LEMMA FeedSetActive ==
  ASSUME FeedInv, NEW q \in Processes, Feedback!SetActive(q)
  PROVE  FeedInv'
<1> DEFINE k == held[q].baseline
           l == baselines[k].line
           old == Feedback!Deactivated(l)
<1>1. /\ stage[q] = "switch" /\ stage' = [stage EXCEPT ![q] = "over"]
      /\ baselines' = [old EXCEPT ![k].active = TRUE]
      /\ UNCHANGED <<held, adding, quality, feedback, experiment, applied, behind, torn, threshold>>
  BY DEF Feedback!SetActive, Feedback!Goes, Feedback!feedbackVars, Feedback!rowVars
<1>2. k \in DOMAIN baselines
  <2>1. ReadInv(q)
    BY DEF FeedInv
  <2>2. QED
    BY <1>1, <2>1 DEF ReadInv
<1>3. /\ baselines \in Seq(BaselineRow)
      /\ \A i \in DOMAIN baselines : baselines[i] \in BaselineRow
  BY DEF FeedInv, FeedTypes
<1>4. old = [i \in DOMAIN baselines |->
               IF baselines[i].line = l THEN [baselines[i] EXCEPT !.active = FALSE] ELSE baselines[i]]
  BY DEF Feedback!Deactivated
<1>5. DOMAIN baselines' = DOMAIN baselines
  <2> HIDE DEF k, l
  <2>1. QED
    BY <1>1, <1>4
<1>6. ASSUME NEW i \in DOMAIN baselines
      PROVE  /\ baselines'[i] \in BaselineRow /\ baselines'[i].line = baselines[i].line
             /\ baselines'[i].metrics = baselines[i].metrics
             /\ baselines'[i].experiment = baselines[i].experiment
             /\ baselines'[i].active = (IF i = k THEN TRUE ELSE baselines[i].active /\ baselines[i].line # l)
  <2> DEFINE row == baselines[i]
  <2>1. row \in BaselineRow
    BY <1>3
  <2>2. CASE i = k
    <3>1. baselines'[i] = [[row EXCEPT !.active = FALSE] EXCEPT !.active = TRUE]
      BY <1>1, <1>2, <1>4, <2>2, Zenon
    <3> HIDE DEF row
    <3>2. /\ baselines'[i] \in BaselineRow /\ baselines'[i].line = row.line
          /\ baselines'[i].metrics = row.metrics /\ baselines'[i].experiment = row.experiment
          /\ baselines'[i].active = TRUE
      BY <2>1, <3>1, Zenon DEF BaselineRow
    <3>3. QED
      BY <2>2, <3>2, Zenon DEF row
  <2>3. CASE i # k
    <3>1. baselines'[i] = IF row.line = l THEN [row EXCEPT !.active = FALSE] ELSE row
      <4> HIDE DEF k, l
      <4>1. QED
        BY <1>1, <1>4, <2>3, Zenon
    <3> HIDE DEF row, l
    <3>2. /\ baselines'[i] \in BaselineRow /\ baselines'[i].line = row.line
          /\ baselines'[i].metrics = row.metrics /\ baselines'[i].experiment = row.experiment
          /\ baselines'[i].active = (row.active /\ row.line # l)
      BY <2>1, <3>1, Zenon DEF BaselineRow
    <3>3. QED
      BY <2>3, <3>2 DEF row
  <2>4. QED
    BY <2>2, <2>3, Zenon
<1>7. baselines' \in Seq(BaselineRow)
  <2>1. Len(baselines) \in Nat /\ DOMAIN baselines = 1 .. Len(baselines)
    BY <1>3
  <2>2. baselines' = [i \in DOMAIN baselines' |-> baselines'[i]]
    <3> HIDE DEF k, l
    <3>1. QED
      BY <1>1, <1>4, Zenon
  <2>3. baselines' \in [1 .. Len(baselines) -> BaselineRow]
    BY <1>5, <1>6, <2>1, <2>2, Zenon
  <2>4. QED
    BY <2>1, <2>3
<1>8. PromotedInv'
  <2> HIDE DEF k
  <2>1. baselines'[k].experiment # None =>
          /\ baselines'[k].experiment \in Experiments
          /\ Backed(baselines'[k].experiment, baselines'[k].metrics, feedback)
    BY <1>2, <1>6, Zenon DEF FeedInv, PromotedInv
  <2>2. k \in DOMAIN baselines' /\ baselines'[k].line = l /\ baselines'[k].active
    BY <1>2, <1>5, <1>6, Zenon
  <2> HIDE DEF l
  <2>3. \A i \in DOMAIN baselines' : i # k =>
          /\ i \in DOMAIN baselines
          /\ baselines'[i].line = baselines[i].line
          /\ baselines'[i].metrics = baselines[i].metrics
          /\ baselines'[i].experiment = baselines[i].experiment
          /\ baselines'[i].active = (baselines[i].active /\ baselines[i].line # l)
    BY <1>5, <1>6, Zenon
  <2>4. k \in DOMAIN baselines => baselines[k].line = l
    BY DEF l
  <2>5. UNCHANGED feedback /\ DOMAIN baselines \subseteq DOMAIN baselines'
    BY <1>1, <1>5
  <2>6. QED
    BY <2>1, <2>2, <2>3, <2>4, <2>5, ActiveSwitched
<1>9. QED
  BY <1>1, <1>5, <1>6, <1>7, <1>8, FeedEnds, Zenon

LEMMA FeedCompare ==
  ASSUME FeedInv, NEW q \in Processes, Feedback!Compare(q)
  PROVE  FeedInv'
<1> DEFINE h == held[q]
           T == Feedback!Active(Feedback!Line(h.experiment))
           k == Feedback!Max(T)
           w == Feedback!Winner(baselines[k].metrics, h.row.after)
           hh == IF T = {} THEN h ELSE [h EXCEPT !.baseline = k, !.verdict = w]
<1>1. /\ stage[q] = "active" /\ stage' = [stage EXCEPT ![q] = "over"]
      /\ held' = [held EXCEPT ![q] = hh]
      /\ UNCHANGED <<adding, quality, feedback, experiment, applied, behind, torn, baselines, threshold>>
  <2>0. held \in [Processes -> Read]
    BY DEF FeedInv, FeedTypes
  <2>1. /\ stage[q] = "active" /\ stage' = [stage EXCEPT ![q] = "over"]
        /\ held' = IF T = {} THEN held
                   ELSE [held EXCEPT ![q] = [h EXCEPT !.baseline = k, !.verdict = w]]
        /\ UNCHANGED <<adding, quality, feedback, experiment, applied, behind, torn, baselines, threshold>>
    BY Zenon DEF Feedback!Compare, Feedback!Goes, Feedback!Undisturbed, Feedback!feedbackVars,
           Feedback!rowVars
  <2> HIDE DEF T, k, w
  <2>2. held' = [held EXCEPT ![q] = hh]
    BY <2>0, <2>1, Zenon
  <2>3. QED
    BY <2>1, <2>2, Zenon
<1>2. /\ stage \in [Processes -> FeedStages] /\ held \in [Processes -> Read] /\ h \in Read
      /\ h.verdict = None /\ h.row \in ExperimentRow
      /\ baselines \in Seq(BaselineRow)
  <2>1. ReadInv(q) /\ FeedTypes
    BY DEF FeedInv
  <2>2. QED
    BY <1>1, <2>1 DEF FeedTypes, ReadInv, Reading
<1>3. T # {} => k \in DOMAIN baselines /\ k \in Nat
  <2> SUFFICES ASSUME T # {} PROVE k \in T
    BY <1>2 DEF Feedback!Active
  <2>1. T \in SUBSET (1 .. Len(baselines)) /\ Len(baselines) \in Nat
    BY <1>2 DEF Feedback!Active
  <2> HIDE DEF T
  <2>2. PICK j \in T : \A n \in T : n <= j
    BY <2>1, LastOf, Zenon
  <2>3. QED
    BY <2>2 DEF Feedback!Max
<1>4. T # {} /\ w \in {"experiment", "baseline"} => baselines[k].metrics # h.row.after
  <2> SUFFICES ASSUME T # {}, baselines[k].metrics = h.row.after PROVE w = "tie"
    OBVIOUS
  <2>1. h.row.after \in MetricsOf
    BY <1>2 DEF ExperimentRow
  <2>2. w = Feedback!Winner(h.row.after, h.row.after)
    OBVIOUS
  <2>3. QED
    BY <2>1, <2>2, SameIsTie
<1>5. w \in {"experiment", "baseline", "tie"}
  BY DEF Feedback!Winner
<1> HIDE DEF h, T, k, w
<1>6. /\ hh \in Read /\ hh.row = h.row
      /\ hh.verdict \in {"experiment", "baseline"} =>
           hh.baseline \in DOMAIN baselines /\ baselines[hh.baseline].metrics # h.row.after
  <2>1. CASE T = {}
    BY <1>2, <2>1, FeedbackAssumption
  <2>2. CASE T # {}
    <3>1. hh = [h EXCEPT !.baseline = k, !.verdict = w]
      BY <2>2
    <3>2. hh \in Read /\ hh.row = h.row /\ hh.verdict = w /\ hh.baseline = k
      BY <1>2, <1>3, <1>5, <2>2, <3>1, Zenon DEF Read
    <3>3. QED
      BY <1>3, <1>4, <2>2, <3>2
  <2>3. QED
    BY <2>1, <2>2
<1> HIDE DEF hh
<1>7. /\ stage' \in [Processes -> FeedStages] /\ stage'[q] = "over"
      /\ held' \in [Processes -> Read] /\ held'[q] = hh
      /\ \A p \in Processes \ {q} : stage'[p] = stage[p] /\ held'[p] = held[p]
  BY <1>1, <1>2, <1>6 DEF FeedStages
<1>8. ReadInv(q)'
  BY <1>1, <1>6, <1>7 DEF ReadInv, Reading
<1>9. QED
  BY <1>1, <1>7, <1>8, FeedAlone

LEMMA FeedScore ==
  ASSUME FeedInv, NEW q \in Processes, Feedback!ScoreExperiment(q)
  PROVE  FeedInv'
<1> DEFINE h == held[q]
           w == IF Feedback!TotalRisk(Rows[h.experiment].risk) > threshold THEN "review" ELSE "auto"
           hh == [h EXCEPT !.verdict = w]
<1>1. /\ stage[q] = "threshold" /\ stage' = [stage EXCEPT ![q] = "over"]
      /\ held' = [held EXCEPT ![q] = hh]
      /\ UNCHANGED <<adding, quality, feedback, experiment, applied, behind, torn, baselines, threshold>>
  BY DEF Feedback!ScoreExperiment, Feedback!Goes, Feedback!Undisturbed, Feedback!feedbackVars,
         Feedback!rowVars
<1>2. stage \in [Processes -> FeedStages] /\ held \in [Processes -> Read] /\ h \in Read
  BY DEF FeedInv, FeedTypes
<1>3. w \in {"review", "auto"}
  OBVIOUS
<1> HIDE DEF h, w
<1>4. hh \in Read /\ hh.verdict = w
  BY <1>2, <1>3 DEF Read
<1> HIDE DEF hh
<1>5. /\ stage' \in [Processes -> FeedStages] /\ stage'[q] = "over"
      /\ held' \in [Processes -> Read] /\ held'[q] = hh
      /\ \A p \in Processes \ {q} : stage'[p] = stage[p] /\ held'[p] = held[p]
  BY <1>1, <1>2, <1>4 DEF FeedStages
<1>6. ReadInv(q)'
  BY <1>3, <1>4, <1>5 DEF ReadInv, Reading
<1>7. QED
  BY <1>1, <1>5, <1>6, FeedAlone

LEMMA FeedQuiet ==
  ASSUME FeedInv,
         UNCHANGED <<stage, held, adding, quality, feedback, experiment, baselines, applied, behind,
                     torn>>,
         threshold' \in RiskThresholds \cup {600}
  PROVE  FeedInv'
<1>1. FeedTypes' /\ GateInv'
  <2>1. FeedTypes'
    BY DEF FeedInv, FeedTypes
  <2>2. GateInv'
    BY GateKept DEF FeedInv
  <2>3. QED
    BY <2>1, <2>2
<1>2. (\A e \in Experiments : RowInv(e)') /\ PromotedInv' /\ \A q \in Processes : ReadInv(q)'
  BY RowsKept, BaselinesKept, ReadKept
<1>3. QED
  BY <1>1, <1>2 DEF FeedInv

LEMMA FeedNext == FeedInv /\ [Feedback!Next]_(Feedback!vars) => FeedInv'
<1> SUFFICES ASSUME FeedInv, [Feedback!Next]_(Feedback!vars) PROVE FeedInv'
  OBVIOUS
<1>1. CASE UNCHANGED Feedback!vars
  <2>1. /\ UNCHANGED <<stage, held, adding, quality, feedback, experiment, baselines, applied,
                       behind, torn>>
        /\ threshold' = threshold /\ threshold \in RiskThresholds \cup {600}
    BY <1>1 DEF Feedback!vars, FeedInv, FeedTypes
  <2>2. QED
    BY <2>1, FeedQuiet
<1>2. ASSUME NEW t \in RiskThresholds, Feedback!SetThreshold(t) PROVE FeedInv'
  BY <1>2, FeedQuiet DEF Feedback!SetThreshold, Feedback!feedbackVars, Feedback!rowVars
<1>3. ASSUME NEW q \in Processes, NEW e \in Experiments,
             \/ Feedback!ReadToApply(q, e) \/ Feedback!ReadToLink(q, e)
             \/ Feedback!ReadToPromote(q, e) \/ Feedback!ReadToCompare(q, e)
             \/ Feedback!ReadToScore(q, e)
      PROVE  FeedInv'
  BY <1>3, FeedReads DEF Feedback!ReadToApply, Feedback!ReadToLink, Feedback!ReadToPromote,
                         Feedback!ReadToCompare, Feedback!ReadToScore
<1>4. CASE Feedback!Next
  BY <1>2, <1>3, <1>4, FeedSaveQuality, FeedAdd, FeedList, FeedReread, FeedSaveApplied,
     FeedSaveLink, FeedPromote, FeedCompare, FeedScore, FeedFind, FeedSetActive, FeedCreate
     DEF Feedback!Next, Feedback!Experiments, Experiments
<1>5. QED
  BY <1>1, <1>4

-----------------------------------------------------------------------------
(* VersionRecommendations *)

SchemaNames == {e.name : e \in Edits} \cup DOMAIN Recommending!DefaultQuant
SchemaSet ==
  {e.schema : e \in Edits}
    \cup {Recommending!DefaultQuant[name] : name \in DOMAIN Recommending!DefaultQuant}
Registries == UNION {[D -> SchemaSet] : D \in SUBSET SchemaNames}
ShadowRows ==
  {Recommending!ShadowRow(o, registry) : o \in Outcomes \ {None}, registry \in Registries}

Statuses == Recommending!Answers \cup {"open"}
Drawn == [seen : Nat, decision : Recommending!Decisions, shadow : Nat]
Valued == [value : Int, after : Histories]
ItemRow ==
  [kind : {"recommendation"}, status : Statuses, content : Drawn]
    \cup [kind : {"suggestion"}, status : Statuses, content : Valued]
    \cup [kind : {"proposal"}, status : Statuses, content : {None}]
CommandStages == {"idle", "schemas", "insert", "save", "over"}

HeldTypes == held = [c \in Processes |-> [row |-> held[c].row, item |-> held[c].item]]

CommandTypes ==
  /\ stage \in [Processes -> CommandStages] /\ HeldTypes
  /\ schemas \in Registries
  /\ shadows \in Seq(ShadowRows \cup {None})
  /\ items \in Seq(ItemRow) /\ original \in Seq(ItemRow) /\ answered \in Seq(SUBSET Recommending!Answers)
  /\ Len(original) = Len(items) /\ Len(answered) = Len(items)

\* What a recommendation says of the shadow runs it has seen.
StandsIn(content, runs) ==
  /\ content.seen \in 0 .. Len(runs)
  /\ content.decision = "recommend" =>
       /\ content.shadow \in 1 .. Len(runs) /\ Recommending!Gains(runs[content.shadow])
       /\ \A s \in 1 .. content.seen :
            \/ runs[s] = None
            \/ LET cmp == Recommending!ComparisonOf(runs[s])
               IN /\ cmp.violations = {}
                  /\ Recommending!Gains(runs[s]) \/ cmp.samples < 30 \/ cmp.kind = "synthetic"

\* What a suggestion says of the values it was drawn from.
Suits(content) ==
  LET past == {content.after[k] : k \in DOMAIN content.after} IN
  /\ content.value \in Bounds.minimum .. Bounds.maximum
  /\ Recommending!Cardinality(past \cap (Bounds.minimum .. Bounds.maximum)) >= 2 =>
       content.value \notin past \/ Recommending!Grid \subseteq past

\* An item is as it was created but for its status, which is one of its answers.
ItemIs(row, created, said, runs) ==
  /\ row.kind = "recommendation" => StandsIn(row.content, runs)
  /\ row.kind = "suggestion" => Suits(row.content)
  /\ created = Recommending!Row(row.kind, row.content)
  /\ IF said = {} THEN row.status = "open" ELSE row.status \in said

\* What a command is about to write is sound, and the row of an item but for its status.
CommandIs(at, what, its, runs) ==
  /\ at = "schemas" => what.row \in Registries
  /\ at = "insert" =>
       /\ what.row \in ItemRow /\ what.row.kind = "recommendation"
       /\ what.row.status = "open" /\ StandsIn(what.row.content, runs)
  /\ at = "save" =>
       /\ what.item \in DOMAIN its /\ what.row \in ItemRow
       /\ what.row.kind = its[what.item].kind
       /\ what.row.content = its[what.item].content
       /\ what.row.status \in Recommending!Answers

CommandsInv ==
  /\ CommandTypes
  /\ \A i \in DOMAIN items : ItemIs(items[i], original[i], answered[i], shadows)
  /\ \A c \in Processes : CommandIs(stage[c], held[c], items, shadows)

LEMMA RecommendingCardinality == \A S : Recommending!Cardinality(S) = Cardinality(S)
BY DEF Recommending!Cardinality, Cardinality

LEMMA DefaultSchemas ==
  ASSUME NEW name \in DOMAIN Recommending!DefaultQuant
  PROVE  LET s == Recommending!DefaultQuant[name]
         IN s.weight \in Nat /\ s.threshold \in Int \cup {None}
<1> DEFINE higher == [total_return |-> 25, annual_return |-> 10, excess_return |-> 25,
                      sharpe |-> 30, win_rate |-> 5, stability_score |-> 10]
           other ==
             [benchmark_return |-> Recommending!Schema("reference", "business", 0),
              trade_count |-> Recommending!Schema("bounded", "business", 0),
              latency_ms |-> Recommending!Schema("lower", "system", 0),
              sample_count |-> Recommending!Schema("higher", "data_quality", 0),
              max_drawdown |-> [direction |-> "lower", category |-> "guardrail", weight |-> 20,
                                threshold |-> 20, guardrail |-> TRUE]]
<1>1. Recommending!DefaultQuant =
        [n \in DOMAIN higher \cup DOMAIN other |->
           IF n \in DOMAIN other THEN other[n]
           ELSE Recommending!Schema("higher", "business", higher[n])]
  BY DEF Recommending!DefaultQuant
<1>2. \A n \in DOMAIN higher : higher[n] \in Nat
  OBVIOUS
<1>3. \A n \in DOMAIN other : other[n].weight \in Nat /\ other[n].threshold \in Int \cup {None}
  BY DEF Recommending!Schema
<1> HIDE DEF higher, other
<1>4. \A d, c, w : /\ Recommending!Schema(d, c, w).weight = w
                   /\ Recommending!Schema(d, c, w).threshold = None
  BY DEF Recommending!Schema
<1>5. name \in DOMAIN higher \cup DOMAIN other
  BY <1>1
<1>6. CASE name \in DOMAIN other
  <2>1. Recommending!DefaultQuant[name] = other[name]
    BY <1>1, <1>5, <1>6
  <2>2. QED
    BY <1>3, <1>6, <2>1
<1>7. CASE name \notin DOMAIN other
  <2>1. Recommending!DefaultQuant[name] = Recommending!Schema("higher", "business", higher[name])
    BY <1>1, <1>5, <1>7
  <2>2. higher[name] \in Nat
    BY <1>2, <1>5, <1>7
  <2>3. QED
    BY <1>4, <2>1, <2>2
<1>8. QED
  BY <1>6, <1>7

LEMMA SchemaTypes ==
  ASSUME NEW registry \in Registries, NEW name
  PROVE  LET s == Recommending!SchemaFor(registry, name)
         IN s.weight \in Nat /\ s.threshold \in Int \cup {None}
<1>1. \A s \in SchemaSet : s.weight \in Nat /\ s.threshold \in Int \cup {None}
  BY DefaultSchemas, RecommendationAssumption DEF SchemaSet
<1>2. CASE name \in DOMAIN registry
  <2>1. registry[name] \in SchemaSet
    BY <1>2 DEF Registries
  <2>2. QED
    BY <1>1, <1>2, <2>1 DEF Recommending!SchemaFor
<1>3. CASE name \notin DOMAIN registry
  BY <1>3 DEF Recommending!SchemaFor, Recommending!Schema
<1>4. QED
  BY <1>2, <1>3

LEMMA RegistryIs ==
  /\ Recommending!DefaultQuant \in Registries
  /\ \A row \in ShadowRows : Recommending!Registry(row) \in Registries
<1>1. Recommending!DefaultQuant \in [DOMAIN Recommending!DefaultQuant -> SchemaSet]
  BY DEF SchemaSet, Recommending!DefaultQuant
<1>2. Recommending!DefaultQuant \in Registries
  BY <1>1 DEF Registries, SchemaNames
<1>3. ASSUME NEW row \in ShadowRows PROVE Recommending!Registry(row) \in Registries
  BY <1>2 DEF ShadowRows, Recommending!ShadowRow, Recommending!Registry
<1>4. QED
  BY <1>2, <1>3

\* What two runs are compared by are numbers.
LEMMA ComparisonTypes ==
  ASSUME NEW from, from \in [DOMAIN from -> Int], IsFiniteSet(DOMAIN from),
         NEW to, to \in [DOMAIN to -> Int], NEW registry \in Registries, NEW kind, NEW samples
  PROVE  LET cmp == Recommending!Comparison(from, to, registry, kind, samples)
         IN /\ cmp.kind = kind /\ cmp.samples = samples
            /\ cmp.sum \in Int /\ cmp.weight \in Nat \ {0}
            /\ Cardinality(DOMAIN cmp.diffs) \in Nat
<1> DEFINE names == DOMAIN from \cap DOMAIN to
           S(name) == Recommending!SchemaFor(registry, name)
           business == {name \in names : S(name).category \in {"business", "guardrail"}}
           Weight(name) == S(name).weight
           Change(name) == S(name).weight * Recommending!NormalizedChange(S(name), from[name], to[name])
           weights == Recommending!MapThenSumSet(Weight, business)
           sum == Recommending!MapThenSumSet(Change, business)
           g == [name \in business |-> Weight(name)]
           h == [name \in business |-> Change(name)]
           IsTotal(f) == f = [s \in SUBSET business |->
                               IF s = {} THEN 0
                               ELSE Weight(CHOOSE x \in s : TRUE) + f[s \ {CHOOSE x \in s : TRUE}]]
           IsSum(f) == f = [s \in SUBSET business |->
                             IF s = {} THEN 0
                             ELSE Change(CHOOSE x \in s : TRUE) + f[s \ {CHOOSE x \in s : TRUE}]]
           cmp == Recommending!Comparison(from, to, registry, kind, samples)
<1>1. weights = (CHOOSE f : IsTotal(f))[business]
  BY Zenon DEF Recommending!MapThenSumSet, Recommending!MapThenFoldSet
<1>2. sum = (CHOOSE f : IsSum(f))[business]
  BY Zenon DEF Recommending!MapThenSumSet, Recommending!MapThenFoldSet
<1>3. /\ cmp.kind = kind /\ cmp.samples = samples
      /\ cmp.sum = sum /\ cmp.weight = (IF weights = 0 THEN 1 ELSE weights)
      /\ DOMAIN cmp.diffs = business
  BY Zenon DEF Recommending!Comparison
<1>4. IsFiniteSet(business) /\ business \subseteq DOMAIN from /\ business \subseteq DOMAIN to
  BY FS_Subset
<1>5. ASSUME NEW name \in business PROVE Weight(name) \in Nat /\ Change(name) \in Int
  <2>1. S(name).weight \in Nat /\ S(name).threshold \in Int \cup {None}
    BY SchemaTypes
  <2>2. from[name] \in Int /\ to[name] \in Int
    BY <1>4
  <2>3. Recommending!NormalizedChange(S(name), from[name], to[name]) \in Int
    <3> DEFINE a == S(name)
               m == from[name]
               n == to[name]
    <3>1. a.threshold \in Int \cup {None} /\ m \in Int /\ n \in Int
      BY <2>1, <2>2
    <3> HIDE DEF a, m, n
    <3>2. a.threshold # None => Recommending!Distance(n, a.threshold) \in Int
      BY <3>1 DEF Recommending!Distance
    <3>3. Recommending!NormalizedChange(a, m, n) \in Int
      BY <3>1, <3>2 DEF Recommending!NormalizedChange
    <3>4. QED
      BY <3>3 DEF a, m, n
  <2>4. QED
    BY <2>1, <2>3
<1> HIDE DEF cmp, weights, sum
<1>6. ASSUME NEW f PROVE (IsTotal(f) <=> IsFold(f, g, business)) /\ (IsSum(f) <=> IsFold(f, h, business))
  <2> DEFINE a(s) == CHOOSE x \in s : TRUE
  <2>1. ASSUME NEW s \in SUBSET business, s # {}
        PROVE  g[a(s)] = Weight(a(s)) /\ h[a(s)] = Change(a(s))
    <3>1. a(s) \in business
      BY <2>1
    <3> HIDE DEF a, business, Weight, Change
    <3>2. QED
      BY <3>1
  <2> HIDE DEF g, h, Weight, Change, business
  <2>2. [s \in SUBSET business |-> IF s = {} THEN 0 ELSE Weight(a(s)) + f[s \ {a(s)}]]
          = [s \in SUBSET business |-> IF s = {} THEN 0 ELSE g[a(s)] + f[s \ {a(s)}]]
    BY <2>1
  <2>3. [s \in SUBSET business |-> IF s = {} THEN 0 ELSE Change(a(s)) + f[s \ {a(s)}]]
          = [s \in SUBSET business |-> IF s = {} THEN 0 ELSE h[a(s)] + f[s \ {a(s)}]]
    BY <2>1
  <2>4. QED
    BY <2>2, <2>3, Zenon DEF IsFold
<1>7. /\ (CHOOSE f : IsTotal(f)) = (CHOOSE f : IsFold(f, g, business))
      /\ (CHOOSE f : IsSum(f)) = (CHOOSE f : IsFold(f, h, business))
  <2> HIDE DEF g, h, business, IsTotal, IsSum
  <2>1. QED
    BY <1>6
<1> DEFINE p == [name \in business |-> IF h[name] >= 0 THEN h[name] ELSE 0]
           n == [name \in business |-> IF h[name] >= 0 THEN 0 ELSE -h[name]]
<1>8. \A name \in business : g[name] \in Nat /\ h[name] \in Int
  <2> HIDE DEF business, Weight, Change
  <2>1. QED
    BY <1>5
<1> HIDE DEF g, h, IsTotal, IsSum, business
<1>9. weights \in Nat
  BY <1>1, <1>4, <1>7, <1>8, FoldIsSum, SumFinite, Zenon
<1>10. \A name \in business : p[name] \in Nat /\ n[name] \in Nat /\ h[name] = p[name] - n[name]
  BY <1>8
<1> HIDE DEF p, n
<1>11. (CHOOSE f : IsFold(f, h, business))[business] = Sum(p, business) - Sum(n, business)
  BY <1>4, <1>10, FoldIsDifference
<1>12. Sum(p, business) \in Nat /\ Sum(n, business) \in Nat
  BY <1>4, <1>10, SumFinite
<1>13. sum \in Int
  <2>1. sum = Sum(p, business) - Sum(n, business)
    BY <1>2, <1>7, <1>11, Zenon
  <2>2. QED
    BY <1>12, <2>1
<1>14. Cardinality(business) \in Nat
  BY <1>4, FS_CardinalityType
<1>15. QED
  BY <1>3, <1>9, <1>13, <1>14 DEF cmp

\* The comparison in a row of a shadow run.
LEMMA RowComparison ==
  ASSUME NEW row \in ShadowRows
  PROVE  LET cmp == Recommending!ComparisonOf(row)
         IN /\ cmp.kind = row.kind /\ cmp.samples = row.samples
            /\ cmp.kind \in Recommending!Kinds /\ cmp.samples \in Nat
            /\ cmp.sum \in Int /\ cmp.weight \in Nat \ {0}
            /\ Cardinality(DOMAIN cmp.diffs) \in Nat
<1>1. PICK o \in Outcomes \ {None}, registry \in Registries :
        row = [kind |-> o.kind, samples |-> o.samples, baseline |-> o.baseline,
               metrics |-> o.metrics, schema |-> registry]
  BY DEF ShadowRows, Recommending!ShadowRow
<1> DEFINE from == IF row.baseline = None THEN Recommending!AssumedBaseline(row.metrics)
                   ELSE row.baseline
           to == row.metrics
<1>2. /\ row.kind \in Recommending!Kinds /\ row.samples \in Nat
      /\ to \in [DOMAIN to -> Int] /\ IsFiniteSet(DOMAIN to)
      /\ row.baseline # None =>
           row.baseline \in [DOMAIN row.baseline -> Int] /\ IsFiniteSet(DOMAIN row.baseline)
  BY <1>1, RecommendationAssumption
<1>3. from \in [DOMAIN from -> Int] /\ IsFiniteSet(DOMAIN from)
  <2>1. CASE row.baseline = None
    <3>1. from = [name \in DOMAIN to |-> IF name = "latency_ms" THEN to[name] ELSE to[name] - 8]
      BY <2>1 DEF Recommending!AssumedBaseline
    <3> HIDE DEF from, to
    <3>2. QED
      BY <1>2, <3>1
  <2>2. CASE row.baseline # None
    BY <1>2, <2>2
  <2>3. QED
    BY <2>1, <2>2
<1>4. Recommending!Registry(row) \in Registries
  BY RegistryIs
<1>5. Recommending!ComparisonOf(row) =
        Recommending!Comparison(from, to, Recommending!Registry(row), row.kind, row.samples)
  BY DEF Recommending!ComparisonOf
<1> HIDE DEF from, to
<1>6. QED
  BY <1>2, <1>3, <1>4, <1>5, ComparisonTypes

LEMMA RanksAreNumbers ==
  ASSUME NEW row \in ShadowRows
  PROVE  LET cmp == Recommending!ComparisonOf(row)
         IN /\ Recommending!EvaluationConfidence(cmp) \in Int
            /\ Recommending!RankScore(cmp) \in Int
<1> DEFINE cmp == Recommending!ComparisonOf(row)
           number == Recommending!Cardinality(DOMAIN cmp.diffs)
<1>1. /\ cmp.kind \in Recommending!Kinds /\ cmp.samples \in Nat
      /\ cmp.sum \in Int /\ cmp.weight \in Nat \ {0} /\ number \in Nat
  BY RowComparison, RecommendingCardinality
<1> HIDE DEF cmp
<1>2. \A i \in Int, d \in Nat \ {0} : i \div d \in Int
  OBVIOUS
<1>3. \A i, j \in Int : Recommending!Least(i, j) \in Int /\ Recommending!Distance(i, j) \in Int
  BY DEF Recommending!Least, Recommending!Distance
<1> DEFINE base_ == [synthetic |-> 1125, historical |-> 3375, paper |-> 3825, live |-> 4275][cmp.kind]
           samples_ == Recommending!Least(2500, (cmp.samples * 2500) \div 30)
           metrics_ == Recommending!Least(2000, (number * 2000) \div 3)
           change_ == Recommending!Least(1000, (Recommending!Distance(cmp.sum, 0) * 200) \div cmp.weight)
<1>4. base_ \in Int
  BY <1>1 DEF Recommending!Kinds
<1>5. samples_ \in Int /\ metrics_ \in Int
  <2>1. (cmp.samples * 2500) \div 30 \in Int /\ (number * 2000) \div 3 \in Int
    <3> HIDE DEF number
    <3>1. QED
      BY <1>1, <1>2
  <2>2. QED
    BY <1>3, <2>1
<1>6. change_ \in Int
  <2>1. Recommending!Distance(cmp.sum, 0) * 200 \in Int
    <3>1. Recommending!Distance(cmp.sum, 0) \in Int
      BY <1>1 DEF Recommending!Distance
    <3>2. QED
      BY <3>1
  <2>2. (Recommending!Distance(cmp.sum, 0) * 200) \div cmp.weight \in Int
    BY <1>1, <1>2, <2>1
  <2>3. QED
    BY <1>3, <2>2
<1>7. Recommending!Confidence(cmp) = base_ + samples_ + metrics_ + change_
  BY DEF Recommending!Confidence
<1> HIDE DEF base_, samples_, metrics_, change_
<1>8. Recommending!EvaluationConfidence(cmp) \in Int
  <2>1. Recommending!Confidence(cmp) \in Int
    BY <1>4, <1>5, <1>6, <1>7
  <2>2. QED
    BY <2>1 DEF Recommending!EvaluationConfidence
<1>9. Recommending!RankScore(cmp) \in Int
  <2> DEFINE gain == IF cmp.sum < 0 THEN 0 ELSE (cmp.sum * 300) \div cmp.weight
             few == Recommending!Least(20000, (cmp.samples * 20000) \div 30)
  <2>1. gain \in Int
    BY <1>1, <1>2
  <2>2. few \in Int
    <3>1. (cmp.samples * 20000) \div 30 \in Int
      BY <1>1, <1>2
    <3>2. QED
      BY <1>3, <3>1
  <2>3. Recommending!RankScore(cmp) = 5 * Recommending!EvaluationConfidence(cmp) + gain + few
    BY DEF Recommending!RankScore
  <2> HIDE DEF gain, few
  <2>4. QED
    BY <1>8, <2>1, <2>2, <2>3
<1>10. QED
  BY <1>8, <1>9 DEF cmp

\* Of a set of places one is the highest, by a key and then by a preference.
LEMMA Highest ==
  ASSUME NEW n \in Nat, NEW T \in SUBSET (1 .. n), T # {}, NEW key \in [T -> Int],
         NEW preference \in [T -> Int]
  PROVE  \E s \in T : \A t \in T :
           key[s] > key[t] \/ (key[s] = key[t] /\ preference[s] >= preference[t])
<1> DEFINE Over(s, t) == key[s] > key[t] \/ (key[s] = key[t] /\ preference[s] >= preference[t])
           Upto(m) == T \cap (1 .. m)
           Has(m) == \E s \in Upto(m) : \A t \in Upto(m) : Over(s, t)
           Bad == {m \in Nat : Upto(m) # {} /\ ~Has(m)}
<1>1. \A s, t \in T : Over(s, t) \/ Over(t, s)
  OBVIOUS
<1>2. \A s, t, u \in T : Over(s, t) /\ Over(t, u) => Over(s, u)
  OBVIOUS
<1> HIDE DEF Over
<1>3. ASSUME NEW m \in Bad, \A k \in Bad : m <= k PROVE FALSE
  <2>1. m \in Nat /\ Upto(m) # {} /\ ~Has(m)
    OBVIOUS
  <2>2. m # 0
    BY <2>1
  <2>3. m - 1 \in Nat /\ m - 1 \notin Bad
    BY <1>3, <2>1, <2>2
  <2>4. \A t \in T : t \in 1 .. n /\ (t \in Upto(m) <=> t \in Upto(m - 1) \/ t = m)
    BY <2>1, <2>2
  <2>5. m \in T
    <3>1. SUFFICES ASSUME m \notin T PROVE FALSE
      OBVIOUS
    <3>2. Upto(m) = Upto(m - 1)
      BY <2>4, <3>1
    <3>3. QED
      BY <2>1, <2>3, <3>2
  <2>6. CASE Upto(m - 1) = {}
    <3>1. Upto(m) = {m}
      BY <2>4, <2>5, <2>6
    <3>2. Over(m, m)
      BY <1>1, <2>5
    <3>3. QED
      BY <2>1, <3>1, <3>2
  <2>7. CASE Upto(m - 1) # {}
    <3>1. PICK s \in Upto(m - 1) : \A t \in Upto(m - 1) : Over(s, t)
      BY <2>3, <2>7
    <3>2. s \in T /\ s \in Upto(m) /\ m \in Upto(m)
      BY <2>4, <2>5
    <3>3. CASE Over(s, m)
      <4>1. \A t \in Upto(m) : Over(s, t)
        BY <2>4, <3>1, <3>3
      <4>2. QED
        BY <2>1, <3>2, <4>1
    <3>4. CASE Over(m, s)
      <4>1. ASSUME NEW t \in Upto(m) PROVE Over(m, t)
        <5>1. t \in T /\ (t = m \/ Over(s, t))
          BY <2>4, <3>1
        <5>2. QED
          BY <1>1, <1>2, <2>5, <3>2, <3>4, <5>1
      <4>2. QED
        BY <2>1, <3>2, <4>1
    <3>5. QED
      BY <1>1, <2>5, <3>2, <3>3, <3>4
  <2>8. QED
    BY <2>6, <2>7
<1>4. Bad \subseteq Nat
  OBVIOUS
<1>5. Bad = {}
  <2> HIDE DEF Bad
  <2>1. QED
    BY <1>3, <1>4, LeastNumber
<1>6. Upto(n) = T
  BY Zenon
<1>7. Has(n)
  BY <1>5, <1>6, Zenon
<1>8. QED
  BY <1>6, <1>7 DEF Over

LEMMA ImprovedGains ==
  ASSUME NEW row \in ShadowRows
  PROVE  LET cmp == Recommending!ComparisonOf(row)
         IN /\ Recommending!Decision(cmp) = "improved" => Recommending!Gains(row)
            /\ Recommending!Decision(cmp) # "worse" =>
                 /\ cmp.violations = {}
                 /\ Recommending!Gains(row) \/ cmp.samples < 30 \/ cmp.kind = "synthetic"
<1> DEFINE cmp == Recommending!ComparisonOf(row)
<1>1. cmp.kind = row.kind /\ cmp.samples = row.samples /\ cmp.samples \in Nat
  BY RowComparison
<1>2. Recommending!Gains(row) <=>
        row.kind # "synthetic" /\ row.samples >= 30 /\ cmp.violations = {} /\ cmp.sum > 0
  BY DEF Recommending!Gains
<1> HIDE DEF cmp
<1>3. Recommending!Decision(cmp) # "worse" =>
        /\ cmp.violations = {}
        /\ cmp.kind = "synthetic" \/ cmp.samples < 30 \/ cmp.sum > 0
  BY DEF Recommending!Decision, Recommending!Improved
<1>4. Recommending!Decision(cmp) = "improved" => cmp.kind # "synthetic" /\ ~(cmp.samples < 30) /\ cmp.sum > 0
  BY DEF Recommending!Decision, Recommending!Improved
<1>5. QED
  BY <1>1, <1>2, <1>3, <1>4 DEF cmp

LEMMA RecommendationIs ==
  ASSUME NEW results \in Seq(ShadowRows \cup {None})
  PROVE  LET d == Recommending!Recommendation(results)
         IN /\ d.decision \in Recommending!Decisions /\ d.shadow \in Nat
            /\ d.decision = "recommend" =>
                 /\ d.shadow \in 1 .. Len(results) /\ Recommending!Gains(results[d.shadow])
                 /\ \A s \in 1 .. Len(results) :
                      \/ results[s] = None
                      \/ LET cmp == Recommending!ComparisonOf(results[s])
                         IN /\ cmp.violations = {}
                            /\ \/ Recommending!Gains(results[s]) \/ cmp.samples < 30
                               \/ cmp.kind = "synthetic"
<1> DEFINE candidates == {s \in DOMAIN results : results[s] # None}
           cmp(s) == Recommending!ComparisonOf(results[s])
           decided(d) == {s \in candidates : Recommending!Decision(cmp(s)) = d}
           worse == decided("worse")
           improved == {s \in decided("improved") : Recommending!EvaluationConfidence(cmp(s)) >= 6000}
           Score(s) == Recommending!RankScore(cmp(s))
           Sure(s) == Recommending!EvaluationConfidence(cmp(s))
           Best(S) ==
             CHOOSE s \in S : \A t \in S : Score(s) > Score(t) \/ (Score(s) = Score(t) /\ s >= t)
           First(S) ==
             CHOOSE s \in S : \A t \in S : Sure(s) > Sure(t) \/ (Sure(s) = Sure(t) /\ s <= t)
<1>1. /\ Len(results) \in Nat /\ DOMAIN results = 1 .. Len(results)
      /\ \A s \in DOMAIN results : results[s] \in ShadowRows \cup {None}
  BY LenProperties, ElementOfSeq
<1>2. \A s \in candidates : results[s] \in ShadowRows
  BY <1>1
<1>3. \A s \in candidates : Score(s) \in Int /\ Sure(s) \in Int
  BY <1>2, RanksAreNumbers
<1>4. worse \subseteq candidates /\ improved \subseteq candidates /\ candidates \subseteq 1 .. Len(results)
  BY <1>1
<1>5. Recommending!Recommendation(results) =
        IF candidates = {} THEN [decision |-> "insufficient_evidence", shadow |-> 0]
        ELSE IF worse # {} THEN [decision |-> "reject", shadow |-> First(worse)]
        ELSE IF improved # {} THEN [decision |-> "recommend", shadow |-> Best(improved)]
        ELSE [decision |-> "insufficient_evidence", shadow |-> Best(candidates)]
  BY DEF Recommending!Recommendation, Recommending!LastBy, Recommending!FirstBy
<1>6. \A s \in improved : Recommending!Gains(results[s])
  BY <1>2, ImprovedGains
<1>7. worse = {} => \A s \in 1 .. Len(results) :
        \/ results[s] = None
        \/ /\ cmp(s).violations = {}
           /\ Recommending!Gains(results[s]) \/ cmp(s).samples < 30 \/ cmp(s).kind = "synthetic"
  <2> SUFFICES ASSUME worse = {}, NEW s \in 1 .. Len(results), results[s] # None
               PROVE  /\ cmp(s).violations = {}
                      /\ \/ Recommending!Gains(results[s]) \/ cmp(s).samples < 30
                         \/ cmp(s).kind = "synthetic"
    BY Zenon
  <2>1. s \in candidates /\ results[s] \in ShadowRows
    BY <1>1, <1>2
  <2>2. Recommending!Decision(cmp(s)) # "worse"
    BY <2>1
  <2>3. QED
    BY <2>1, <2>2, ImprovedGains
<1> HIDE DEF Score, Sure, candidates, improved, worse
<1>8. ASSUME NEW S \in SUBSET candidates, S # {}
      PROVE  Best(S) \in S /\ First(S) \in S
  <2> DEFINE rank == [s \in S |-> Score(s)]
             sure == [s \in S |-> Sure(s)]
             later == [s \in S |-> s]
             sooner == [s \in S |-> -s]
  <2>1. S \in SUBSET (1 .. Len(results)) /\ \A s \in S : s \in Int
    BY <1>1, <1>4
  <2>2. rank \in [S -> Int] /\ sure \in [S -> Int] /\ later \in [S -> Int] /\ sooner \in [S -> Int]
    BY <1>3, <2>1
  <2>3. /\ \E s \in S : \A t \in S : rank[s] > rank[t] \/ (rank[s] = rank[t] /\ later[s] >= later[t])
        /\ \E s \in S : \A t \in S : sure[s] > sure[t] \/ (sure[s] = sure[t] /\ sooner[s] >= sooner[t])
    <3> HIDE DEF rank, sure, later, sooner
    <3>1. Len(results) \in Nat /\ S \in SUBSET (1 .. Len(results)) /\ S # {}
      BY <1>1, <1>8, <2>1
    <3>2. \A T \in SUBSET (1 .. Len(results)) : T # {} =>
            \A key, preference \in [T -> Int] : \E s \in T : \A t \in T :
              key[s] > key[t] \/ (key[s] = key[t] /\ preference[s] >= preference[t])
      BY <3>1, Highest, Zenon
    <3>3. \A key, preference \in [S -> Int] : \E s \in S : \A t \in S :
            key[s] > key[t] \/ (key[s] = key[t] /\ preference[s] >= preference[t])
      BY <3>1, <3>2, Zenon
    <3>4. QED
      BY <2>2, <3>3, Zenon
  <2>4. \E s \in S : \A t \in S : Score(s) > Score(t) \/ (Score(s) = Score(t) /\ s >= t)
    BY <2>3
  <2>5. \E s \in S : \A t \in S : Sure(s) > Sure(t) \/ (Sure(s) = Sure(t) /\ s <= t)
    <3>1. PICK s \in S : \A t \in S : sure[s] > sure[t] \/ (sure[s] = sure[t] /\ sooner[s] >= sooner[t])
      BY <2>3
    <3>2. ASSUME NEW t \in S PROVE Sure(s) > Sure(t) \/ (Sure(s) = Sure(t) /\ s <= t)
      BY <2>1, <3>1
    <3>3. QED
      BY <3>2
  <2>6. QED
    BY <2>4, <2>5
<1> HIDE DEF Best, First
<1>9. ASSUME NEW s \in candidates PROVE s \in Nat /\ s \in 1 .. Len(results)
  BY <1>1, <1>4
<1> HIDE DEF cmp
<1>10. CASE candidates = {}
  BY <1>5, <1>10 DEF Recommending!Decisions
<1>11. CASE candidates # {} /\ worse # {}
  <2>1. Recommending!Recommendation(results) = [decision |-> "reject", shadow |-> First(worse)]
    BY <1>5, <1>11
  <2>2. First(worse) \in Nat
    BY <1>4, <1>8, <1>9, <1>11, Zenon
  <2>3. QED
    BY <2>1, <2>2 DEF Recommending!Decisions
<1>12. CASE candidates # {} /\ worse = {} /\ improved # {}
  <2>1. /\ Recommending!Recommendation(results).decision = "recommend"
        /\ Recommending!Recommendation(results).shadow = Best(improved)
    BY <1>5, <1>12
  <2>2. Best(improved) \in improved /\ Best(improved) \in 1 .. Len(results) /\ Best(improved) \in Nat
    BY <1>4, <1>8, <1>9, <1>12, Zenon
  <2>3. QED
    BY <1>6, <1>7, <1>12, <2>1, <2>2, Zenon DEF Recommending!Decisions, cmp
<1>13. CASE candidates # {} /\ worse = {} /\ improved = {}
  BY <1>5, <1>8, <1>9, <1>13 DEF Recommending!Decisions
<1>14. QED
  BY <1>10, <1>11, <1>12, <1>13, Zenon

LEMMA Quotient ==
  ASSUME NEW x \in Int, NEW d \in Nat \ {0}
  PROVE  x \div d \in Int /\ (x \div d) * d <= x /\ x < (x \div d) * d + d
OBVIOUS

LEMMA QuotientOfProduct == \A k \in Int, d \in Nat \ {0} : (k * d) \div d = k
OBVIOUS

LEMMA ProductsKeepOrder ==
  /\ \A k, d \in Nat : k * d \in Nat
  /\ \A j, k \in Int, d \in Nat : j <= k => j * d <= k * d
OBVIOUS

\* Rounding stays within the bounds, and leaves a value of the grid as it is.
LEMMA Rounded ==
  ASSUME Recommending!ValidBounds
  PROVE  /\ \A v \in Int : v >= Bounds.minimum =>
              Recommending!RoundToStep(v) \in Bounds.minimum .. Bounds.maximum
         /\ \A v \in Recommending!Grid :
              v \in Bounds.minimum .. Bounds.maximum /\ Recommending!RoundToStep(v) = v
<1> DEFINE lo == Bounds.minimum
           hi == Bounds.maximum
           step == Bounds.step
<1>1. lo \in Int /\ hi \in Int /\ step \in Nat \ {0} /\ lo < hi
  BY RecommendationAssumption DEF Recommending!ValidBounds
<1> DEFINE over(v) == v - lo
           down(v) == over(v) \div step
           twice(v) == 2 * (over(v) - down(v) * step)
           steps(v) == IF twice(v) > step \/ (twice(v) = step /\ down(v) % 2 = 1)
                       THEN down(v) + 1 ELSE down(v)
           rounded(v) == lo + steps(v) * step
<1>2. ASSUME NEW v PROVE Recommending!RoundToStep(v) = IF rounded(v) > hi THEN hi ELSE rounded(v)
  BY DEF Recommending!RoundToStep
<1>3. Recommending!Grid = {lo + k * step : k \in 0 .. (hi - lo) \div step}
  BY DEF Recommending!Grid
<1> HIDE DEF lo, hi, step
<1>4. ASSUME NEW v \in Int, v >= lo PROVE Recommending!RoundToStep(v) \in lo .. hi
  <2>1. over(v) \in Nat
    BY <1>1, <1>4
  <2> HIDE DEF over
  <2>2. down(v) \in Int /\ down(v) * step <= over(v) /\ over(v) < down(v) * step + step
    <3>1. over(v) \in Int
      BY <2>1
    <3>2. \A x \in Int, d \in Nat \ {0} :
            x \div d \in Int /\ (x \div d) * d <= x /\ x < (x \div d) * d + d
      BY Quotient
    <3>3. QED
      BY <1>1, <3>1, <3>2, Zenon
  <2> HIDE DEF down
  <2>3. down(v) \in Nat
    <3>1. SUFFICES ASSUME down(v) <= -1 PROVE FALSE
      BY <2>2
    <3>2. down(v) * step <= (-1) * step
      BY <1>1, <2>2, <3>1, ProductsKeepOrder
    <3>3. down(v) * step \in Int
      BY <1>1, <2>2
    <3>4. QED
      BY <1>1, <2>1, <2>2, <3>2, <3>3
  <2>4. steps(v) \in Nat
    BY <2>3
  <2> HIDE DEF steps
  <2>5. rounded(v) \in Int /\ rounded(v) >= lo
    <3>1. steps(v) * step \in Nat
      BY <1>1, <2>4, ProductsKeepOrder
    <3>2. QED
      BY <1>1, <3>1
  <2>6. QED
    BY <1>1, <1>2, <2>5
<1>5. ASSUME NEW v \in Recommending!Grid PROVE v \in lo .. hi /\ Recommending!RoundToStep(v) = v
  <2> DEFINE most == (hi - lo) \div step
  <2>1. most \in Int /\ most * step <= hi - lo
    BY <1>1, Quotient
  <2>2. PICK k \in 0 .. most : v = lo + k * step
    BY <1>3
  <2> HIDE DEF most
  <2>3. k \in Nat /\ k <= most /\ k * step \in Nat /\ k * step <= most * step
    BY <1>1, <2>1, ProductsKeepOrder
  <2>4. most * step \in Int
    BY <1>1, <2>1
  <2>5. v \in lo .. hi
    BY <1>1, <2>1, <2>2, <2>3, <2>4
  <2>6. over(v) = k * step
    BY <1>1, <2>2, <2>3
  <2>7. down(v) = k
    BY <1>1, <2>3, <2>6, QuotientOfProduct
  <2>8. twice(v) = 0
    BY <2>3, <2>6, <2>7
  <2>9. steps(v) = k
    BY <1>1, <2>7, <2>8
  <2>10. rounded(v) = v
    BY <2>2, <2>9
  <2> HIDE DEF rounded
  <2>11. Recommending!RoundToStep(v) = IF v > hi THEN hi ELSE v
    BY <1>2, <2>10
  <2>12. QED
    BY <1>1, <2>5, <2>11
<1>6. QED
  BY <1>4, <1>5 DEF lo, hi

\* What may be suggested lies within the bounds, and is new while anything is.
LEMMA SuggestedSuits ==
  ASSUME NEW values \in Histories, Recommending!ValidBounds,
         NEW v \in Recommending!Suggested(values)
  PROVE  v \in Int /\ Suits([value |-> v, after |-> values])
<1> DEFINE range == Bounds.minimum .. Bounds.maximum
           relevant == {i \in DOMAIN values : values[i] \in range}
           past == {values[k] : k \in DOMAIN values}
           fresh == Recommending!Grid \ {values[i] : i \in relevant}
           middle == (Bounds.minimum + Bounds.maximum) \div 2
           least == CHOOSE i \in relevant : \A j \in relevant : i <= j
<1>1. /\ Bounds.minimum \in Int /\ Bounds.maximum \in Int /\ Bounds.minimum < Bounds.maximum
      /\ Len(values) \in Nat /\ DOMAIN values = 1 .. Len(values)
      /\ \A k \in DOMAIN values : values[k] \in Int
  BY RecommendationAssumption DEF Recommending!ValidBounds
<1>2. v \in (IF Cardinality(relevant) < 2 THEN {Recommending!RoundToStep(middle)}
             ELSE IF fresh = {} THEN {Recommending!RoundToStep(values[least])}
             ELSE {Recommending!RoundToStep(g) : g \in fresh})
  BY RecommendingCardinality DEF Recommending!Suggested, Recommending!Min
<1>3. middle \in Int /\ middle >= Bounds.minimum
  BY <1>1
<1>4. IsFiniteSet(relevant) /\ relevant \subseteq Nat /\ relevant \subseteq DOMAIN values
  <2>1. IsFiniteSet(1 .. Len(values)) /\ relevant \subseteq 1 .. Len(values)
    BY <1>1, FS_Interval
  <2>2. QED
    BY <1>1, <2>1, FS_Subset
<1>5. past \cap range = {values[i] : i \in relevant}
  OBVIOUS
<1>6. IsFiniteSet(past \cap range) /\ Cardinality(past \cap range) <= Cardinality(relevant)
  <2> DEFINE f == [i \in relevant |-> values[i]]
  <2>1. f \in Surjection(relevant, past \cap range)
    <3>1. f \in [relevant -> past \cap range]
      BY <1>5
    <3>2. \A x \in past \cap range : \E i \in relevant : f[i] = x
      BY <1>5
    <3> HIDE DEF f, relevant, past, range
    <3>3. QED
      BY <3>1, <3>2, Zenon DEF Surjection
  <2> HIDE DEF f, relevant, past, range
  <2>2. QED
    BY <1>4, <2>1, FS_Surjection
<1>7. v \in range /\ (Cardinality(relevant) >= 2 => v \notin past \/ Recommending!Grid \subseteq past)
  <2>1. CASE Cardinality(relevant) < 2
    <3>1. v = Recommending!RoundToStep(middle)
      BY <1>2, <2>1
    <3>2. Cardinality(relevant) \in Nat
      BY <1>4, FS_CardinalityType
    <3> HIDE DEF relevant, middle
    <3>3. QED
      BY <1>3, <2>1, <3>1, <3>2, Rounded
  <2>2. CASE ~(Cardinality(relevant) < 2) /\ fresh = {}
    <3>1. relevant # {}
      BY <2>2, FS_EmptySet
    <3>2. \E i \in relevant : \A j \in relevant : i <= j
      BY <1>4, <3>1, LeastNumber, Zenon
    <3>3. least \in relevant
      BY <3>2
    <3>4. v = Recommending!RoundToStep(values[least])
      BY <1>2, <2>2
    <3> HIDE DEF least
    <3>5. values[least] \in Int /\ values[least] >= Bounds.minimum
      BY <1>1, <3>3
    <3>6. Recommending!Grid \subseteq past
      BY <2>2
    <3>7. QED
      BY <3>4, <3>5, <3>6, Rounded
  <2>3. CASE ~(Cardinality(relevant) < 2) /\ fresh # {}
    <3>1. PICK g \in fresh : v = Recommending!RoundToStep(g)
      BY <1>2, <2>3
    <3>2. v = g /\ g \in range
      BY <3>1, Rounded
    <3>3. v \notin past
      BY <3>1, <3>2
    <3>4. QED
      BY <3>2, <3>3
  <2>4. QED
    BY <2>1, <2>2, <2>3
<1>8. v \in Int
  BY <1>1, <1>7
<1>9. Cardinality(relevant) \in Nat /\ Cardinality(past \cap range) \in Nat
  <2> HIDE DEF relevant, past, range
  <2>1. QED
    BY <1>4, <1>6, FS_CardinalityType
<1>10. Suits([value |-> v, after |-> values]) <=>
         /\ v \in range
         /\ Cardinality(past \cap range) >= 2 => v \notin past \/ Recommending!Grid \subseteq past
  BY RecommendingCardinality DEF Suits
<1> HIDE DEF relevant, past, range
<1>11. QED
  BY <1>6, <1>7, <1>8, <1>9, <1>10

LEMMA StandsLonger ==
  ASSUME NEW X, NEW runs \in Seq(X), NEW row \in X, NEW content, StandsIn(content, runs)
  PROVE  StandsIn(content, Append(runs, row))
<1> DEFINE longer == Append(runs, row)
<1>1. /\ Len(runs) \in Nat /\ Len(longer) = Len(runs) + 1
      /\ \A s \in 1 .. Len(runs) : longer[s] = runs[s]
  BY LenProperties, AppendProperties
<1> HIDE DEF longer
<1>2. content.seen \in 0 .. Len(longer)
  BY <1>1 DEF StandsIn
<1>3. ASSUME content.decision = "recommend"
      PROVE  /\ content.shadow \in 1 .. Len(longer) /\ Recommending!Gains(longer[content.shadow])
             /\ \A s \in 1 .. content.seen :
                  \/ longer[s] = None
                  \/ LET cmp == Recommending!ComparisonOf(longer[s])
                     IN /\ cmp.violations = {}
                        /\ Recommending!Gains(longer[s]) \/ cmp.samples < 30 \/ cmp.kind = "synthetic"
  <2>1. content.shadow \in 1 .. Len(runs) /\ Recommending!Gains(runs[content.shadow])
    BY <1>3 DEF StandsIn
  <2>2. ASSUME NEW s \in 1 .. content.seen
        PROVE  \/ longer[s] = None
               \/ LET cmp == Recommending!ComparisonOf(longer[s])
                  IN /\ cmp.violations = {}
                     /\ Recommending!Gains(longer[s]) \/ cmp.samples < 30 \/ cmp.kind = "synthetic"
    <3>1. s \in 1 .. Len(runs)
      BY <1>1 DEF StandsIn
    <3>2. longer[s] = runs[s]
      BY <1>1, <3>1
    <3>3. QED
      BY <1>3, <3>2, Zenon DEF StandsIn
  <2>3. content.shadow \in 1 .. Len(longer) /\ longer[content.shadow] = runs[content.shadow]
    BY <1>1, <2>1
  <2>4. Recommending!Gains(longer[content.shadow])
    BY <2>1, <2>3
  <2>5. QED
    BY <2>2, <2>3, <2>4, Zenon
<1>4. QED
  BY <1>2, <1>3, Zenon DEF StandsIn, longer

\* Shadow runs are only added.
Extended == shadows' = shadows \/ \E row \in ShadowRows \cup {None} : shadows' = Append(shadows, row)

LEMMA ExtendedKeeps ==
  ASSUME CommandsInv, Extended
  PROVE  /\ shadows' \in Seq(ShadowRows \cup {None})
         /\ \A content : StandsIn(content, shadows) => StandsIn(content, shadows')
<1>1. shadows \in Seq(ShadowRows \cup {None})
  BY DEF CommandsInv, CommandTypes
<1>2. CASE shadows' = shadows
  BY <1>1, <1>2
<1>3. ASSUME NEW row \in ShadowRows \cup {None}, shadows' = Append(shadows, row)
      PROVE  /\ shadows' \in Seq(ShadowRows \cup {None})
             /\ \A content : StandsIn(content, shadows) => StandsIn(content, shadows')
  BY <1>1, <1>3, AppendProperties, StandsLonger
<1>4. QED
  BY <1>2, <1>3 DEF Extended

LEMMA ItemsKept ==
  ASSUME CommandsInv, Extended, UNCHANGED <<items, answered, original>>
  PROVE  \A i \in DOMAIN items' : ItemIs(items'[i], original'[i], answered'[i], shadows')
<1>1. ASSUME NEW row, NEW created, NEW said, ItemIs(row, created, said, shadows)
      PROVE  ItemIs(row, created, said, shadows')
  BY <1>1, ExtendedKeeps DEF ItemIs
<1>2. \A i \in DOMAIN items : ItemIs(items[i], original[i], answered[i], shadows)
  BY DEF CommandsInv
<1>3. QED
  BY <1>1, <1>2

\* The others still hold what they may write, whatever one of the commands has done.
LEMMA CommandsKept ==
  ASSUME CommandsInv, Extended, NEW c,
         \A d \in Processes : d = c \/ (stage'[d] = stage[d] /\ held'[d] = held[d]),
         DOMAIN items \subseteq DOMAIN items',
         \A i \in DOMAIN items : /\ items'[i].kind = items[i].kind
                                 /\ items'[i].content = items[i].content,
         c \in Processes => CommandIs(stage'[c], held'[c], items', shadows')
  PROVE  \A d \in Processes : CommandIs(stage'[d], held'[d], items', shadows')
<1>1. ASSUME NEW at, NEW what, CommandIs(at, what, items, shadows)
      PROVE  CommandIs(at, what, items', shadows')
  <2>1. /\ at = "schemas" => what.row \in Registries
        /\ at = "insert" =>
             /\ what.row \in ItemRow /\ what.row.kind = "recommendation"
             /\ what.row.status = "open" /\ StandsIn(what.row.content, shadows')
    BY <1>1, ExtendedKeeps DEF CommandIs
  <2>2. at = "save" =>
          /\ what.item \in DOMAIN items' /\ what.row \in ItemRow
          /\ what.row.kind = items'[what.item].kind
          /\ what.row.content = items'[what.item].content
          /\ what.row.status \in Recommending!Answers
    BY <1>1 DEF CommandIs
  <2>3. QED
    BY <2>1, <2>2 DEF CommandIs
<1>2. \A d \in Processes : CommandIs(stage[d], held[d], items, shadows)
  BY DEF CommandsInv
<1>3. ASSUME NEW d \in Processes, d # c PROVE CommandIs(stage'[d], held'[d], items', shadows')
  <2>1. CommandIs(stage[d], held[d], items', shadows')
    BY <1>1, <1>2
  <2>2. stage'[d] = stage[d] /\ held'[d] = held[d]
    BY <1>3
  <2>3. QED
    BY <2>1, <2>2
<1>4. QED
  BY <1>3

\* A command goes on, and has something else to write.
MovesTo(from, to, c, step) == to = [from EXCEPT ![c] = step]
WillWrite(from, to, c, r, i) == to = [from EXCEPT ![c] = [row |-> r, item |-> i]]

LEMMA CommandMoves ==
  ASSUME CommandsInv, NEW c \in Processes, NEW to \in CommandStages, NEW r, NEW i,
         MovesTo(stage, stage', c, to), WillWrite(held, held', c, r, i)
  PROVE  /\ stage' \in [Processes -> CommandStages]
         /\ HeldTypes' /\ stage'[c] = to /\ held'[c] = [row |-> r, item |-> i]
         /\ \A d \in Processes : d = c \/ (stage'[d] = stage[d] /\ held'[d] = held[d])
<1>1. /\ stage \in [Processes -> CommandStages]
      /\ held = [d \in Processes |-> [row |-> held[d].row, item |-> held[d].item]]
  BY DEF CommandsInv, CommandTypes, HeldTypes
<1>2. stage' \in [Processes -> CommandStages] /\ stage'[c] = to
  BY <1>1 DEF MovesTo
<1>3. DOMAIN held = Processes /\ \A d \in Processes : held[d] = [row |-> held[d].row, item |-> held[d].item]
  BY <1>1
<1>4. held' = [d \in Processes |-> IF d = c THEN [row |-> r, item |-> i] ELSE held[d]]
  BY <1>3, Zenon DEF WillWrite
<1>5. ASSUME NEW d \in Processes
      PROVE  /\ held'[d] = IF d = c THEN [row |-> r, item |-> i] ELSE held[d]
             /\ held'[d] = [row |-> held'[d].row, item |-> held'[d].item]
    BY <1>3, <1>4
<1>6. held' = [d \in Processes |-> held'[d]]
  BY <1>4
<1>7. HeldTypes'
  BY <1>5, <1>6 DEF HeldTypes
<1>8. \A d \in Processes : d # c => stage'[d] = stage[d]
  BY <1>1 DEF MovesTo
<1>9. QED
  BY <1>2, <1>5, <1>7, <1>8, Zenon

LEMMA CommandsInit == Recommending!Init => CommandsInv
<1> SUFFICES ASSUME Recommending!Init PROVE CommandsInv
  OBVIOUS
<1>1. /\ stage = [c \in Processes |-> "idle"] /\ schemas = <<>> /\ shadows = <<>>
      /\ items = <<>> /\ answered = <<>> /\ original = <<>>
      /\ held = [c \in Processes |-> [row |-> None, item |-> 0]]
  BY DEF Recommending!Init, Recommending!Nothing
<1>2. \A X : <<>> \in Seq(X) /\ Len(<<>>) = 0
  BY EmptySeq
<1>3. schemas \in Registries
  <2>1. schemas \in [1 .. 0 -> SchemaSet]
    BY <1>1, <1>2, LenProperties
  <2>2. 1 .. 0 \in SUBSET SchemaNames
    OBVIOUS
  <2>3. QED
    BY <2>1, <2>2 DEF Registries
<1>4. CommandTypes
  <2>1. held = [c \in Processes |-> [row |-> held[c].row, item |-> held[c].item]]
    BY <1>1
  <2>2. stage \in [Processes -> CommandStages]
    BY <1>1 DEF CommandStages
  <2>3. QED
    BY <1>1, <1>2, <1>3, <2>1, <2>2 DEF CommandTypes, HeldTypes
<1>5. DOMAIN items = {}
  BY <1>1
<1>6. \A c \in Processes : CommandIs(stage[c], held[c], items, shadows)
  BY <1>1 DEF CommandIs
<1>7. QED
  BY <1>4, <1>5, <1>6 DEF CommandsInv

\* A schema of a metric is set.
LEMMA RegistryWith ==
  ASSUME NEW registry \in Registries, NEW edit \in Edits
  PROVE  [name \in DOMAIN registry \cup {edit.name} |->
            IF name = edit.name THEN edit.schema ELSE registry[name]] \in Registries
<1> DEFINE D == DOMAIN registry \cup {edit.name}
           f == [name \in D |-> IF name = edit.name THEN edit.schema ELSE registry[name]]
<1>1. DOMAIN registry \subseteq SchemaNames /\ \A name \in DOMAIN registry : registry[name] \in SchemaSet
  BY DEF Registries
<1>2. edit.name \in SchemaNames /\ edit.schema \in SchemaSet
  BY DEF SchemaNames, SchemaSet
<1>3. D \in SUBSET SchemaNames
  BY <1>1, <1>2
<1>4. f \in [D -> SchemaSet]
  BY <1>1, <1>2
<1> HIDE DEF D, f
<1>5. f \in Registries
  BY <1>3, <1>4 DEF Registries
<1>6. QED
  BY <1>5 DEF D, f

LEMMA CommandReadsSchemas ==
  ASSUME CommandsInv, NEW c \in Processes, NEW edit \in Edits, Recommending!ReadSchemas(c, edit)
  PROVE  CommandsInv'
<1> DEFINE r == [name \in DOMAIN schemas \cup {edit.name} |->
                   IF name = edit.name THEN edit.schema ELSE schemas[name]]
<1>1. CommandTypes
  BY DEF CommandsInv
<1>2. /\ stage' = [stage EXCEPT ![c] = "schemas"]
      /\ held' = [held EXCEPT ![c].row = r]
      /\ UNCHANGED <<schemas, shadows, items, answered, original>>
  BY DEF Recommending!ReadSchemas, Recommending!Goes, Recommending!shadowVars
<1>3. r \in Registries
  BY <1>1, RegistryWith, Zenon DEF CommandTypes
<1> HIDE DEF r
<1>4. WillWrite(held, held', c, r, held[c].item)
  <2>1. held[c] = [row |-> held[c].row, item |-> held[c].item]
    BY <1>1 DEF CommandTypes, HeldTypes
  <2>2. [held[c] EXCEPT !.row = r] = [row |-> r, item |-> held[c].item]
    BY <2>1
  <2>3. QED
    BY <1>2, <2>2, Zenon DEF WillWrite
<1>5. /\ stage' \in [Processes -> CommandStages]
      /\ HeldTypes' /\ stage'[c] = "schemas" /\ held'[c].row = r
      /\ \A d \in Processes : d = c \/ (stage'[d] = stage[d] /\ held'[d] = held[d])
  <2>1. "schemas" \in CommandStages
    BY DEF CommandStages
  <2>2. MovesTo(stage, stage', c, "schemas")
    BY <1>2 DEF MovesTo
  <2>3. /\ stage' \in [Processes -> CommandStages] /\ HeldTypes'
        /\ stage'[c] = "schemas" /\ held'[c] = [row |-> r, item |-> held[c].item]
        /\ \A d \in Processes : d = c \/ (stage'[d] = stage[d] /\ held'[d] = held[d])
    BY <1>4, <2>1, <2>2, CommandMoves
  <2>4. QED
    BY <2>3
<1>6. CommandIs(stage'[c], held'[c], items', shadows')
  BY <1>3, <1>5 DEF CommandIs
<1>7. Extended
  BY <1>2 DEF Extended
<1>8. \A d \in Processes : CommandIs(stage'[d], held'[d], items', shadows')
  BY <1>2, <1>5, <1>6, <1>7, CommandsKept
<1>9. CommandTypes'
  BY <1>1, <1>2, <1>5 DEF CommandTypes
<1>10. QED
  BY <1>2, <1>7, <1>8, <1>9, ItemsKept DEF CommandsInv

\* A command that is over writes nothing more; schemas are those of the metrics named.
LEMMA CommandEnds ==
  ASSUME CommandsInv, NEW c \in Processes, stage' = [stage EXCEPT ![c] = "over"],
         schemas' \in Registries, UNCHANGED <<held, shadows, items, answered, original>>
  PROVE  CommandsInv'
<1>1. CommandTypes
  BY DEF CommandsInv
<1>2. /\ stage' \in [Processes -> CommandStages] /\ stage'[c] = "over"
      /\ \A d \in Processes : d = c \/ (stage'[d] = stage[d] /\ held'[d] = held[d])
  BY <1>1 DEF CommandTypes, CommandStages
<1>3. CommandIs(stage'[c], held'[c], items', shadows')
  BY <1>2 DEF CommandIs
<1>4. Extended
  BY DEF Extended
<1>5. \A d \in Processes : CommandIs(stage'[d], held'[d], items', shadows')
  BY <1>2, <1>3, <1>4, CommandsKept
<1>6. CommandTypes'
  BY <1>1, <1>2 DEF CommandTypes, HeldTypes
<1>7. QED
  BY <1>4, <1>5, <1>6, ItemsKept DEF CommandsInv

LEMMA CommandSavesSchemas ==
  ASSUME CommandsInv, NEW c \in Processes,
         \/ Recommending!SaveSchemas(c) \/ Recommending!LoadDefaultQuant(c)
         \/ \E names : Recommending!DeleteSchemas(c, names)
  PROVE  CommandsInv'
<1>1. schemas \in Registries
  BY DEF CommandsInv, CommandTypes
<1>2. CASE Recommending!SaveSchemas(c)
  <2>1. stage[c] = "schemas" /\ schemas' = held[c].row
    BY <1>2 DEF Recommending!SaveSchemas, Recommending!Goes
  <2>2. schemas' \in Registries
    BY <2>1 DEF CommandsInv, CommandIs
  <2>3. QED
    BY <1>2, <2>2, CommandEnds, Zenon DEF Recommending!SaveSchemas, Recommending!Goes
<1>3. CASE Recommending!LoadDefaultQuant(c)
  BY <1>3, CommandEnds, RegistryIs, Zenon DEF Recommending!LoadDefaultQuant, Recommending!Goes
<1>4. ASSUME NEW names, Recommending!DeleteSchemas(c, names) PROVE CommandsInv'
  <2>1. schemas' = [name \in DOMAIN schemas \ names |-> schemas[name]]
    BY <1>4 DEF Recommending!DeleteSchemas
  <2>2. schemas' \in Registries
    <3>1. /\ DOMAIN schemas \subseteq SchemaNames
          /\ \A name \in DOMAIN schemas : schemas[name] \in SchemaSet
      BY <1>1 DEF Registries
    <3>2. schemas' \in [DOMAIN schemas \ names -> SchemaSet]
      BY <2>1, <3>1
    <3>3. DOMAIN schemas \ names \in SUBSET SchemaNames
      BY <3>1
    <3>4. QED
      BY <3>2, <3>3 DEF Registries
  <2>3. QED
    BY <1>4, <2>2, CommandEnds, Zenon DEF Recommending!DeleteSchemas, Recommending!Goes
<1>5. QED
  BY <1>2, <1>3, <1>4

LEMMA ShadowSaved ==
  ASSUME CommandsInv, NEW row \in ShadowRows \cup {None}, Recommending!SavesShadow(row)
  PROVE  CommandsInv'
<1>1. CommandTypes
  BY DEF CommandsInv
<1>2. shadows' = Append(shadows, row) /\ UNCHANGED <<stage, held, schemas, items, answered, original>>
  BY DEF Recommending!SavesShadow
<1>3. Extended
  BY <1>2 DEF Extended
<1>4. CommandTypes'
  BY <1>1, <1>2, <1>3, ExtendedKeeps DEF CommandTypes, HeldTypes
<1>5. \A d \in Processes : CommandIs(stage'[d], held'[d], items', shadows')
  <2>1. \A d \in Processes : CommandIs(stage[d], held[d], items, shadows)
    BY DEF CommandsInv
  <2>2. ASSUME NEW d \in Processes PROVE CommandIs(stage[d], held[d], items, shadows')
    BY <1>3, <2>1, <2>2, ExtendedKeeps DEF CommandIs
  <2>3. QED
    BY <1>2, <2>2
<1>6. QED
  BY <1>2, <1>3, <1>4, <1>5, ItemsKept DEF CommandsInv

LEMMA ShadowRuns ==
  ASSUME CommandsInv, NEW o \in Outcomes,
         Recommending!RunShadow(o) \/ Recommending!RunShadowUnscoped(o)
  PROVE  CommandsInv'
<1>1. schemas \in Registries
  BY DEF CommandsInv, CommandTypes
<1>2. <<>> \in Registries
  <2>1. <<>> \in [1 .. 0 -> SchemaSet]
    <3>1. <<>> \in Seq(SchemaSet) /\ Len(<<>>) = 0
      BY EmptySeq
    <3>2. QED
      BY <3>1, LenProperties
  <2>2. 1 .. 0 \in SUBSET SchemaNames
    OBVIOUS
  <2>3. QED
    BY <2>1, <2>2 DEF Registries
<1>3. ASSUME NEW registry \in Registries
      PROVE  Recommending!ShadowRow(o, registry) \in ShadowRows \cup {None}
  <2>1. CASE o = None
    BY <2>1 DEF Recommending!ShadowRow
  <2>2. CASE o # None
    BY <2>2 DEF ShadowRows
  <2>3. QED
    BY <2>1, <2>2
<1>4. QED
  BY <1>1, <1>2, <1>3, ShadowSaved DEF Recommending!RunShadow, Recommending!RunShadowUnscoped

LEMMA CommandRecommends ==
  ASSUME CommandsInv, NEW c \in Processes, Recommending!Recommend(c)
  PROVE  CommandsInv'
<1> DEFINE drawn == Recommending!Recommendation(shadows)
           content == [seen |-> Len(shadows), decision |-> drawn.decision, shadow |-> drawn.shadow]
           r == Recommending!Row("recommendation", content)
<1>1. CommandTypes /\ shadows \in Seq(ShadowRows \cup {None})
  BY DEF CommandsInv, CommandTypes
<1>2. /\ stage' = [stage EXCEPT ![c] = "insert"]
      /\ held' = [held EXCEPT ![c].row = r]
      /\ UNCHANGED <<schemas, shadows, items, answered, original>>
  BY DEF Recommending!Recommend, Recommending!Goes, Recommending!shadowVars
<1>3. Len(shadows) \in Nat
  BY <1>1, LenProperties
<1>4. content \in Drawn /\ StandsIn(content, shadows)
  <2>1. /\ drawn.decision \in Recommending!Decisions /\ drawn.shadow \in Nat
        /\ drawn.decision = "recommend" =>
             /\ drawn.shadow \in 1 .. Len(shadows) /\ Recommending!Gains(shadows[drawn.shadow])
             /\ \A s \in 1 .. Len(shadows) :
                  \/ shadows[s] = None
                  \/ LET cmp == Recommending!ComparisonOf(shadows[s])
                     IN /\ cmp.violations = {}
                        /\ \/ Recommending!Gains(shadows[s]) \/ cmp.samples < 30
                           \/ cmp.kind = "synthetic"
    BY <1>1, RecommendationIs, Zenon
  <2> HIDE DEF drawn
  <2>2. content \in Drawn
    BY <1>3, <2>1 DEF Drawn
  <2>3. content.seen = Len(shadows) /\ content.decision = drawn.decision /\ content.shadow = drawn.shadow
    OBVIOUS
  <2> HIDE DEF content
  <2>4. content.seen \in 0 .. Len(shadows)
    BY <1>3, <2>3
  <2>5. content.decision = "recommend" =>
          /\ content.shadow \in 1 .. Len(shadows) /\ Recommending!Gains(shadows[content.shadow])
          /\ \A s \in 1 .. content.seen :
               \/ shadows[s] = None
               \/ LET cmp == Recommending!ComparisonOf(shadows[s])
                  IN /\ cmp.violations = {}
                     /\ \/ Recommending!Gains(shadows[s]) \/ cmp.samples < 30
                        \/ cmp.kind = "synthetic"
    BY <2>1, <2>3, Zenon
  <2>6. StandsIn(content, shadows)
    BY <2>4, <2>5, Zenon DEF StandsIn
  <2>7. QED
    BY <2>2, <2>6
<1> HIDE DEF content
<1>5. r \in ItemRow /\ r.kind = "recommendation" /\ r.status = "open" /\ r.content = content
  BY <1>4 DEF Recommending!Row, ItemRow, Statuses
<1> HIDE DEF r
<1>6. WillWrite(held, held', c, r, held[c].item)
  <2>1. held[c] = [row |-> held[c].row, item |-> held[c].item]
    BY <1>1 DEF CommandTypes, HeldTypes
  <2>2. [held[c] EXCEPT !.row = r] = [row |-> r, item |-> held[c].item]
    BY <2>1
  <2>3. QED
    BY <1>2, <2>2, Zenon DEF WillWrite
<1>7. /\ stage' \in [Processes -> CommandStages]
      /\ HeldTypes' /\ stage'[c] = "insert" /\ held'[c].row = r
      /\ \A d \in Processes : d = c \/ (stage'[d] = stage[d] /\ held'[d] = held[d])
  <2>1. "insert" \in CommandStages
    BY DEF CommandStages
  <2>2. MovesTo(stage, stage', c, "insert")
    BY <1>2 DEF MovesTo
  <2>3. /\ stage' \in [Processes -> CommandStages] /\ HeldTypes'
        /\ stage'[c] = "insert" /\ held'[c] = [row |-> r, item |-> held[c].item]
        /\ \A d \in Processes : d = c \/ (stage'[d] = stage[d] /\ held'[d] = held[d])
    BY <1>6, <2>1, <2>2, CommandMoves
  <2>4. QED
    BY <2>3
<1>8. CommandIs(stage'[c], held'[c], items', shadows')
  <2>1. StandsIn(held'[c].row.content, shadows')
    BY <1>2, <1>4, <1>5, <1>7
  <2>2. QED
    BY <1>5, <1>7, <2>1 DEF CommandIs
<1>9. Extended
  BY <1>2 DEF Extended
<1>10. \A d \in Processes : CommandIs(stage'[d], held'[d], items', shadows')
  BY <1>2, <1>7, <1>8, <1>9, CommandsKept
<1>11. CommandTypes'
  BY <1>1, <1>2, <1>7 DEF CommandTypes
<1>12. QED
  BY <1>2, <1>9, <1>10, <1>11, ItemsKept DEF CommandsInv

\* An item is created, open and as nobody has answered it.
LEMMA ItemCreated ==
  ASSUME CommandsInv, NEW row \in ItemRow, Recommending!Creates(row), row.status = "open",
         row.kind = "recommendation" => StandsIn(row.content, shadows),
         row.kind = "suggestion" => Suits(row.content), UNCHANGED shadows
  PROVE  /\ items' \in Seq(ItemRow) /\ original' \in Seq(ItemRow)
         /\ answered' \in Seq(SUBSET Recommending!Answers)
         /\ Len(original') = Len(items') /\ Len(answered') = Len(items')
         /\ \A i \in DOMAIN items' : ItemIs(items'[i], original'[i], answered'[i], shadows')
         /\ DOMAIN items \subseteq DOMAIN items'
         /\ \A i \in DOMAIN items : /\ items'[i].kind = items[i].kind
                                    /\ items'[i].content = items[i].content
<1>1. /\ items \in Seq(ItemRow) /\ original \in Seq(ItemRow)
      /\ answered \in Seq(SUBSET Recommending!Answers)
      /\ Len(original) = Len(items) /\ Len(answered) = Len(items)
  BY DEF CommandsInv, CommandTypes
<1>2. items' = Append(items, row) /\ answered' = Append(answered, {}) /\ original' = Append(original, row)
  BY DEF Recommending!Creates
<1>3. Len(items) \in Nat /\ DOMAIN items = 1 .. Len(items)
  BY <1>1, LenProperties
<1>4. /\ items' \in Seq(ItemRow) /\ Len(items') = Len(items) + 1 /\ items'[Len(items) + 1] = row
      /\ \A i \in 1 .. Len(items) : items'[i] = items[i]
  BY <1>1, <1>2, AppendProperties
<1>5. /\ original' \in Seq(ItemRow) /\ Len(original') = Len(items) + 1
      /\ original'[Len(items) + 1] = row /\ \A i \in 1 .. Len(items) : original'[i] = original[i]
  BY <1>1, <1>2, AppendProperties
<1>6. /\ answered' \in Seq(SUBSET Recommending!Answers) /\ Len(answered') = Len(items) + 1
      /\ answered'[Len(items) + 1] = {} /\ \A i \in 1 .. Len(items) : answered'[i] = answered[i]
  <2>1. {} \in SUBSET Recommending!Answers
    OBVIOUS
  <2>2. QED
    BY <1>1, <1>2, <2>1, AppendProperties
<1>7. DOMAIN items' = 1 .. Len(items) + 1
  BY <1>4, LenProperties
<1>8. ItemIs(row, row, {}, shadows)
  <2>1. row = [kind |-> row.kind, status |-> "open", content |-> row.content]
    BY DEF ItemRow
  <2>2. QED
    BY <2>1 DEF ItemIs, Recommending!Row
<1>9. ASSUME NEW i \in DOMAIN items'
      PROVE  ItemIs(items'[i], original'[i], answered'[i], shadows')
  <2>1. CASE i \in 1 .. Len(items)
    <3>1. ItemIs(items[i], original[i], answered[i], shadows)
      BY <1>3, <2>1 DEF CommandsInv
    <3>2. QED
      BY <1>4, <1>5, <1>6, <2>1, <3>1
  <2>2. CASE i = Len(items) + 1
    BY <1>4, <1>5, <1>6, <1>8, <2>2, Zenon
  <2>3. QED
    BY <1>3, <1>7, <1>9, <2>1, <2>2
<1>10. QED
  BY <1>3, <1>4, <1>5, <1>6, <1>7, <1>9

LEMMA ItemAdded ==
  ASSUME CommandsInv, NEW row \in ItemRow, Recommending!Creates(row), row.status = "open",
         row.kind # "recommendation", row.kind = "suggestion" => Suits(row.content),
         UNCHANGED <<stage, held, schemas, shadows>>
  PROVE  CommandsInv'
<1>1. /\ items' \in Seq(ItemRow) /\ original' \in Seq(ItemRow)
      /\ answered' \in Seq(SUBSET Recommending!Answers)
      /\ Len(original') = Len(items') /\ Len(answered') = Len(items')
      /\ \A i \in DOMAIN items' : ItemIs(items'[i], original'[i], answered'[i], shadows')
      /\ DOMAIN items \subseteq DOMAIN items'
      /\ \A i \in DOMAIN items : /\ items'[i].kind = items[i].kind
                                 /\ items'[i].content = items[i].content
  BY ItemCreated
<1>2. CommandTypes'
  BY <1>1 DEF CommandsInv, CommandTypes, HeldTypes
<1>3. Extended
  BY DEF Extended
<1>4. \A d \in Processes : CommandIs(stage'[d], held'[d], items', shadows')
  <2>1. ASSUME NEW d \in Processes PROVE CommandIs(stage'[d], held'[d], items', shadows')
    <3>1. CommandIs(stage[d], held[d], items, shadows)
      BY DEF CommandsInv
    <3>2. QED
      BY <1>1, <3>1 DEF CommandIs
  <2>2. QED
    BY <2>1
<1>5. QED
  BY <1>1, <1>2, <1>4 DEF CommandsInv

LEMMA CommandSuggests ==
  ASSUME CommandsInv, NEW values \in Histories, Recommending!Suggest(values)
  PROVE  CommandsInv'
<1>1. PICK v \in Recommending!Suggested(values) :
        Recommending!Creates(Recommending!Suggestion(v, values))
  BY DEF Recommending!Suggest
<1> DEFINE content == [value |-> v, after |-> values]
           row == Recommending!Row("suggestion", content)
<1>2. Recommending!ValidBounds /\ UNCHANGED <<stage, held, schemas, shadows>>
  BY DEF Recommending!Suggest, Recommending!shadowVars
<1>3. v \in Int /\ Suits(content)
  BY <1>2, SuggestedSuits
<1>4. content \in Valued
  BY <1>3 DEF Valued
<1>5. Recommending!Suggestion(v, values) = row
  BY DEF Recommending!Suggestion
<1> HIDE DEF content
<1>6. row \in ItemRow /\ row.kind = "suggestion" /\ row.status = "open" /\ row.content = content
  BY <1>4 DEF Recommending!Row, ItemRow, Statuses
<1> HIDE DEF row
<1>7. QED
  BY <1>1, <1>2, <1>3, <1>5, <1>6, ItemAdded

LEMMA CommandProposes ==
  ASSUME CommandsInv, Recommending!CreateProposal
  PROVE  CommandsInv'
<1> DEFINE row == Recommending!Row("proposal", None)
<1>1. Recommending!Creates(row) /\ UNCHANGED <<stage, held, schemas, shadows>>
  BY DEF Recommending!CreateProposal, Recommending!shadowVars
<1>2. row \in ItemRow /\ row.kind = "proposal" /\ row.status = "open"
  BY DEF Recommending!Row, ItemRow, Statuses
<1> HIDE DEF row
<1>3. QED
  BY <1>1, <1>2, ItemAdded

LEMMA CommandInserts ==
  ASSUME CommandsInv, NEW c \in Processes, Recommending!InsertRecommendation(c)
  PROVE  CommandsInv'
<1>1. CommandTypes
  BY DEF CommandsInv
<1>2. /\ stage[c] = "insert" /\ stage' = [stage EXCEPT ![c] = "over"]
      /\ Recommending!Creates(held[c].row) /\ UNCHANGED <<held, schemas, shadows>>
  BY DEF Recommending!InsertRecommendation, Recommending!Goes, Recommending!shadowVars
<1>3. /\ held[c].row \in ItemRow /\ held[c].row.kind = "recommendation"
      /\ held[c].row.status = "open" /\ StandsIn(held[c].row.content, shadows)
  BY <1>2 DEF CommandsInv, CommandIs
<1>4. /\ items' \in Seq(ItemRow) /\ original' \in Seq(ItemRow)
      /\ answered' \in Seq(SUBSET Recommending!Answers)
      /\ Len(original') = Len(items') /\ Len(answered') = Len(items')
      /\ \A i \in DOMAIN items' : ItemIs(items'[i], original'[i], answered'[i], shadows')
      /\ DOMAIN items \subseteq DOMAIN items'
      /\ \A i \in DOMAIN items : /\ items'[i].kind = items[i].kind
                                 /\ items'[i].content = items[i].content
  BY <1>2, <1>3, ItemCreated
<1>5. /\ stage' \in [Processes -> CommandStages] /\ stage'[c] = "over"
      /\ \A d \in Processes : d = c \/ (stage'[d] = stage[d] /\ held'[d] = held[d])
  BY <1>1, <1>2 DEF CommandTypes, CommandStages
<1>6. CommandTypes'
  BY <1>1, <1>2, <1>4, <1>5 DEF CommandTypes, HeldTypes
<1>7. Extended
  BY <1>2 DEF Extended
<1>8. CommandIs(stage'[c], held'[c], items', shadows')
  BY <1>5 DEF CommandIs
<1>9. \A d \in Processes : CommandIs(stage'[d], held'[d], items', shadows')
  BY <1>4, <1>5, <1>7, <1>8, CommandsKept
<1>10. QED
  BY <1>4, <1>6, <1>9 DEF CommandsInv

LEMMA ItemRows ==
  ASSUME NEW row \in ItemRow, NEW answer \in Statuses
  PROVE  /\ [row EXCEPT !.status = answer] =
              [kind |-> row.kind, status |-> answer, content |-> row.content]
         /\ [row EXCEPT !.status = answer] \in ItemRow
         /\ row.status \in Statuses
BY DEF ItemRow

LEMMA CommandReadsToResolve ==
  ASSUME CommandsInv, NEW c \in Processes, NEW i \in DOMAIN items,
         NEW answer \in Recommending!Answers, Recommending!ReadToResolve(c, i, answer)
  PROVE  CommandsInv'
<1> DEFINE r == [items[i] EXCEPT !.status = answer]
<1>1. CommandTypes
  BY DEF CommandsInv
<1>2. /\ MovesTo(stage, stage', c, "save") /\ WillWrite(held, held', c, r, i)
      /\ UNCHANGED <<schemas, shadows, items, answered, original>>
  BY DEF Recommending!ReadToResolve, Recommending!Goes, Recommending!shadowVars, MovesTo, WillWrite
<1>3. r \in ItemRow /\ r.kind = items[i].kind /\ r.content = items[i].content /\ r.status = answer
  <2>1. items[i] \in ItemRow /\ answer \in Statuses
    BY <1>1, ElementOfSeq, LenProperties DEF CommandTypes, Statuses
  <2>2. r = [kind |-> items[i].kind, status |-> answer, content |-> items[i].content]
    BY <2>1 DEF ItemRow
  <2> HIDE DEF r
  <2>3. QED
    BY <2>1, <2>2 DEF ItemRow
<1> HIDE DEF r
<1>4. /\ stage' \in [Processes -> CommandStages] /\ HeldTypes' /\ stage'[c] = "save"
      /\ held'[c] = [row |-> r, item |-> i]
      /\ \A d \in Processes : d = c \/ (stage'[d] = stage[d] /\ held'[d] = held[d])
  <2>1. "save" \in CommandStages
    BY DEF CommandStages
  <2>2. QED
    BY <1>2, <2>1, CommandMoves
<1>5. CommandIs(stage'[c], held'[c], items', shadows')
  BY <1>2, <1>3, <1>4 DEF CommandIs
<1>6. Extended
  BY <1>2 DEF Extended
<1>7. \A d \in Processes : CommandIs(stage'[d], held'[d], items', shadows')
  BY <1>2, <1>4, <1>5, <1>6, CommandsKept
<1>8. CommandTypes'
  BY <1>1, <1>2, <1>4 DEF CommandTypes
<1>9. QED
  BY <1>2, <1>6, <1>7, <1>8, ItemsKept DEF CommandsInv

\* What is written differs from the item in its status, which is the answer.
LEMMA CommandWrites ==
  ASSUME CommandsInv, NEW c \in Processes, NEW kind, Recommending!Writes(c, kind)
  PROVE  CommandsInv'
<1> DEFINE i == held[c].item
           r == held[c].row
<1>1. CommandTypes
  BY DEF CommandsInv
<1>2. /\ stage[c] = "save" /\ stage' = [stage EXCEPT ![c] = "over"]
      /\ items' = [items EXCEPT ![i] = r]
      /\ answered' = [answered EXCEPT ![i] = @ \cup {r.status}]
      /\ UNCHANGED <<held, schemas, shadows, original>>
  BY DEF Recommending!Writes, Recommending!Goes, Recommending!shadowVars
<1>3. /\ i \in DOMAIN items /\ r \in ItemRow /\ r.kind = items[i].kind
      /\ r.content = items[i].content /\ r.status \in Recommending!Answers
  BY <1>2 DEF CommandsInv, CommandIs
<1> HIDE DEF i, r
<1>4. /\ items \in Seq(ItemRow) /\ original \in Seq(ItemRow)
      /\ answered \in Seq(SUBSET Recommending!Answers)
      /\ Len(original) = Len(items) /\ Len(answered) = Len(items)
  BY <1>1 DEF CommandTypes
<1>5. DOMAIN items = 1 .. Len(items) /\ DOMAIN answered = 1 .. Len(items)
  BY <1>4, LenProperties
<1>6. answered[i] \cup {r.status} \in SUBSET Recommending!Answers
  BY <1>3, <1>4, <1>5, ElementOfSeq
<1>7. /\ items' \in Seq(ItemRow) /\ Len(items') = Len(items) /\ DOMAIN items' = DOMAIN items
      /\ \A j \in DOMAIN items : items'[j] = IF j = i THEN r ELSE items[j]
  <2>1. items' \in Seq(ItemRow) /\ Len(items') = Len(items)
    BY <1>2, <1>3, <1>4, <1>5, ExceptSeq
  <2>2. DOMAIN items' = DOMAIN items /\ \A j \in DOMAIN items : items'[j] = IF j = i THEN r ELSE items[j]
    BY <1>2
  <2>3. QED
    BY <2>1, <2>2
<1>8. /\ answered' \in Seq(SUBSET Recommending!Answers) /\ Len(answered') = Len(items)
      /\ \A j \in DOMAIN items : answered'[j] = IF j = i THEN answered[i] \cup {r.status} ELSE answered[j]
  <2>1. answered' = [answered EXCEPT ![i] = answered[i] \cup {r.status}]
    BY <1>2
  <2>2. answered' \in Seq(SUBSET Recommending!Answers) /\ Len(answered') = Len(answered)
    BY <1>3, <1>4, <1>5, <1>6, <2>1, ExceptSeq
  <2>3. \A j \in DOMAIN items : answered'[j] = IF j = i THEN answered[i] \cup {r.status} ELSE answered[j]
    BY <1>5, <2>1
  <2>4. QED
    BY <1>4, <2>2, <2>3, Zenon
<1>9. \A j \in DOMAIN items : ItemIs(items[j], original[j], answered[j], shadows)
  BY DEF CommandsInv
<1>10. ItemIs(r, original[i], answered[i] \cup {r.status}, shadows)
  <2>1. ItemIs(items[i], original[i], answered[i], shadows)
    BY <1>3, <1>9
  <2>2. answered[i] \cup {r.status} # {} /\ r.status \in answered[i] \cup {r.status}
    OBVIOUS
  <2>3. QED
    BY <1>3, <2>1, <2>2 DEF ItemIs
<1>11. \A j \in DOMAIN items' : ItemIs(items'[j], original'[j], answered'[j], shadows')
  <2>1. ASSUME NEW j \in DOMAIN items PROVE ItemIs(items'[j], original'[j], answered'[j], shadows')
    <3>1. CASE j = i
      BY <1>2, <1>7, <1>8, <1>10, <3>1, Zenon
    <3>2. CASE j # i
      BY <1>2, <1>7, <1>8, <1>9, <3>2
    <3>3. QED
      BY <3>1, <3>2
  <2>2. QED
    BY <1>7, <2>1
<1>12. /\ stage' \in [Processes -> CommandStages] /\ stage'[c] = "over"
       /\ \A d \in Processes : d = c \/ (stage'[d] = stage[d] /\ held'[d] = held[d])
  BY <1>1, <1>2 DEF CommandTypes, CommandStages
<1>13. CommandIs(stage'[c], held'[c], items', shadows')
  BY <1>12 DEF CommandIs
<1>14. /\ DOMAIN items \subseteq DOMAIN items'
       /\ \A j \in DOMAIN items : items'[j].kind = items[j].kind /\ items'[j].content = items[j].content
  BY <1>3, <1>7
<1>15. Extended
  BY <1>2 DEF Extended
<1>16. \A d \in Processes : CommandIs(stage'[d], held'[d], items', shadows')
  BY <1>12, <1>13, <1>14, <1>15, CommandsKept
<1>17. CommandTypes'
  BY <1>1, <1>2, <1>4, <1>7, <1>8, <1>12 DEF CommandTypes, HeldTypes
<1>18. QED
  BY <1>11, <1>16, <1>17 DEF CommandsInv

LEMMA CommandsNext == CommandsInv /\ [Recommending!Next]_(Recommending!vars) => CommandsInv'
<1> SUFFICES ASSUME CommandsInv, [Recommending!Next]_(Recommending!vars) PROVE CommandsInv'
  OBVIOUS
<1>1. CASE UNCHANGED Recommending!vars
  BY <1>1 DEF Recommending!vars, Recommending!shadowVars, CommandsInv, CommandTypes, HeldTypes
<1>2. ASSUME NEW o \in Outcomes, Recommending!RunShadow(o) \/ Recommending!RunShadowUnscoped(o)
      PROVE  CommandsInv'
  BY <1>2, ShadowRuns
<1>3. ASSUME NEW values \in Histories, Recommending!Suggest(values) PROVE CommandsInv'
  BY <1>3, CommandSuggests
<1>4. CASE Recommending!CreateProposal
  BY <1>4, CommandProposes
<1>5. ASSUME NEW c \in Processes,
             \/ \E edit \in Edits : Recommending!ReadSchemas(c, edit)
             \/ \E edit \in Edits : Recommending!DeleteSchemas(c, {edit.name})
             \/ Recommending!DeleteSchemas(c, DOMAIN schemas)
             \/ Recommending!SaveSchemas(c) \/ Recommending!LoadDefaultQuant(c)
      PROVE  CommandsInv'
  BY <1>5, CommandReadsSchemas, CommandSavesSchemas, Zenon
<1>6. ASSUME NEW c \in Processes,
             Recommending!Recommend(c) \/ Recommending!InsertRecommendation(c)
      PROVE  CommandsInv'
  BY <1>6, CommandRecommends, CommandInserts
<1>7. ASSUME NEW c \in Processes,
             \/ Recommending!SaveRecommendation(c) \/ Recommending!SaveSuggestion(c)
             \/ Recommending!SaveProposal(c)
      PROVE  CommandsInv'
  BY <1>7, CommandWrites DEF Recommending!SaveRecommendation, Recommending!SaveSuggestion,
                             Recommending!SaveProposal
<1>8. ASSUME NEW c \in Processes, NEW i \in DOMAIN items, NEW answer \in Recommending!Answers,
             Recommending!ReadToResolve(c, i, answer)
      PROVE  CommandsInv'
  BY <1>8, CommandReadsToResolve
<1>9. CASE Recommending!Next
  BY <1>2, <1>3, <1>4, <1>5, <1>6, <1>7, <1>8, <1>9 DEF Recommending!Next
<1>10. QED
  BY <1>1, <1>9

LEMMA CommandsHaveTypes == CommandsInv => Recommending!TypeOK
<1> SUFFICES ASSUME CommandsInv PROVE Recommending!TypeOK
  OBVIOUS
<1>1. /\ stage \in [Processes -> CommandStages]
      /\ schemas \in Registries
      /\ shadows \in Seq(ShadowRows \cup {None})
      /\ items \in Seq(ItemRow) /\ original \in Seq(ItemRow)
      /\ answered \in Seq(SUBSET Recommending!Answers)
      /\ Len(original) = Len(items) /\ Len(answered) = Len(items)
  BY DEF CommandsInv, CommandTypes
<1>2. \A c \in Processes : stage[c] = "save" => held[c].item \in DOMAIN items
  BY DEF CommandsInv, CommandIs
<1>3. DOMAIN schemas \subseteq {e.name : e \in Edits} \cup DOMAIN Recommending!DefaultQuant
  BY <1>1 DEF Registries, SchemaNames
<1>4. ASSUME NEW s \in DOMAIN shadows, shadows[s] # None
      PROVE  \E o \in Outcomes \ {None} : shadows[s] = Recommending!ShadowRow(o, shadows[s].schema)
  <2>1. shadows[s] \in ShadowRows
    BY <1>1, <1>4, LenProperties, ElementOfSeq
  <2>2. PICK o \in Outcomes \ {None}, registry \in Registries :
               shadows[s] = Recommending!ShadowRow(o, registry)
    BY <2>1 DEF ShadowRows
  <2>3. shadows[s].schema = registry
    BY <2>2 DEF Recommending!ShadowRow
  <2>4. QED
    BY <2>2, <2>3
<1>5. ASSUME NEW i \in DOMAIN items
      PROVE  /\ items[i].kind \in {"recommendation", "suggestion", "proposal"}
             /\ items[i].status \in Recommending!Answers \cup {"open"}
             /\ items[i].kind = "recommendation" =>
                  items[i].content.decision \in Recommending!Decisions
  <2>1. items[i] \in ItemRow
    BY <1>1, LenProperties, ElementOfSeq
  <2>2. QED
    BY <2>1 DEF ItemRow, Drawn, Statuses
<1>6. answered \in [DOMAIN items -> SUBSET Recommending!Answers] /\ DOMAIN original = DOMAIN items
  BY <1>1, LenProperties
<1>7. QED
  BY <1>1, <1>2, <1>3, <1>4, <1>5, <1>6 DEF CommandStages, Recommending!TypeOK

LEMMA CommandsHold == CommandsInv => Recommending!RecommendationsStand
<1> SUFFICES ASSUME CommandsInv, NEW i \in DOMAIN items
             PROVE  LET row == items[i] IN
               /\ row.kind = "recommendation" /\ row.content.decision = "recommend" =>
                    /\ Recommending!Gains(shadows[row.content.shadow])
                    /\ \A s \in 1 .. row.content.seen :
                         \/ shadows[s] = None
                         \/ LET cmp == Recommending!ComparisonOf(shadows[s])
                            IN /\ cmp.violations = {}
                               /\ \/ Recommending!Gains(shadows[s]) \/ cmp.samples < 30
                                  \/ cmp.kind = "synthetic"
               /\ row.kind = "suggestion" =>
                    /\ row.content.value \in Bounds.minimum .. Bounds.maximum
                    /\ LET past == {row.content.after[k] : k \in DOMAIN row.content.after}
                       IN Recommending!Cardinality(past \cap Bounds.minimum .. Bounds.maximum) >= 2 =>
                            row.content.value \notin past \/ Recommending!Grid \subseteq past
               /\ answered[i] # {} =>
                    row.status \in answered[i] /\ (Recommending!Listed(i) => row.kind = "proposal")
               /\ [row EXCEPT !.status = "open"] = original[i]
  BY Zenon DEF Recommending!RecommendationsStand
<1> DEFINE row == items[i]
<1>1. ItemIs(row, original[i], answered[i], shadows)
  BY DEF CommandsInv
<1>2. row \in ItemRow /\ answered[i] \in SUBSET Recommending!Answers
  <2>1. /\ items \in Seq(ItemRow) /\ answered \in Seq(SUBSET Recommending!Answers)
        /\ Len(answered) = Len(items)
    BY DEF CommandsInv, CommandTypes
  <2>2. i \in 1 .. Len(items)
    BY <2>1, LenProperties
  <2>3. QED
    BY <2>1, <2>2, ElementOfSeq
<1>3. Recommending!Listed(i) => row.status = "open" \/ row.kind = "proposal"
  BY DEF Recommending!Listed
<1> HIDE DEF row
<1>4. [row EXCEPT !.status = "open"] = original[i]
  <2>1. "open" \in Statuses
    BY DEF Statuses
  <2>2. [row EXCEPT !.status = "open"] = [kind |-> row.kind, status |-> "open", content |-> row.content]
    BY <1>2, <2>1, ItemRows
  <2>3. QED
    BY <1>1, <2>2 DEF ItemIs, Recommending!Row
<1>5. answered[i] # {} =>
        row.status \in answered[i] /\ (Recommending!Listed(i) => row.kind = "proposal")
  BY <1>1, <1>2, <1>3 DEF ItemIs, Recommending!Answers
<1>6. row.kind = "recommendation" => StandsIn(row.content, shadows)
  BY <1>1 DEF ItemIs
<1>7. row.kind = "suggestion" => Suits(row.content)
  BY <1>1 DEF ItemIs
<1>8. QED
  BY <1>4, <1>5, <1>6, <1>7, Zenon DEF StandsIn, Suits, row

-----------------------------------------------------------------------------
(* LearningLoop *)

LEMMA LearningCardinality == \A S : Learning!Cardinality(S) = Cardinality(S)
BY DEF Learning!Cardinality, Cardinality

\* A finite set whose elements each have others before them, none itself, and those
\* before it before whatever comes after it, is numbered by how many there are before.
LEMMA PlacesNumber ==
  ASSUME NEW S, IsFiniteSet(S), NEW before \in [S -> SUBSET S],
         \A x \in S : x \notin before[x],
         \A x, y \in S : y \in before[x] => before[y] \subseteq before[x],
         \A x, y \in S : x # y => y \in before[x] \/ x \in before[y]
  PROVE  /\ Cardinality(S) \in Nat
         /\ \A x \in S : Cardinality(before[x]) \in Nat
                        /\ Cardinality(before[x]) + 1 \in 1 .. Cardinality(S)
         /\ \A x, y \in S : Cardinality(before[x]) = Cardinality(before[y]) => x = y
         /\ \A k \in 1 .. Cardinality(S) : \E x \in S : Cardinality(before[x]) = k - 1
<1> DEFINE n == Cardinality(S)
           place == [x \in S |-> Cardinality(before[x]) + 1]
<1>1. n \in Nat
  BY FS_CardinalityType
<1>2. ASSUME NEW x \in S
      PROVE  IsFiniteSet(before[x]) /\ Cardinality(before[x]) \in Nat /\ Cardinality(before[x]) < n
  <2>1. before[x] \in SUBSET S
    OBVIOUS
  <2>2. IsFiniteSet(before[x]) /\ Cardinality(before[x]) <= n /\ (n = Cardinality(before[x]) => S = before[x])
    BY <2>1, FS_Subset
  <2>3. before[x] # S
    OBVIOUS
  <2>4. Cardinality(before[x]) \in Nat
    BY <2>2, FS_CardinalityType
  <2>5. QED
    BY <1>1, <2>2, <2>3, <2>4
<1>3. ASSUME NEW x \in S, NEW y \in S, y \in before[x]
      PROVE  Cardinality(before[y]) < Cardinality(before[x])
  <2>1. before[y] \in SUBSET before[x] /\ before[y] # before[x]
    BY <1>3
  <2>2. Cardinality(before[y]) <= Cardinality(before[x])
        /\ (Cardinality(before[x]) = Cardinality(before[y]) => before[x] = before[y])
    BY <1>2, <2>1, FS_Subset
  <2>3. QED
    BY <1>2, <2>1, <2>2
<1>4. \A x, y \in S : Cardinality(before[x]) = Cardinality(before[y]) => x = y
  <2>1. SUFFICES ASSUME NEW x \in S, NEW y \in S, x # y
                 PROVE  Cardinality(before[x]) # Cardinality(before[y])
    OBVIOUS
  <2>2. CASE y \in before[x]
    BY <1>2, <1>3, <2>2
  <2>3. CASE x \in before[y]
    BY <1>2, <1>3, <2>3
  <2>4. QED
    BY <2>1, <2>2, <2>3
<1>5. \A x \in S : Cardinality(before[x]) + 1 \in 1 .. n
  BY <1>1, <1>2
<1>6. place \in Injection(S, 1 .. n)
  <2>1. place \in [S -> 1 .. n]
    BY <1>5
  <2>2. \A x, y \in S : place[x] = place[y] => x = y
    BY <1>2, <1>4
  <2> HIDE DEF place
  <2>3. QED
    BY <2>1, <2>2, Fun_IsInj, Zenon
<1>7. IsFiniteSet(1 .. n) /\ Cardinality(1 .. n) = n
  BY <1>1, FS_Interval
<1>8. place \in Surjection(S, 1 .. n)
  <2> HIDE DEF place
  <2>1. QED
    BY <1>6, <1>7, FS_Injection
<1>9. \A k \in 1 .. n : \E x \in S : place[x] = k
  <2> HIDE DEF place
  <2>1. QED
    BY <1>8 DEF Surjection
<1>10. ASSUME NEW k \in 1 .. n PROVE \E x \in S : Cardinality(before[x]) = k - 1
  <2>1. PICK x \in S : place[x] = k
    BY <1>9
  <2>2. Cardinality(before[x]) + 1 = k /\ Cardinality(before[x]) \in Nat
    BY <1>2, <2>1
  <2>3. QED
    BY <1>1, <2>2
<1>11. QED
  BY <1>1, <1>2, <1>4, <1>5, <1>10

Titles == {MetricThresholds[k].metric : k \in DOMAIN MetricThresholds} \cup DecisionKinds
Observed == [type : {"metric_anomaly", "decision_pattern"}, title : Titles, source : Nat]

\* What an observation says is in the summaries of the scenario or in its decisions.
Seen(o, logs, choices) ==
  IF o.type = "metric_anomaly"
  THEN /\ o.source \in DOMAIN logs /\ o.title \in DOMAIN logs[o.source].verdict.metrics
       /\ \E k \in DOMAIN MetricThresholds :
            /\ MetricThresholds[k].metric = o.title
            /\ logs[o.source].verdict.metrics[o.title] < MetricThresholds[k].at
  ELSE /\ o.source \in DOMAIN choices /\ choices[o.source] = o.title
       /\ o.title \notin {"approve", "system"}

LEMMA FrictionsAreSeen ==
  ASSUME decisions \in Seq(DecisionKinds)
  PROVE  /\ Learning!Frictions \in Seq(Observed)
         /\ \A k \in 1 .. Len(Learning!Frictions) : Seen(Learning!Frictions[k], summaries, decisions)
<1> DEFINE K == {i \in DOMAIN decisions : decisions[i] \in {"reject", "blocked", "error"}}
           before == [i \in K |-> {j \in K : j < i}]
           against == Learning!InOrder(K, LAMBDA i, j : i < j)
<1>1. K \subseteq 1 .. Len(decisions) /\ Len(decisions) \in Nat
  OBVIOUS
<1>2. IsFiniteSet(K)
  BY <1>1, FS_Interval, FS_Subset
<1>3. /\ before \in [K -> SUBSET K] /\ \A i \in K : i \notin before[i]
      /\ \A i, j \in K : j \in before[i] => before[j] \subseteq before[i]
      /\ \A i, j \in K : i # j => j \in before[i] \/ i \in before[j]
  BY <1>1
<1>4. /\ Cardinality(K) \in Nat
      /\ \A k \in 1 .. Cardinality(K) : \E i \in K : Cardinality(before[i]) = k - 1
  <2> HIDE DEF K, before
  <2>1. QED
    BY <1>2, <1>3, PlacesNumber
<1>5. \A k \in 1 .. Cardinality(K) : \E i \in K : Cardinality({j \in K : j < i}) = k - 1
  <2> HIDE DEF K
  <2>1. QED
    BY <1>4, Zenon
<1>6. DOMAIN against = 1 .. Cardinality(K) /\ \A k \in 1 .. Cardinality(K) : against[k] \in K
  <2> HIDE DEF K
  <2>1. QED
    BY <1>4, <1>5, LearningCardinality, Zenon DEF Learning!InOrder
<1>7. Learning!Frictions
        = [k \in 1 .. Cardinality(K) |->
             [type |-> "decision_pattern", title |-> decisions[against[k]], source |-> against[k]]]
  BY <1>6, Zenon DEF Learning!Frictions
<1> HIDE DEF against
<1>8. ASSUME NEW k \in 1 .. Cardinality(K)
      PROVE  /\ Learning!Frictions[k] \in Observed
             /\ Seen(Learning!Frictions[k], summaries, decisions)
  <2>1. against[k] \in K
    BY <1>6
  <2>2. QED
    BY <1>1, <1>7, <2>1 DEF Observed, Titles, Seen
<1> HIDE DEF K
<1>9. Learning!Frictions \in Seq(Observed) /\ Len(Learning!Frictions) = Cardinality(K)
  BY <1>4, <1>7, <1>8
<1>10. QED
  BY <1>8, <1>9

LEMMA AnomaliesAreSeen ==
  ASSUME Len(summaries) \in Nat, DOMAIN summaries = 1 .. Len(summaries)
  PROVE  /\ Learning!Anomalies \in Seq(Observed)
         /\ \A k \in 1 .. Len(Learning!Anomalies) : Seen(Learning!Anomalies[k], summaries, decisions)
<1> DEFINE m == Len(MetricThresholds)
           metrics(p) == summaries[p[1]].verdict.metrics
           metric(p) == MetricThresholds[p[2]].metric
           Low(p) == /\ metric(p) \in DOMAIN metrics(p) /\ metrics(p)[metric(p)] # None
                     /\ metrics(p)[metric(p)] < MetricThresholds[p[2]].at
           pairs == (1 .. Len(summaries)) \X (1 .. m)
           K == {p \in pairs : Low(p)}
           before == [p \in K |-> {q \in K : Learning!Earlier(q, p)}]
           low == Learning!InOrder(K, Learning!Earlier)
<1>1. m \in Nat /\ DOMAIN MetricThresholds = 1 .. m
  BY LearningAssumption DEF LearningAssumption
<1>2. IsFiniteSet(K)
  <2>1. IsFiniteSet(pairs)
    <3>1. IsFiniteSet(1 .. Len(summaries)) /\ IsFiniteSet(1 .. m)
      BY <1>1, FS_Interval
    <3>2. QED
      BY <3>1, FS_Product, Zenon
  <2>2. K \in SUBSET pairs
    OBVIOUS
  <2> HIDE DEF K, pairs
  <2>3. QED
    BY <2>1, <2>2, FS_Subset
<1>3. \A p \in K : p[1] \in 1 .. Len(summaries) /\ p[2] \in 1 .. m /\ p = <<p[1], p[2]>> /\ Low(p)
  OBVIOUS
<1>4. /\ before \in [K -> SUBSET K] /\ \A p \in K : p \notin before[p]
      /\ \A p, q \in K : q \in before[p] => before[q] \subseteq before[p]
      /\ \A p, q \in K : p # q => q \in before[p] \/ p \in before[q]
  <2> HIDE DEF K
  <2>1. \A p \in K : p[1] \in Nat /\ p[2] \in Nat /\ p = <<p[1], p[2]>>
    BY <1>1, <1>3
  <2>2. \A p, q \in K : q \in before[p] <=> q[1] < p[1] \/ (q[1] = p[1] /\ q[2] < p[2])
    BY DEF Learning!Earlier
  <2>3. before \in [K -> SUBSET K]
    OBVIOUS
  <2> HIDE DEF before
  <2>4. \A p \in K : p \notin before[p]
    BY <2>1, <2>2
  <2>5. ASSUME NEW p \in K, NEW q \in K, q \in before[p], NEW r \in before[q] PROVE r \in before[p]
    <3>1. r \in K
      BY <2>3, <2>5
    <3>2. QED
      BY <2>1, <2>2, <2>5, <3>1
  <2>6. \A p, q \in K : p # q => q \in before[p] \/ p \in before[q]
    BY <2>1, <2>2
  <2>7. QED
    BY <2>3, <2>4, <2>5, <2>6
<1>5. /\ Cardinality(K) \in Nat
      /\ \A k \in 1 .. Cardinality(K) : \E p \in K : Cardinality(before[p]) = k - 1
  <2> HIDE DEF K, before
  <2>1. QED
    BY <1>2, <1>4, PlacesNumber
<1>6. \A k \in 1 .. Cardinality(K) : \E p \in K : Cardinality({q \in K : Learning!Earlier(q, p)}) = k - 1
  <2> HIDE DEF K
  <2>1. QED
    BY <1>5, Zenon
<1>7. DOMAIN low = 1 .. Cardinality(K) /\ \A k \in 1 .. Cardinality(K) : low[k] \in K
  <2> HIDE DEF K
  <2>1. QED
    BY <1>5, <1>6, LearningCardinality, Zenon DEF Learning!InOrder
<1>8. Learning!Anomalies
        = [k \in 1 .. Cardinality(K) |->
             [type |-> "metric_anomaly", title |-> MetricThresholds[low[k][2]].metric,
              source |-> low[k][1]]]
  BY <1>1, <1>7, Zenon DEF Learning!Anomalies
<1> HIDE DEF low
<1>9. ASSUME NEW k \in 1 .. Cardinality(K)
      PROVE  /\ Learning!Anomalies[k] \in Observed
             /\ Seen(Learning!Anomalies[k], summaries, decisions)
  <2> DEFINE p == low[k]
  <2>1. p \in K
    BY <1>7, Zenon
  <2>2. p[1] \in 1 .. Len(summaries) /\ p[2] \in 1 .. m /\ Low(p)
    BY <1>3, <2>1, Zenon
  <2> HIDE DEF p, K, m
  <2>3. Learning!Anomalies[k] = [type |-> "metric_anomaly", title |-> metric(p), source |-> p[1]]
    BY <1>8 DEF p
  <2>4. metric(p) \in Titles
    BY <1>1, <2>2 DEF Titles
  <2>5. Learning!Anomalies[k] \in Observed
    BY <2>2, <2>3, <2>4 DEF Observed
  <2>6. Seen(Learning!Anomalies[k], summaries, decisions)
    <3> DEFINE o == Learning!Anomalies[k]
    <3>1. o.type = "metric_anomaly" /\ o.title = metric(p) /\ o.source = p[1]
      BY <2>3
    <3> HIDE DEF o
    <3>2. Seen(o, summaries, decisions)
      BY <1>1, <2>2, <3>1, Zenon DEF Seen
    <3>3. QED
      BY <3>2 DEF o
  <2>7. QED
    BY <2>5, <2>6
<1> HIDE DEF K
<1>10. Learning!Anomalies \in Seq(Observed) /\ Len(Learning!Anomalies) = Cardinality(K)
  BY <1>5, <1>8, <1>9
<1>11. QED
  BY <1>9, <1>10

LEMMA AggregateKeeps ==
  ASSUME NEW s \in Seq(Observed)
  PROVE  /\ Learning!Aggregate(s) \in Seq(Observed)
         /\ \A k \in 1 .. Len(Learning!Aggregate(s)) :
              \E i \in 1 .. Len(s) : Learning!Aggregate(s)[k] = s[i]
<1> DEFINE Same(i, j) == s[i].type = s[j].type /\ s[i].title = s[j].title
           K == {i \in DOMAIN s : \A j \in 1 .. i - 1 : ~Same(i, j)}
           before == [i \in K |-> {j \in K : j > i}]
           latest == Learning!InOrder(K, LAMBDA i, j : i > j)
           n == IF Cardinality(K) < MaxObserved THEN Cardinality(K) ELSE MaxObserved
<1>1. K \subseteq 1 .. Len(s) /\ Len(s) \in Nat
  OBVIOUS
<1>2. Learning!Aggregate(s) = [k \in 1 .. n |-> s[latest[k]]]
  BY LearningCardinality DEF Learning!Aggregate
<1> HIDE DEF K
<1>3. IsFiniteSet(K)
  <2>1. IsFiniteSet(1 .. Len(s)) /\ K \in SUBSET (1 .. Len(s))
    BY <1>1, FS_Interval
  <2>2. QED
    BY <2>1, FS_Subset, Zenon
<1>4. /\ before \in [K -> SUBSET K] /\ \A i \in K : i \notin before[i]
      /\ \A i, j \in K : j \in before[i] => before[j] \subseteq before[i]
      /\ \A i, j \in K : i # j => j \in before[i] \/ i \in before[j]
  <2>1. \A i \in K : i \in Nat
    BY <1>1
  <2>2. before \in [K -> SUBSET K] /\ \A i, j \in K : j \in before[i] <=> j > i
    OBVIOUS
  <2> HIDE DEF before
  <2>3. QED
    BY <2>1, <2>2
<1>5. /\ Cardinality(K) \in Nat
      /\ \A k \in 1 .. Cardinality(K) : \E i \in K : Cardinality(before[i]) = k - 1
  <2> HIDE DEF before
  <2>1. QED
    BY <1>3, <1>4, PlacesNumber
<1>6. \A k \in 1 .. Cardinality(K) : \E i \in K : Cardinality({j \in K : j > i}) = k - 1
  BY <1>5, Zenon
<1>7. \A k \in 1 .. Cardinality(K) : latest[k] \in K
  BY <1>5, <1>6, LearningCardinality, Zenon DEF Learning!InOrder
<1>8. n \in Nat /\ n <= Cardinality(K)
  BY <1>5, LearningAssumption DEF LearningAssumption
<1> HIDE DEF latest, n
<1>9. \A k \in 1 .. n : latest[k] \in 1 .. Len(s) /\ s[latest[k]] \in Observed
  <2>1. \A k \in 1 .. n : k \in 1 .. Cardinality(K)
    BY <1>5, <1>8
  <2>2. \A i \in 1 .. Len(s) : s[i] \in Observed
    OBVIOUS
  <2>3. \A k \in 1 .. n : latest[k] \in K
    BY <1>7, <2>1
  <2>4. QED
    BY <1>1, <2>2, <2>3, Zenon
<1>10. Learning!Aggregate(s) \in Seq(Observed) /\ Len(Learning!Aggregate(s)) = n
  BY <1>2, <1>8, <1>9
<1>11. QED
  BY <1>2, <1>9, <1>10, Zenon

LEMMA FindingsAreNumbered ==
  ASSUME NEW c
  PROVE  /\ Len(Learning!Findings(c)) \in Nat
         /\ DOMAIN Learning!Findings(c) = 1 .. Len(Learning!Findings(c))
<1> DEFINE rules == <<"guardrail", "cooldown", "budget", "refactor">>
           holds == [guardrail |-> c.target \in Blocked, cooldown |-> c.target \in Cooldown,
                     budget |-> RemainingBudget <= 0, refactor |-> c.operation \in {"compress", "refactor"}]
           K == {n \in DOMAIN rules : holds[rules[n]]}
           found == Learning!InOrder(K, LAMBDA i, j : i < j)
<1>1. Learning!Findings(c) = [k \in DOMAIN found |-> rules[found[k]]]
  BY DEF Learning!Findings
<1>2. IsFiniteSet(K)
  <2>1. IsFiniteSet(1 .. 4)
    <3>1. \A n \in Nat : IsFiniteSet(1 .. n)
      BY FS_Interval
    <3>2. QED
      BY <3>1, Zenon
  <2>2. K \in SUBSET (1 .. 4)
    <3>1. DOMAIN rules = 1 .. 4
      OBVIOUS
    <3> HIDE DEF rules, holds
    <3>2. QED
      BY <3>1
  <2> HIDE DEF K
  <2>3. QED
    BY <2>1, <2>2, FS_Subset, Zenon
<1> HIDE DEF K
<1>3. Cardinality(K) \in Nat
  BY <1>2, FS_CardinalityType
<1>4. DOMAIN found = 1 .. Cardinality(K)
  BY LearningCardinality DEF Learning!InOrder
<1> HIDE DEF found
<1>5. QED
  BY <1>1, <1>3, <1>4

LEMMA FinitePlaces ==
  ASSUME NEW obs \in Seq(Observed), NEW K \in SUBSET Learning!Candidates(obs)
  PROVE  IsFiniteSet(K) /\ \A p \in K : p[1] \in Nat /\ p[2] \in Nat /\ p = <<p[1], p[2]>>
<1> DEFINE pairs == (1 .. Len(obs)) \X {1, 2}
<1>1. Len(obs) \in Nat /\ K \in SUBSET pairs
  BY DEF Learning!Candidates
<1>2. IsFiniteSet(1 .. Len(obs)) /\ IsFiniteSet({1, 2})
  <2>1. IsFiniteSet(1 .. 2)
    <3>1. \A n \in Nat : IsFiniteSet(1 .. n)
      BY FS_Interval
    <3>2. QED
      BY <3>1, Zenon
  <2>2. 1 .. 2 = {1, 2}
    OBVIOUS
  <2>3. IsFiniteSet(1 .. Len(obs))
    BY <1>1, FS_Interval
  <2>4. QED
    BY <2>1, <2>2, <2>3
<1>3. IsFiniteSet(pairs)
  BY <1>2, FS_Product
<1>4. \A p \in K : p[1] \in Nat /\ p[2] \in Nat /\ p = <<p[1], p[2]>>
  BY <1>1
<1> HIDE DEF pairs
<1>5. IsFiniteSet(K)
  BY <1>1, <1>3, FS_Subset
<1>6. QED
  BY <1>4, <1>5

LEMMA OutrankingNumbers ==
  ASSUME NEW obs \in Seq(Observed), NEW K \in SUBSET Learning!Candidates(obs)
  PROVE  /\ Cardinality(K) \in Nat
         /\ \A p, q \in K : p # q => Learning!Outranks(obs, q, p) \/ Learning!Outranks(obs, p, q)
         /\ \A p \in K : ~Learning!Outranks(obs, p, p)
         /\ LET place(p) == Cardinality({q \in K : Learning!Outranks(obs, q, p)}) IN
            /\ \A p \in K : place(p) \in Nat /\ place(p) + 1 \in 1 .. Cardinality(K)
            /\ \A p, q \in K : place(p) = place(q) => p = q
            /\ \A k \in 1 .. Cardinality(K) : \E p \in K : place(p) = k - 1
<1> DEFINE score(p) == Learning!Score(Learning!CandidateAt(obs, p))
           before == [p \in K |-> {q \in K : Learning!Outranks(obs, q, p)}]
<1>1. \A p : score(p) \in Nat
  BY DEF Learning!Score
<1>3. IsFiniteSet(K) /\ \A p \in K : p[1] \in Nat /\ p[2] \in Nat /\ p = <<p[1], p[2]>>
  BY FinitePlaces, Zenon
<1>4. \A p \in K : p[1] \in Nat /\ p[2] \in Nat /\ p = <<p[1], p[2]>>
  BY <1>3
<1>5. \A p, q \in K :
        Learning!Outranks(obs, q, p)
          <=> \/ score(q) > score(p)
              \/ /\ score(q) = score(p)
                 /\ q[1] < p[1] \/ (q[1] = p[1] /\ q[2] < p[2])
  BY DEF Learning!Outranks, Learning!Earlier
<1> HIDE DEF score
<1>6. \A p, q, r \in K :
        Learning!Outranks(obs, r, q) /\ Learning!Outranks(obs, q, p) => Learning!Outranks(obs, r, p)
  BY <1>1, <1>4, <1>5
<1>7. \A p, q \in K : p # q => Learning!Outranks(obs, q, p) \/ Learning!Outranks(obs, p, q)
  BY <1>1, <1>4, <1>5
<1>8. \A p \in K : ~Learning!Outranks(obs, p, p)
  BY <1>1, <1>4, <1>5
<1>9. /\ before \in [K -> SUBSET K] /\ \A p \in K : p \notin before[p]
      /\ \A p, q \in K : q \in before[p] => before[q] \subseteq before[p]
      /\ \A p, q \in K : p # q => q \in before[p] \/ p \in before[q]
  BY <1>6, <1>7, <1>8
<1>10. /\ Cardinality(K) \in Nat
       /\ \A p \in K : Cardinality(before[p]) \in Nat /\ Cardinality(before[p]) + 1 \in 1 .. Cardinality(K)
       /\ \A p, q \in K : Cardinality(before[p]) = Cardinality(before[q]) => p = q
       /\ \A k \in 1 .. Cardinality(K) : \E p \in K : Cardinality(before[p]) = k - 1
  <2> HIDE DEF before
  <2>1. QED
    BY <1>3, <1>9, PlacesNumber
<1>11. \A p \in K : before[p] = {q \in K : Learning!Outranks(obs, q, p)}
  OBVIOUS
<1> HIDE DEF before
<1>12. QED
  BY <1>7, <1>8, <1>10, <1>11, Zenon

LEMMA ProposalsSuit ==
  ASSUME NEW obs \in Seq(Observed)
  PROVE  LET cs == Learning!Proposals(obs) IN
         /\ Len(cs) \in Nat /\ DOMAIN cs = 1 .. Len(cs)
         /\ \A k \in 1 .. Len(cs) : \E i \in 1 .. Len(obs) : cs[k].of = obs[i]
         /\ \A k, l \in 1 .. Len(cs) : cs[k].target = cs[l].target => k = l
         /\ \A i \in 1 .. Len(obs) : obs[i].type = "metric_anomaly" =>
              \E k \in 1 .. Len(cs) : cs[k].target = obs[i].title
<1> DEFINE C == Learning!Candidates(obs)
           K == Learning!FilterConflicts(obs)
           cand(p) == Learning!CandidateAt(obs, p)
           place(p) == Cardinality({q \in K : Learning!Outranks(obs, q, p)})
           kept == Learning!InOrder(K, LAMBDA p, q : Learning!Outranks(obs, p, q))
           n == Cardinality(K)
           cs == Learning!Proposals(obs)
<1>1. K = {p \in C : \A q \in C : cand(q).target = cand(p).target => ~Learning!Outranks(obs, q, p)}
  BY DEF Learning!FilterConflicts
<1>2. cs = [k \in DOMAIN kept |-> cand(kept[k])]
  BY DEF Learning!Proposals
<1> HIDE DEF C, K
<1>3. K \in SUBSET C
  BY <1>1
<1>4. /\ n \in Nat
      /\ \A p \in K : place(p) \in Nat /\ place(p) + 1 \in 1 .. n
      /\ \A p, q \in K : place(p) = place(q) => p = q
      /\ \A k \in 1 .. n : \E p \in K : place(p) = k - 1
  BY <1>3, OutrankingNumbers, Zenon DEF C
<1>5. DOMAIN kept = 1 .. n /\ \A k \in 1 .. n : kept[k] \in K /\ place(kept[k]) = k - 1
  <2>1. \A k \in 1 .. Cardinality(K) :
          \E p \in K : Cardinality({q \in K : Learning!Outranks(obs, q, p)}) = k - 1
    BY <1>4, Zenon
  <2>2. QED
    BY <1>4, <2>1, LearningCardinality, Zenon DEF Learning!InOrder
<1> HIDE DEF kept, place, n
<1>6. \A k, l \in 1 .. n : kept[k] = kept[l] => k = l
  BY <1>4, <1>5
<1>7. \A p \in K : \E k \in 1 .. n : kept[k] = p
  <2>1. ASSUME NEW p \in K PROVE kept[place(p) + 1] = p /\ place(p) + 1 \in 1 .. n
    <3>1. place(p) + 1 \in 1 .. n
      BY <1>4
    <3>2. PICK k \in 1 .. n : k = place(p) + 1
      BY <3>1
    <3>3. kept[k] \in K /\ place(kept[k]) = place(p)
      BY <1>4, <1>5, <3>2
    <3>4. QED
      BY <1>4, <3>1, <3>2, <3>3
  <2>2. QED
    BY <2>1
<1>8. Len(cs) = n /\ DOMAIN cs = 1 .. n /\ \A k \in 1 .. n : cs[k] = cand(kept[k])
  <2> HIDE DEF cs, cand
  <2>1. QED
    BY <1>2, <1>4, <1>5
<1>9. ASSUME NEW k \in 1 .. n PROVE \E i \in 1 .. Len(obs) : cs[k].of = obs[i]
  <2>1. kept[k] \in C
    BY <1>3, <1>5
  <2>2. kept[k][1] \in 1 .. Len(obs)
    BY <2>1 DEF C, Learning!Candidates
  <2>3. cand(kept[k]).of = obs[kept[k][1]]
    BY DEF Learning!CandidateAt, Learning!Candidate
  <2> HIDE DEF cs, cand
  <2>4. QED
    BY <1>8, <2>2, <2>3
<1>10. ASSUME NEW k \in 1 .. n, NEW l \in 1 .. n, cs[k].target = cs[l].target PROVE k = l
  <2> HIDE DEF cs, cand
  <2>1. kept[k] \in K /\ kept[l] \in K /\ cand(kept[k]).target = cand(kept[l]).target
    BY <1>5, <1>8, <1>10
  <2>2. ~Learning!Outranks(obs, kept[k], kept[l]) /\ ~Learning!Outranks(obs, kept[l], kept[k])
    BY <1>1, <2>1
  <2>3. kept[k] = kept[l]
    BY <1>3, <2>1, <2>2, OutrankingNumbers, Zenon DEF C
  <2>4. QED
    BY <1>6, <2>3
<1>11. ASSUME NEW i \in 1 .. Len(obs), obs[i].type = "metric_anomaly"
       PROVE  \E k \in 1 .. n : cs[k].target = obs[i].title
  <2> DEFINE m == obs[i].title
             T == {p \in C : cand(p).target = m}
  <2>1. <<i, 2>> \in C /\ cand(<<i, 2>>).target = m
    BY <1>11 DEF C, Learning!Candidates, Learning!CandidateAt, Learning!Candidate
  <2> HIDE DEF cand, m
  <2>2. T \in SUBSET C /\ <<i, 2>> \in T
    BY <2>1
  <2> HIDE DEF T
  <2>3. /\ Cardinality(T) \in Nat
        /\ \A p \in T : Cardinality({q \in T : Learning!Outranks(obs, q, p)}) + 1 \in 1 .. Cardinality(T)
        /\ \A k \in 1 .. Cardinality(T) : \E p \in T :
             Cardinality({q \in T : Learning!Outranks(obs, q, p)}) = k - 1
    BY <2>2, OutrankingNumbers, Zenon DEF C
  <2>4. 1 \in 1 .. Cardinality(T)
    <3>1. \E k : k \in 1 .. Cardinality(T)
      BY <2>2, <2>3, Zenon
    <3>2. QED
      BY <2>3, <3>1
  <2>5. PICK p \in T : Cardinality({q \in T : Learning!Outranks(obs, q, p)}) = 1 - 1
    BY <2>3, <2>4, Zenon
  <2>6. {q \in T : Learning!Outranks(obs, q, p)} = {}
    <3>1. IsFiniteSet(T)
      BY <2>2, FinitePlaces DEF C
    <3>2. IsFiniteSet({q \in T : Learning!Outranks(obs, q, p)})
      BY <3>1, FS_Subset
    <3>3. Cardinality({q \in T : Learning!Outranks(obs, q, p)}) = 0
      BY <2>5
    <3>4. QED
      BY <3>2, <3>3, FS_EmptySet, Zenon
  <2>7. p \in K
    BY <1>1, <2>6 DEF T
  <2>8. PICK k \in 1 .. n : kept[k] = p
    BY <1>7, <2>7
  <2>9. cs[k].target = m
    <3> HIDE DEF cs
    <3>1. QED
      BY <1>8, <2>8 DEF T
  <2>10. QED
    BY <2>9 DEF m
<1> HIDE DEF cs
<1>12. QED
  BY <1>4, <1>8, <1>9, <1>10, <1>11 DEF cs

LoopActors == Processes \cup Clerks \cup Ticks
RunStages == {"idle", "check", "wait", "raw", "summary", "over"}
LearnStages == {"idle", "decisions", "observations", "proposals", "check", "over"}
Doings ==
  Results \cup {None, Learning!Working, Learning!Abandoned} \cup {Learning!Late(answer) : answer \in Results}
Verdicts == {Learning!Verdict(answer) : answer \in Results} \cup {Learning!Failed("timeout")}
ScenarioRow == [config : 1 .. MaxConfig, archived : BOOLEAN]
SummaryRow == [run : Processes, verdict : Verdicts]
Holding(h) == h = [p \in LoopActors |-> h[p]]

LearnTypes ==
  /\ stage \in [LoopActors -> RunStages \cup {"archive"} \cup LearnStages] /\ Holding(held)
  /\ \A r \in Processes : stage[r] \in RunStages
  /\ \A c \in Clerks : stage[c] \in {"idle", "archive", "over"}
  /\ \A t \in Ticks : stage[t] \in LearnStages
  /\ scenario \in ScenarioRow /\ creates \in 1 .. MaxConfig
  /\ adapter \in [Processes -> Doings]
  /\ DOMAIN raw \subseteq Processes
  /\ summaries \in Seq(SummaryRow) /\ decisions \in Seq(DecisionKinds)

\* What the runner makes of a thread that does this when it looks.
OutcomeOf(doing) ==
  IF doing \in Results THEN Learning!Verdict(doing) ELSE Learning!Failed("timeout")

\* A run has no summary before its end, and in its raw log what it is to summarize; and
\* it waits as long as its adapter works and was not given up.
RunKeeps(r) ==
  /\ stage[r] = "check" => held[r] \in ScenarioRow
  /\ stage[r] \in {"raw", "summary"} =>
       held[r].verdict \in Verdicts /\ held[r].verdict = OutcomeOf(adapter[r])
  /\ adapter[r] = Learning!Working => stage[r] = "wait"
  /\ stage[r] = "summary" => r \in DOMAIN raw /\ raw[r] = held[r]
  /\ stage[r] # "over" => \A i \in DOMAIN summaries : summaries[i].run # r

ClerkKeeps(c) == stage[c] = "archive" => held[c] \in ScenarioRow

LearnRunInv ==
  /\ LearnTypes /\ (\A r \in Processes : RunKeeps(r)) /\ (\A c \in Clerks : ClerkKeeps(c))
  /\ Learning!RunsAreRecorded

\* Outcomes are read off the adapter wherever they are named.
USE DEF Learning!Outcome, OutcomeOf

LEMMA NotAnswered ==
  /\ Learning!Working \notin Results /\ Learning!Abandoned \notin Results
  /\ Learning!Working # Learning!Abandoned /\ None # Learning!Working
  /\ \A answer : Learning!Late(answer) \notin Results /\ Learning!Late(answer) # Learning!Working
<1>1. /\ Learning!Working.status = "working" /\ Learning!Abandoned.status = "abandoned"
      /\ \A answer : Learning!Late(answer).status = "late"
  BY DEF Learning!Working, Learning!Abandoned, Learning!Late
<1>2. QED
  BY <1>1, LearningAssumption DEF LearningAssumption

\* The rows of a tick, as far as it has come: t holds h, and its observations, proposals,
\* findings and validations are O, P, F and V.
Of(t, S) == {x \in S : x.tick = t}
Place(t, k) == [tick |-> t, place |-> k]
Proposal(t, cs, k) == [tick |-> t, id |-> Place(t, k), what |-> cs[k]]

Observing(t, h, O) ==
  /\ h = [obs |-> h.obs, next |-> h.next, found |-> 0]
  /\ h.obs \in Seq(Observed) /\ h.next \in 1 .. Len(h.obs) + 1
  /\ \A i \in 1 .. h.next - 1 : [tick |-> t, what |-> h.obs[i]] \in O
  /\ \A o \in O : \E i \in 1 .. h.next - 1 : o = [tick |-> t, what |-> h.obs[i]]

Drawing(t, h, O) ==
  /\ h = [cs |-> h.cs, next |-> h.next, found |-> h.found]
  /\ Len(h.cs) \in Nat /\ DOMAIN h.cs = 1 .. Len(h.cs) /\ h.next \in 1 .. Len(h.cs) + 1
  /\ \A k \in 1 .. Len(h.cs) : [tick |-> t, what |-> h.cs[k].of] \in O
  /\ \A k, l \in 1 .. Len(h.cs) : h.cs[k].target = h.cs[l].target => k = l
  /\ \A o \in O : o.what.type = "metric_anomaly" =>
       \E k \in 1 .. Len(h.cs) : h.cs[k].target = o.what.title

Made(t, cs, P, n) ==
  /\ \A k \in 1 .. n : Proposal(t, cs, k) \in P
  /\ \A p \in P : \E k \in 1 .. n : p = Proposal(t, cs, k)

\* Those before the next one were blocked or validated, and that one has the first of
\* its findings.
Judged(t, h, F, V) ==
  /\ h.found \in Nat
  /\ h.next <= Len(h.cs) => h.found <= Len(Learning!Findings(h.cs[h.next]))
  /\ \A f \in F : \E k \in 1 .. Len(h.cs) :
       /\ k <= h.next /\ f.proposal = Place(t, k)
       /\ \E j \in DOMAIN Learning!Findings(h.cs[k]) : f.reason = Learning!Findings(h.cs[k])[j]
  /\ \A v \in V : \E k \in 1 .. h.next - 1 : v.proposal = Place(t, k) /\ ~Learning!Blocking(h.cs[k])
  /\ \A k \in 1 .. h.next - 1 :
       IF Learning!Blocking(h.cs[k]) THEN \E f \in F : f.proposal = Place(t, k) /\ f.reason # "refactor"
       ELSE \E v \in V : v.proposal = Place(t, k)
  /\ h.next <= Len(h.cs) =>
       \A j \in 1 .. h.found : \E f \in F :
         f.proposal = Place(t, h.next) /\ f.reason = Learning!Findings(h.cs[h.next])[j]

Done(O, P, F, V) ==
  /\ \A p \in P : \/ \E f \in F : f.reason # "refactor" /\ f.proposal = p.id
                  \/ \E v \in V : v.proposal = p.id
  /\ \A o \in O : o.what.type = "metric_anomaly" => \E p \in P : p.what.target = o.what.title

Account(t, st, h, lost, O, P, F, V) ==
  /\ st \in {"idle", "decisions"} => O = {}
  /\ st \in {"idle", "decisions", "observations"} => P = {}
  /\ st \notin {"check", "over"} => F = {} /\ V = {}
  /\ st = "decisions" => h \in Seq(Observed)
  /\ st = "observations" => Observing(t, h, O)
  /\ st \in {"proposals", "check"} => Drawing(t, h, O)
  /\ st = "proposals" => h.found = 0 /\ Made(t, h.cs, P, h.next - 1)
  /\ st = "check" => Made(t, h.cs, P, Len(h.cs)) /\ Judged(t, h, F, V)
  /\ st = "over" /\ ~lost => Done(O, P, F, V)

Follows(t, O, P, F, V) ==
  /\ \A p \in P : p.id.tick = t /\ [tick |-> t, what |-> p.what.of] \in O
  /\ \A p, q \in P : p.what.target = q.what.target => p = q
  /\ \A f \in F : \E p \in P : f.proposal = p.id
  /\ \A v \in V : \E p \in P : v.proposal = p.id
  /\ \A f \in F, v \in V : f.reason # "refactor" => f.proposal # v.proposal

\* What a tick holds is in the logs, too.
Knows(st, h, logs, choices) ==
  /\ st = "decisions" => \A k \in 1 .. Len(h) : Seen(h[k], logs, choices)
  /\ st = "observations" => \A k \in 1 .. Len(h.obs) : Seen(h.obs[k], logs, choices)

TickKeeps(t) ==
  LET O == Of(t, observations)
      P == Of(t, proposals)
      F == Of(t, findings)
      V == Of(t, validations)
  IN /\ Account(t, stage[t], held[t], t \in killed, O, P, F, V) /\ Follows(t, O, P, F, V)
     /\ Knows(stage[t], held[t], summaries, decisions)

LearnRowInv ==
  /\ \A x \in observations \cup proposals \cup findings \cup validations : x.tick \in Ticks
  /\ \A v \in validations : v.recommendation \in {"send_to_approval", "hold"}
  /\ \A o \in observations : Seen(o.what, summaries, decisions)

LearnInv == LearnRunInv /\ LearnRowInv /\ \A t \in Ticks : TickKeeps(t)

\* Steps of a tick, as what it holds and its rows tell them.
Onward(h) == [h EXCEPT !.next = @ + 1]
Counted(h) == [h EXCEPT !.found = @ + 1]
Beyond(h) == [h EXCEPT !.next = @ + 1, !.found = 0]
Rewound(h) == [h EXCEPT !.next = 1]
NewObservation(t, h) == [tick |-> t, what |-> h.obs[h.next]]
NewProposal(t, h) == Proposal(t, h.cs, h.next)
NewFinding(t, h) ==
  [tick |-> t, proposal |-> Place(t, h.next),
   reason |-> Learning!Findings(h.cs[h.next])[h.found + 1]]
NewValidations(t, h) ==
  IF Learning!Blocking(h.cs[h.next]) THEN {}
  ELSE {[tick |-> t, proposal |-> Place(t, h.next), recommendation |-> Learning!Recommended]}

LEMMA AccountObserved ==
  ASSUME NEW t, NEW h, NEW lost, NEW O, NEW P, NEW F, NEW V,
         Account(t, "observations", h, lost, O, P, F, V), Follows(t, O, P, F, V),
         h.next <= Len(h.obs)
  PROVE  LET g == Onward(h)
             Q == O \cup {NewObservation(t, h)}
         IN /\ Account(t, "observations", g, lost, Q, P, F, V) /\ Follows(t, Q, P, F, V)
            /\ g.obs = h.obs
<1> DEFINE g == Onward(h)
           n == h.next
           Q == O \cup {NewObservation(t, h)}
<1>1. Observing(t, h, O) /\ P = {} /\ F = {} /\ V = {}
  BY DEF Account
<1>2. g = [obs |-> h.obs, next |-> n + 1, found |-> 0]
  BY <1>1 DEF Observing, Onward
<1>3. n \in 1 .. Len(h.obs) /\ n \in Nat /\ Len(h.obs) \in Nat
  BY <1>1 DEF Observing
<1> HIDE DEF g, n
<1>4. Observing(t, g, Q)
  <2>1. g.obs = h.obs /\ g.next = n + 1 /\ g.found = 0
    BY <1>2
  <2>2. \A i \in 1 .. n : [tick |-> t, what |-> h.obs[i]] \in Q
    BY <1>1, <1>3 DEF Observing, NewObservation, n
  <2>3. \A o \in Q : \E i \in 1 .. n : o = [tick |-> t, what |-> h.obs[i]]
    BY <1>1, <1>3 DEF Observing, NewObservation, n
  <2>4. g.next \in 1 .. Len(h.obs) + 1 /\ g.next - 1 = n
    BY <1>3, <2>1
  <2>5. h.obs \in Seq(Observed)
    BY <1>1 DEF Observing
  <2> HIDE DEF Q
  <2>6. QED
    BY <1>2, <2>1, <2>2, <2>3, <2>4, <2>5 DEF Observing
<1>5. Account(t, "observations", g, lost, Q, P, F, V)
  BY <1>1, <1>4 DEF Account
<1>6. Follows(t, Q, P, F, V)
  BY <1>1 DEF Follows
<1>7. QED
  BY <1>2, <1>5, <1>6 DEF g, n

LEMMA AccountDrawn ==
  ASSUME NEW t, NEW h, NEW lost, NEW O, NEW P, NEW F, NEW V,
         Account(t, "observations", h, lost, O, P, F, V), h.next > Len(h.obs)
  PROVE  Account(t, "proposals", [cs |-> Learning!Proposals(h.obs), next |-> 1, found |-> 0],
                 lost, O, P, F, V)
<1> DEFINE cs == Learning!Proposals(h.obs)
           g == [cs |-> cs, next |-> 1, found |-> 0]
<1>1. Observing(t, h, O) /\ P = {} /\ F = {} /\ V = {}
  BY DEF Account
<1>2. h.obs \in Seq(Observed) /\ Len(h.obs) \in Nat /\ h.next = Len(h.obs) + 1
  BY <1>1 DEF Observing
<1>3. \A o : o \in O <=> \E i \in 1 .. Len(h.obs) : o = [tick |-> t, what |-> h.obs[i]]
  BY <1>1, <1>2 DEF Observing
<1>4. /\ Len(cs) \in Nat /\ DOMAIN cs = 1 .. Len(cs)
      /\ \A k \in 1 .. Len(cs) : \E i \in 1 .. Len(h.obs) : cs[k].of = h.obs[i]
      /\ \A k, l \in 1 .. Len(cs) : cs[k].target = cs[l].target => k = l
      /\ \A i \in 1 .. Len(h.obs) : h.obs[i].type = "metric_anomaly" =>
           \E k \in 1 .. Len(cs) : cs[k].target = h.obs[i].title
  BY <1>2, ProposalsSuit, Zenon
<1> HIDE DEF cs
<1>5. Drawing(t, g, O)
  <2>1. g.cs = cs /\ g.next = 1 /\ g.found = 0 /\ g = [cs |-> g.cs, next |-> g.next, found |-> g.found]
    OBVIOUS
  <2>2. 1 \in 1 .. Len(cs) + 1
    BY <1>4
  <2>3. \A k \in 1 .. Len(cs) : [tick |-> t, what |-> cs[k].of] \in O
    BY <1>3, <1>4, Zenon
  <2>4. ASSUME NEW o \in O, o.what.type = "metric_anomaly"
        PROVE  \E k \in 1 .. Len(cs) : cs[k].target = o.what.title
    <3>1. PICK i \in 1 .. Len(h.obs) : o = [tick |-> t, what |-> h.obs[i]]
      BY <1>3
    <3>2. o.what = h.obs[i]
      BY <3>1
    <3>3. QED
      BY <1>4, <2>4, <3>2
  <2> HIDE DEF g
  <2>5. QED
    BY <1>4, <2>1, <2>2, <2>3, <2>4 DEF Drawing
<1>6. g.found = 0 /\ Made(t, g.cs, P, g.next - 1)
  BY <1>1 DEF Made
<1> HIDE DEF g
<1>7. Account(t, "proposals", g, lost, O, P, F, V)
  BY <1>1, <1>5, <1>6 DEF Account
<1>8. QED
  BY <1>7 DEF g, cs

LEMMA PlacesDiffer == \A t, k, l : Place(t, k) = Place(t, l) => k = l
BY DEF Place

LEMMA AccountCreated ==
  ASSUME NEW t, NEW h, NEW lost, NEW O, NEW P, NEW F, NEW V,
         Account(t, "proposals", h, lost, O, P, F, V), Follows(t, O, P, F, V),
         h.next <= Len(h.cs)
  PROVE  LET g == Onward(h)
             Q == P \cup {NewProposal(t, h)}
         IN Account(t, "proposals", g, lost, O, Q, F, V) /\ Follows(t, O, Q, F, V)
<1> DEFINE g == Onward(h)
           n == h.next
           new == NewProposal(t, h)
           Q == P \cup {new}
<1>1. Drawing(t, h, O) /\ h.found = 0 /\ Made(t, h.cs, P, n - 1) /\ F = {} /\ V = {}
  BY DEF Account
<1>2. g = [cs |-> h.cs, next |-> n + 1, found |-> 0]
  BY <1>1 DEF Drawing, Onward
<1>3. n \in 1 .. Len(h.cs) /\ n \in Nat /\ Len(h.cs) \in Nat
  BY <1>1 DEF Drawing
<1>4. new.id.tick = t /\ new.what = h.cs[n]
  BY DEF NewProposal, Proposal, Place
<1> HIDE DEF g, n, new
<1>5. Drawing(t, g, O)
  BY <1>1, <1>2, <1>3 DEF Drawing
<1>6. Made(t, g.cs, Q, g.next - 1)
  <2>1. g.cs = h.cs /\ g.next - 1 = n
    BY <1>2, <1>3
  <2>2. \A k \in 1 .. n : k \in 1 .. n - 1 \/ k = n
    BY <1>3
  <2>3. \A k \in 1 .. n : Proposal(t, h.cs, k) \in Q
    BY <1>1, <2>2 DEF Made, NewProposal, new, n
  <2>4. \A p \in Q : \E k \in 1 .. n : p = Proposal(t, h.cs, k)
    BY <1>1, <1>3 DEF Made, NewProposal, new, n
  <2> HIDE DEF Q
  <2>5. QED
    BY <2>1, <2>3, <2>4 DEF Made
<1>7. Account(t, "proposals", g, lost, O, Q, F, V)
  BY <1>1, <1>2, <1>5, <1>6 DEF Account
<1>8. Follows(t, O, Q, F, V)
  <2>1. [tick |-> t, what |-> new.what.of] \in O
    BY <1>1, <1>3, <1>4 DEF Drawing
  <2>2. ASSUME NEW p \in P PROVE p.what.target # new.what.target
    <3>1. PICK k \in 1 .. n - 1 : p = Proposal(t, h.cs, k)
      BY <1>1 DEF Made, n
    <3>2. k \in 1 .. Len(h.cs) /\ k # n /\ p.what = h.cs[k]
      BY <1>3, <3>1 DEF Proposal
    <3>3. QED
      BY <1>1, <1>3, <1>4, <3>2 DEF Drawing
  <2>3. QED
    BY <1>1, <1>4, <2>1, <2>2 DEF Follows
<1>9. QED
  BY <1>7, <1>8 DEF g, n, new

LEMMA AccountChecked ==
  ASSUME NEW t, NEW h, NEW lost, NEW O, NEW P, NEW F, NEW V,
         Account(t, "proposals", h, lost, O, P, F, V), h.next > Len(h.cs)
  PROVE  Account(t, "check", Rewound(h), lost, O, P, F, V)
<1> DEFINE g == Rewound(h)
<1>1. Drawing(t, h, O) /\ h.found = 0 /\ Made(t, h.cs, P, h.next - 1) /\ F = {} /\ V = {}
  BY DEF Account
<1>2. g = [cs |-> h.cs, next |-> 1, found |-> 0]
  BY <1>1 DEF Drawing, Rewound
<1>3. Len(h.cs) \in Nat /\ h.next - 1 = Len(h.cs)
  BY <1>1 DEF Drawing
<1> HIDE DEF g
<1>4. Drawing(t, g, O)
  BY <1>1, <1>2, <1>3 DEF Drawing
<1>5. Made(t, g.cs, P, Len(g.cs))
  BY <1>1, <1>2, <1>3
<1>6. Judged(t, g, F, V)
  BY <1>1, <1>2, FindingsAreNumbered DEF Judged
<1>7. Account(t, "check", g, lost, O, P, F, V)
  BY <1>4, <1>5, <1>6 DEF Account
<1>8. QED
  BY <1>7 DEF g

LEMMA AccountFound ==
  ASSUME NEW t, NEW h, NEW lost, NEW O, NEW P, NEW F, NEW V,
         Account(t, "check", h, lost, O, P, F, V), Follows(t, O, P, F, V),
         h.next <= Len(h.cs), h.found < Len(Learning!Findings(h.cs[h.next]))
  PROVE  LET g == Counted(h)
             Q == F \cup {NewFinding(t, h)}
         IN Account(t, "check", g, lost, O, P, Q, V) /\ Follows(t, O, P, Q, V)
<1> DEFINE g == Counted(h)
           n == h.next
           m == h.found
           all == Learning!Findings(h.cs[n])
           new == NewFinding(t, h)
           Q == F \cup {new}
<1>1. Drawing(t, h, O) /\ Made(t, h.cs, P, Len(h.cs)) /\ Judged(t, h, F, V)
  BY DEF Account
<1>2. g = [cs |-> h.cs, next |-> n, found |-> m + 1]
  BY <1>1 DEF Drawing, Counted
<1>3. n \in 1 .. Len(h.cs) /\ n \in Nat /\ Len(h.cs) \in Nat /\ m \in Nat
  BY <1>1 DEF Drawing, Judged
<1>4. m + 1 \in DOMAIN all /\ m + 1 <= Len(all)
  BY <1>3, FindingsAreNumbered
<1>5. new.proposal = Place(t, n) /\ new.reason = all[m + 1]
  BY DEF NewFinding
<1> HIDE DEF g, new
<1>6. Drawing(t, g, O)
  BY <1>1, <1>2, <1>3 DEF Drawing
<1>7. Judged(t, g, Q, V)
  <2>1. g.cs = h.cs /\ g.next = n /\ g.found = m + 1
    BY <1>2
  <2>2. ASSUME NEW f \in Q
        PROVE  \E k \in 1 .. Len(h.cs) :
                 /\ k <= n /\ f.proposal = Place(t, k)
                 /\ \E j \in DOMAIN Learning!Findings(h.cs[k]) :
                      f.reason = Learning!Findings(h.cs[k])[j]
    <3>1. CASE f \in F
      BY <1>1, <3>1, Zenon DEF Judged
    <3>2. CASE f = new
      <4>1. n <= n /\ f.proposal = Place(t, n) /\ f.reason = all[m + 1]
        BY <1>3, <1>5, <3>2
      <4>2. QED
        BY <1>3, <1>4, <4>1, Zenon
    <3>3. QED
      BY <2>2, <3>1, <3>2
  <2>3. \A k \in 1 .. n - 1 :
          IF Learning!Blocking(h.cs[k])
          THEN \E f \in Q : f.proposal = Place(t, k) /\ f.reason # "refactor"
          ELSE \E v \in V : v.proposal = Place(t, k)
    BY <1>1 DEF Judged
  <2>4. ASSUME NEW j \in 1 .. m + 1
        PROVE  \E f \in Q : f.proposal = Place(t, n) /\ f.reason = all[j]
    <3>1. j \in 1 .. m \/ j = m + 1
      BY <1>3
    <3>2. QED
      BY <1>1, <1>3, <1>5, <3>1 DEF Judged
  <2>5. \A v \in V : \E k \in 1 .. n - 1 : v.proposal = Place(t, k) /\ ~Learning!Blocking(h.cs[k])
    BY <1>1 DEF Judged
  <2> HIDE DEF Q, n, m
  <2>6. m + 1 \in Nat
    BY <1>3
  <2>7. QED
    BY <1>4, <2>1, <2>2, <2>3, <2>4, <2>5, <2>6 DEF Judged
<1>8. Account(t, "check", g, lost, O, P, Q, V)
  BY <1>1, <1>2, <1>6, <1>7 DEF Account
<1>9. Follows(t, O, P, Q, V)
  <2>1. Proposal(t, h.cs, n) \in P /\ Proposal(t, h.cs, n).id = Place(t, n)
    BY <1>1, <1>3 DEF Made, Proposal
  <2>2. ASSUME NEW v \in V PROVE v.proposal # new.proposal
    <3>1. PICK k \in 1 .. n - 1 : v.proposal = Place(t, k)
      BY <1>1 DEF Judged
    <3>2. k # n
      BY <1>3
    <3>3. QED
      BY <1>5, <3>1, <3>2, PlacesDiffer
  <2>3. QED
    BY <1>5, <2>1, <2>2 DEF Follows
<1>10. QED
  BY <1>8, <1>9 DEF g, new

LEMMA AccountValidated ==
  ASSUME NEW t, NEW h, NEW lost, NEW O, NEW P, NEW F, NEW V,
         Account(t, "check", h, lost, O, P, F, V), Follows(t, O, P, F, V),
         h.next <= Len(h.cs), h.found = Len(Learning!Findings(h.cs[h.next]))
  PROVE  LET g == Beyond(h)
             W == V \cup NewValidations(t, h)
         IN Account(t, "check", g, lost, O, P, F, W) /\ Follows(t, O, P, F, W)
<1> DEFINE g == Beyond(h)
           n == h.next
           all == Learning!Findings(h.cs[n])
           blocked == Learning!Blocking(h.cs[n])
           new == [tick |-> t, proposal |-> Place(t, n), recommendation |-> Learning!Recommended]
           W == V \cup NewValidations(t, h)
<1>1. Drawing(t, h, O) /\ Made(t, h.cs, P, Len(h.cs)) /\ Judged(t, h, F, V)
  BY DEF Account
<1>2. g = [cs |-> h.cs, next |-> n + 1, found |-> 0]
  <2> DEFINE e == [h EXCEPT !.next = @ + 1]
  <2>1. e = [cs |-> h.cs, next |-> n + 1, found |-> h.found]
    BY <1>1 DEF Drawing
  <2>2. g = [e EXCEPT !.found = 0]
    BY DEF Beyond
  <2> HIDE DEF e, g
  <2>3. QED
    BY <2>1, <2>2
<1>3. n \in 1 .. Len(h.cs) /\ n \in Nat /\ Len(h.cs) \in Nat
  BY <1>1 DEF Drawing
<1>4. new.proposal = Place(t, n) /\ W = IF blocked THEN V ELSE V \cup {new}
  BY DEF NewValidations
<1>5. \A j \in DOMAIN all : \E f \in F : f.proposal = Place(t, n) /\ f.reason = all[j]
  BY <1>1, <1>3, FindingsAreNumbered DEF Judged
<1>6. blocked <=> \E j \in DOMAIN all : all[j] # "refactor"
  BY DEF Learning!Blocking
<1>7. \A f \in F : f.proposal = Place(t, n) => \E j \in DOMAIN all : f.reason = all[j]
  <2>1. ASSUME NEW f \in F, f.proposal = Place(t, n) PROVE \E j \in DOMAIN all : f.reason = all[j]
    <3>1. PICK k \in 1 .. Len(h.cs) :
            /\ f.proposal = Place(t, k)
            /\ \E j \in DOMAIN Learning!Findings(h.cs[k]) : f.reason = Learning!Findings(h.cs[k])[j]
      BY <1>1, Zenon DEF Judged
    <3>2. k = n
      BY <2>1, <3>1, PlacesDiffer, Zenon
    <3>3. QED
      BY <3>1, <3>2
  <2>2. QED
    BY <2>1
<1> HIDE DEF g, new, W
<1>8. Drawing(t, g, O)
  BY <1>1, <1>2, <1>3 DEF Drawing
<1>9. Judged(t, g, F, W)
  <2>1. g.cs = h.cs /\ g.next = n + 1 /\ g.found = 0
    BY <1>2
  <2>2. ASSUME NEW f \in F
        PROVE  \E k \in 1 .. Len(h.cs) :
                 /\ k <= n + 1 /\ f.proposal = Place(t, k)
                 /\ \E j \in DOMAIN Learning!Findings(h.cs[k]) :
                      f.reason = Learning!Findings(h.cs[k])[j]
    <3>1. PICK k \in 1 .. Len(h.cs) :
            /\ k <= n /\ f.proposal = Place(t, k)
            /\ \E j \in DOMAIN Learning!Findings(h.cs[k]) : f.reason = Learning!Findings(h.cs[k])[j]
      BY <1>1, Zenon DEF Judged
    <3>2. k <= n + 1
      BY <1>3, <3>1
    <3>3. QED
      BY <3>1, <3>2, Zenon
  <2>3. ASSUME NEW v \in W
        PROVE  \E k \in 1 .. n : v.proposal = Place(t, k) /\ ~Learning!Blocking(h.cs[k])
    <3>1. CASE v \in V
      <4>1. PICK k \in 1 .. n - 1 : v.proposal = Place(t, k) /\ ~Learning!Blocking(h.cs[k])
        BY <1>1, <3>1 DEF Judged
      <4>2. k \in 1 .. n
        BY <1>3, <4>1
      <4>3. QED
        BY <4>1, <4>2
    <3>2. CASE v \notin V
      BY <1>3, <1>4, <2>3, <3>2
    <3>3. QED
      BY <3>1, <3>2
  <2>4. ASSUME NEW k \in 1 .. n
        PROVE  IF Learning!Blocking(h.cs[k])
               THEN \E f \in F : f.proposal = Place(t, k) /\ f.reason # "refactor"
               ELSE \E v \in W : v.proposal = Place(t, k)
    <3>1. CASE k = n
      BY <1>4, <1>5, <1>6, <3>1
    <3>2. CASE k # n
      <4>1. k \in 1 .. n - 1
        BY <1>3, <3>2
      <4>2. V \subseteq W
        BY <1>4
      <4>3. QED
        BY <1>1, <4>1, <4>2 DEF Judged
    <3>3. QED
      BY <3>1, <3>2
  <2>5. g.found \in Nat /\ g.found <= Len(Learning!Findings(g.cs[g.next]))
    BY <2>1, FindingsAreNumbered
  <2>6. ASSUME NEW j \in 1 .. g.found PROVE FALSE
    BY <2>1, <2>6
  <2>7. 1 .. g.next - 1 = 1 .. n
    BY <1>3, <2>1
  <2> HIDE DEF n, blocked, all
  <2>8. /\ \A f \in F : \E k \in 1 .. Len(g.cs) :
             /\ k <= g.next /\ f.proposal = Place(t, k)
             /\ \E j \in DOMAIN Learning!Findings(g.cs[k]) : f.reason = Learning!Findings(g.cs[k])[j]
        /\ \A v \in W : \E k \in 1 .. g.next - 1 :
             v.proposal = Place(t, k) /\ ~Learning!Blocking(g.cs[k])
    <3>1. \A f \in F : \E k \in 1 .. Len(g.cs) :
             /\ k <= g.next /\ f.proposal = Place(t, k)
             /\ \E j \in DOMAIN Learning!Findings(g.cs[k]) : f.reason = Learning!Findings(g.cs[k])[j]
      BY <2>1, <2>2
    <3>2. \A v \in W : \E k \in 1 .. g.next - 1 :
             v.proposal = Place(t, k) /\ ~Learning!Blocking(g.cs[k])
      BY <2>1, <2>3, <2>7, Zenon
    <3>3. QED
      BY <3>1, <3>2
  <2>9. \A k \in 1 .. g.next - 1 :
          IF Learning!Blocking(g.cs[k])
          THEN \E f \in F : f.proposal = Place(t, k) /\ f.reason # "refactor"
          ELSE \E v \in W : v.proposal = Place(t, k)
    BY <2>1, <2>4, <2>7, Zenon
  <2>10. QED
    BY <2>5, <2>6, <2>8, <2>9, Zenon DEF Judged
<1>10. Account(t, "check", g, lost, O, P, F, W)
  BY <1>1, <1>2, <1>8, <1>9 DEF Account
<1>11. Follows(t, O, P, F, W)
  <2>1. Proposal(t, h.cs, n) \in P /\ Proposal(t, h.cs, n).id = Place(t, n)
    BY <1>1, <1>3 DEF Made, Proposal
  <2>2. ASSUME NEW v \in W PROVE \E p \in P : v.proposal = p.id
    BY <1>4, <2>1 DEF Follows
  <2>3. ASSUME NEW f \in F, NEW v \in W, f.reason # "refactor" PROVE f.proposal # v.proposal
    BY <1>4, <1>6, <1>7, <2>3 DEF Follows
  <2>4. QED
    BY <2>2, <2>3 DEF Follows
<1>12. QED
  BY <1>10, <1>11 DEF g, W

LEMMA AccountReported ==
  ASSUME NEW t, NEW h, NEW g, NEW lost, NEW O, NEW P, NEW F, NEW V,
         Account(t, "check", h, lost, O, P, F, V), h.next > Len(h.cs)
  PROVE  Account(t, "over", g, lost, O, P, F, V)
<1>1. Drawing(t, h, O) /\ Made(t, h.cs, P, Len(h.cs)) /\ Judged(t, h, F, V)
  BY DEF Account
<1>2. Len(h.cs) \in Nat /\ h.next - 1 = Len(h.cs)
  BY <1>1 DEF Drawing
<1>3. ASSUME NEW p \in P
      PROVE  \/ \E f \in F : f.reason # "refactor" /\ f.proposal = p.id
             \/ \E v \in V : v.proposal = p.id
  <2>1. PICK k \in 1 .. Len(h.cs) : p = Proposal(t, h.cs, k)
    BY <1>1 DEF Made
  <2>2. p.id = Place(t, k)
    BY <2>1 DEF Proposal
  <2>3. QED
    BY <1>1, <1>2, <2>2 DEF Judged
<1>4. ASSUME NEW o \in O, o.what.type = "metric_anomaly"
      PROVE  \E p \in P : p.what.target = o.what.title
  <2>1. PICK k \in 1 .. Len(h.cs) : h.cs[k].target = o.what.title
    BY <1>1, <1>4 DEF Drawing
  <2>2. Proposal(t, h.cs, k) \in P /\ Proposal(t, h.cs, k).what = h.cs[k]
    BY <1>1 DEF Made, Proposal
  <2>3. QED
    BY <2>1, <2>2
<1>5. Done(O, P, F, V)
  BY <1>3, <1>4 DEF Done
<1>6. QED
  BY <1>5 DEF Account

LEMMA SeenStays ==
  ASSUME NEW o, NEW a, NEW b, NEW c, NEW d, Seen(o, a, c),
         \A i \in DOMAIN a : i \in DOMAIN b /\ b[i] = a[i],
         \A i \in DOMAIN c : i \in DOMAIN d /\ d[i] = c[i]
  PROVE  Seen(o, b, d)
BY DEF Seen

LEMMA ActorsDiffer ==
  /\ \A t \in Ticks : t \in LoopActors /\ t \notin Processes /\ t \notin Clerks
  /\ \A r \in Processes : r \in LoopActors /\ r \notin Ticks /\ r \notin Clerks
  /\ \A c \in Clerks : c \in LoopActors /\ c \notin Ticks /\ c \notin Processes
BY LearningAssumption DEF LearningAssumption, LoopActors

\* A step of a tick is one of the steps above, and leaves the others alone.
LEMMA TickMoves ==
  ASSUME LearnInv, NEW t \in Ticks, NEW st \in LearnStages, NEW h,
         NEW O, NEW P, NEW F, NEW V,
         stage' = [stage EXCEPT ![t] = st], held' = [held EXCEPT ![t] = h],
         observations' = observations \cup O, proposals' = proposals \cup P,
         findings' = findings \cup F, validations' = validations \cup V,
         \A x \in O \cup P \cup F \cup V : x.tick = t,
         \A u \in Ticks \ {t} : u \in killed' <=> u \in killed,
         UNCHANGED <<scenario, adapter, raw, summaries, creates, torn, decisions>>,
         Account(t, st, h, t \in killed', Of(t, observations) \cup O, Of(t, proposals) \cup P,
                 Of(t, findings) \cup F, Of(t, validations) \cup V),
         Follows(t, Of(t, observations) \cup O, Of(t, proposals) \cup P,
                 Of(t, findings) \cup F, Of(t, validations) \cup V),
         Knows(st, h, summaries, decisions),
         \A o \in O : Seen(o.what, summaries, decisions),
         \A v \in V : v.recommendation \in {"send_to_approval", "hold"}
  PROVE  LearnInv'
<1>1. LearnTypes /\ t \in LoopActors
  BY ActorsDiffer DEF LearnInv, LearnRunInv
<1>2. /\ stage' \in [LoopActors -> RunStages \cup {"archive"} \cup LearnStages] /\ Holding(held')
      /\ stage'[t] = st /\ held'[t] = h
      /\ \A u \in LoopActors \ {t} : stage'[u] = stage[u] /\ held'[u] = held[u]
  <2>1. stage \in [LoopActors -> RunStages \cup {"archive"} \cup LearnStages]
        /\ held = [p \in LoopActors |-> held[p]]
    BY <1>1 DEF LearnTypes, Holding
  <2>2. DOMAIN held = LoopActors
    BY <2>1
  <2>3. DOMAIN held' = LoopActors /\ held'[t] = h /\ \A u \in LoopActors \ {t} : held'[u] = held[u]
    BY <1>1, <2>2
  <2>4. held' = [p \in LoopActors |-> held'[p]]
    BY <1>1, <2>2, Zenon
  <2>5. QED
    BY <1>1, <2>1, <2>3, <2>4 DEF Holding
<1>3. LearnRunInv'
  <2>1. /\ \A r \in Processes : stage'[r] = stage[r] /\ held'[r] = held[r]
        /\ \A c \in Clerks : stage'[c] = stage[c] /\ held'[c] = held[c]
        /\ \A u \in Ticks : stage'[u] \in LearnStages
    BY <1>1, <1>2, ActorsDiffer DEF LearnTypes
  <2>2. LearnTypes'
    BY <1>1, <1>2, <2>1 DEF LearnTypes
  <2>3. \A r \in Processes : RunKeeps(r)'
    BY <2>1 DEF RunKeeps, LearnInv, LearnRunInv
  <2>4. \A c \in Clerks : ClerkKeeps(c)'
    BY <2>1 DEF ClerkKeeps, LearnInv, LearnRunInv
  <2>5. Learning!RunsAreRecorded'
    BY DEF Learning!RunsAreRecorded, LearnInv, LearnRunInv
  <2>6. QED
    BY <2>2, <2>3, <2>4, <2>5 DEF LearnRunInv
<1>4. LearnRowInv'
  BY DEF LearnRowInv, LearnInv
<1>5. ASSUME NEW u \in Ticks PROVE TickKeeps(u)'
  <2>1. CASE u = t
    <3>1. /\ Of(t, observations') = Of(t, observations) \cup O
          /\ Of(t, proposals') = Of(t, proposals) \cup P
          /\ Of(t, findings') = Of(t, findings) \cup F
          /\ Of(t, validations') = Of(t, validations) \cup V
      BY DEF Of
    <3>2. Account(t, stage'[t], held'[t], t \in killed', Of(t, observations'), Of(t, proposals'),
                  Of(t, findings'), Of(t, validations'))
      BY <1>2, <3>1, Zenon
    <3>3. Follows(t, Of(t, observations'), Of(t, proposals'), Of(t, findings'), Of(t, validations'))
      BY <3>1, Zenon
    <3>4. Knows(stage'[t], held'[t], summaries', decisions')
      BY <1>2
    <3>5. TickKeeps(t)'
      BY <3>2, <3>3, <3>4 DEF TickKeeps
    <3>6. QED
      BY <2>1, <3>5
  <2>2. CASE u # t
    <3>1. /\ Of(u, observations') = Of(u, observations)
          /\ Of(u, proposals') = Of(u, proposals)
          /\ Of(u, findings') = Of(u, findings)
          /\ Of(u, validations') = Of(u, validations)
      BY <2>2 DEF Of
    <3>2. stage'[u] = stage[u] /\ held'[u] = held[u] /\ (u \in killed' <=> u \in killed)
      BY <1>2, <2>2, ActorsDiffer
    <3>3. TickKeeps(u)
      BY DEF LearnInv
    <3>4. (u \in killed') = (u \in killed)
      BY <3>2
    <3>5. QED
      BY <3>1, <3>2, <3>3, <3>4 DEF TickKeeps
  <2>3. QED
    BY <2>1, <2>2
<1>6. QED
  BY <1>3, <1>4, <1>5 DEF LearnInv

LEMMA TickFacts ==
  ASSUME LearnInv, NEW t \in Ticks
  PROVE  /\ t \in LoopActors /\ stage[t] \in LearnStages
         /\ stage = [stage EXCEPT ![t] = stage[t]]
         /\ summaries \in Seq(SummaryRow) /\ decisions \in Seq(DecisionKinds)
         /\ Account(t, stage[t], held[t], t \in killed, Of(t, observations), Of(t, proposals),
                    Of(t, findings), Of(t, validations))
         /\ Follows(t, Of(t, observations), Of(t, proposals), Of(t, findings), Of(t, validations))
         /\ Knows(stage[t], held[t], summaries, decisions)
BY ActorsDiffer DEF LearnInv, LearnRunInv, LearnTypes, TickKeeps

LEMMA TickTurns ==
  ASSUME LearnInv, NEW t \in Ticks, NEW st \in LearnStages, NEW h,
         stage' = [stage EXCEPT ![t] = st], held' = [held EXCEPT ![t] = h],
         UNCHANGED <<observations, proposals, findings, validations>>,
         \A u \in Ticks \ {t} : u \in killed' <=> u \in killed,
         UNCHANGED <<scenario, adapter, raw, summaries, creates, torn, decisions>>,
         Account(t, st, h, t \in killed', Of(t, observations), Of(t, proposals),
                 Of(t, findings), Of(t, validations)),
         Knows(st, h, summaries, decisions)
  PROVE  LearnInv'
<1> DEFINE N == {}
<1>1. /\ \A x \in N : FALSE
      /\ observations' = observations \cup N /\ proposals' = proposals \cup N
      /\ findings' = findings \cup N /\ validations' = validations \cup N
  OBVIOUS
<1>2. \A S : S \cup N = S
  OBVIOUS
<1> HIDE DEF N
<1>3. /\ Account(t, st, h, t \in killed', Of(t, observations) \cup N, Of(t, proposals) \cup N,
                 Of(t, findings) \cup N, Of(t, validations) \cup N)
      /\ Follows(t, Of(t, observations) \cup N, Of(t, proposals) \cup N, Of(t, findings) \cup N,
                 Of(t, validations) \cup N)
  BY <1>2, TickFacts, Zenon
<1>4. QED
  BY <1>1, <1>3, TickMoves, Zenon

LEMMA LearnObservesMetrics ==
  ASSUME LearnInv, NEW t \in Ticks, Learning!ObserveMetrics(t)
  PROVE  LearnInv'
<1> DEFINE h == Learning!Anomalies
<1>1. /\ stage[t] = "idle" /\ stage' = [stage EXCEPT ![t] = "decisions"]
      /\ held' = [held EXCEPT ![t] = h]
      /\ UNCHANGED <<scenario, adapter, raw, summaries, creates, torn, decisions, observations,
                     proposals, findings, validations, killed>>
  BY DEF Learning!ObserveMetrics, Learning!Goes, Learning!Holds, Learning!runVars, Learning!learnVars
<1>2. h \in Seq(Observed) /\ \A k \in 1 .. Len(h) : Seen(h[k], summaries, decisions)
  BY TickFacts, AnomaliesAreSeen
<1> HIDE DEF h
<1>3. Account(t, "decisions", h, t \in killed', Of(t, observations), Of(t, proposals),
              Of(t, findings), Of(t, validations))
  BY <1>1, <1>2, TickFacts DEF Account
<1>4. Knows("decisions", h, summaries, decisions) /\ "decisions" \in LearnStages
  BY <1>2 DEF Knows, LearnStages
<1>5. QED
  BY <1>1, <1>3, <1>4, TickTurns, Zenon

LEMMA LearnObservesDecisions ==
  ASSUME LearnInv, NEW t \in Ticks, Learning!ObserveDecisions(t)
  PROVE  LearnInv'
<1> DEFINE seen == held[t] \o Learning!Frictions
           obs == Learning!Aggregate(seen)
           h == [obs |-> obs, next |-> 1, found |-> 0]
<1>1. /\ stage[t] = "decisions" /\ stage' = [stage EXCEPT ![t] = "observations"]
      /\ held' = [held EXCEPT ![t] = h]
      /\ UNCHANGED <<scenario, adapter, raw, summaries, creates, torn, decisions, observations,
                     proposals, findings, validations, killed>>
  BY DEF Learning!ObserveDecisions, Learning!Goes, Learning!Holds, Learning!runVars, Learning!learnVars
<1>2. /\ held[t] \in Seq(Observed)
      /\ \A k \in 1 .. Len(held[t]) : Seen(held[t][k], summaries, decisions)
  BY <1>1, TickFacts DEF Account, Knows
<1>3. /\ Learning!Frictions \in Seq(Observed)
      /\ \A k \in 1 .. Len(Learning!Frictions) : Seen(Learning!Frictions[k], summaries, decisions)
  BY TickFacts, FrictionsAreSeen
<1>4. seen \in Seq(Observed) /\ \A k \in 1 .. Len(seen) : Seen(seen[k], summaries, decisions)
  BY <1>2, <1>3
<1> HIDE DEF seen
<1>5. /\ obs \in Seq(Observed)
      /\ \A k \in 1 .. Len(obs) : \E i \in 1 .. Len(seen) : obs[k] = seen[i]
  BY <1>4, AggregateKeeps
<1> HIDE DEF obs
<1>6. h.obs = obs /\ h.next = 1 /\ h.found = 0 /\ h = [obs |-> h.obs, next |-> h.next, found |-> 0]
  OBVIOUS
<1> HIDE DEF h
<1>7. \A O : O = {} => Observing(t, h, O)
  BY <1>5, <1>6 DEF Observing
<1>8. Account(t, "observations", h, t \in killed', Of(t, observations), Of(t, proposals),
              Of(t, findings), Of(t, validations))
  BY <1>1, <1>7, TickFacts DEF Account
<1>9. Knows("observations", h, summaries, decisions) /\ "observations" \in LearnStages
  BY <1>4, <1>5, <1>6 DEF Knows, LearnStages
<1>10. QED
  BY <1>1, <1>8, <1>9, TickTurns, Zenon

LEMMA LearnSavesObservation ==
  ASSUME LearnInv, NEW t \in Ticks, Learning!SaveObservation(t)
  PROVE  LearnInv'
<1> DEFINE h == held[t]
           g == Onward(h)
           new == NewObservation(t, h)
           O == {new}
           N == {}
<1>1. /\ stage[t] = "observations" /\ h.next <= Len(h.obs)
      /\ observations' = observations \cup O /\ held' = [held EXCEPT ![t] = g]
      /\ UNCHANGED <<stage, scenario, adapter, raw, summaries, creates, torn, decisions,
                     proposals, findings, validations, killed>>
  BY DEF Learning!SaveObservation, Learning!runVars, Onward, NewObservation
<1>2. /\ Account(t, "observations", g, t \in killed, Of(t, observations) \cup O, Of(t, proposals),
                 Of(t, findings), Of(t, validations))
      /\ Follows(t, Of(t, observations) \cup O, Of(t, proposals), Of(t, findings),
                 Of(t, validations))
      /\ g.obs = h.obs
  <2>1. /\ Account(t, "observations", h, t \in killed, Of(t, observations), Of(t, proposals),
                   Of(t, findings), Of(t, validations))
        /\ Follows(t, Of(t, observations), Of(t, proposals), Of(t, findings), Of(t, validations))
    BY <1>1, TickFacts
  <2> HIDE DEF h
  <2>2. QED
    BY <1>1, <2>1, AccountObserved
<1>3. Knows("observations", g, summaries, decisions) /\ "observations" \in LearnStages
  BY <1>1, <1>2, TickFacts DEF Knows, LearnStages
<1>4. Seen(new.what, summaries, decisions) /\ new.tick = t
  <2>1. Observing(t, h, Of(t, observations))
    BY <1>1, TickFacts DEF Account
  <2>2. h.next \in 1 .. Len(h.obs)
    BY <1>1, <2>1 DEF Observing
  <2>3. QED
    BY <1>1, <2>2, TickFacts DEF Knows, NewObservation
<1> HIDE DEF h, g, new
<1>5. /\ stage' = [stage EXCEPT ![t] = "observations"]
      /\ proposals' = proposals \cup N
      /\ findings' = findings \cup N /\ validations' = validations \cup N
      /\ \A x \in N : FALSE
  BY <1>1, TickFacts
<1>6. \A S : S \cup N = S
  OBVIOUS
<1>7. \A o \in O : o.tick = t /\ Seen(o.what, summaries, decisions)
  BY <1>4
<1> HIDE DEF N, O
<1>8. /\ Account(t, "observations", g, t \in killed', Of(t, observations) \cup O, Of(t, proposals) \cup N,
                 Of(t, findings) \cup N, Of(t, validations) \cup N)
      /\ Follows(t, Of(t, observations) \cup O, Of(t, proposals) \cup N, Of(t, findings) \cup N,
                 Of(t, validations) \cup N)
  BY <1>1, <1>2, <1>6, Zenon
<1>9. QED
  BY <1>1, <1>3, <1>5, <1>7, <1>8, TickMoves, Zenon

LEMMA LearnDrawsProposals ==
  ASSUME LearnInv, NEW t \in Ticks, Learning!DrawProposals(t)
  PROVE  LearnInv'
<1> DEFINE g == [cs |-> Learning!Proposals(held[t].obs), next |-> 1, found |-> 0]
<1>1. /\ stage[t] = "observations" /\ held[t].next > Len(held[t].obs)
      /\ stage' = [stage EXCEPT ![t] = "proposals"] /\ held' = [held EXCEPT ![t] = g]
      /\ UNCHANGED <<scenario, adapter, raw, summaries, creates, torn, decisions, observations,
                     proposals, findings, validations, killed>>
  BY DEF Learning!DrawProposals, Learning!Goes, Learning!Holds, Learning!runVars, Learning!learnVars
<1>2. Account(t, "proposals", g, t \in killed, Of(t, observations), Of(t, proposals),
              Of(t, findings), Of(t, validations))
  BY <1>1, TickFacts, AccountDrawn
<1>3. Knows("proposals", g, summaries, decisions) /\ "proposals" \in LearnStages
  BY DEF Knows, LearnStages
<1> HIDE DEF g
<1>4. QED
  BY <1>1, <1>2, <1>3, TickTurns, Zenon

LEMMA LearnCreatesProposal ==
  ASSUME LearnInv, NEW t \in Ticks, Learning!CreateProposal(t)
  PROVE  LearnInv'
<1> DEFINE h == held[t]
           g == Onward(h)
           P == {NewProposal(t, h)}
           N == {}
<1>1. /\ stage[t] = "proposals" /\ h.next <= Len(h.cs)
      /\ proposals' = proposals \cup P /\ held' = [held EXCEPT ![t] = g]
      /\ UNCHANGED <<stage, scenario, adapter, raw, summaries, creates, torn, decisions,
                     observations, findings, validations, killed>>
  BY DEF Learning!CreateProposal, Learning!Name, Learning!Current, Learning!runVars, Onward, NewProposal,
            Proposal, Place
<1>2. /\ Account(t, "proposals", g, t \in killed, Of(t, observations), Of(t, proposals) \cup P,
                 Of(t, findings), Of(t, validations))
      /\ Follows(t, Of(t, observations), Of(t, proposals) \cup P, Of(t, findings),
                 Of(t, validations))
  BY <1>1, TickFacts, AccountCreated
<1>3. Knows("proposals", g, summaries, decisions) /\ "proposals" \in LearnStages
  BY DEF Knows, LearnStages
<1>4. \A p \in P : p.tick = t
  BY DEF NewProposal, Proposal
<1> HIDE DEF h, g
<1>5. /\ stage' = [stage EXCEPT ![t] = "proposals"]
      /\ observations' = observations \cup N
      /\ findings' = findings \cup N /\ validations' = validations \cup N
      /\ \A x \in N : FALSE
  BY <1>1, TickFacts
<1>6. \A S : S \cup N = S
  OBVIOUS
<1> HIDE DEF N, P
<1>7. /\ Account(t, "proposals", g, t \in killed', Of(t, observations) \cup N, Of(t, proposals) \cup P,
                 Of(t, findings) \cup N, Of(t, validations) \cup N)
      /\ Follows(t, Of(t, observations) \cup N, Of(t, proposals) \cup P, Of(t, findings) \cup N,
                 Of(t, validations) \cup N)
  BY <1>1, <1>2, <1>6, Zenon
<1>8. QED
  BY <1>1, <1>3, <1>4, <1>5, <1>7, TickMoves, Zenon

LEMMA LearnChecksProposals ==
  ASSUME LearnInv, NEW t \in Ticks, Learning!CheckProposals(t)
  PROVE  LearnInv'
<1> DEFINE h == held[t]
           g == Rewound(h)
<1>1. /\ stage[t] = "proposals" /\ h.next > Len(h.cs)
      /\ stage' = [stage EXCEPT ![t] = "check"] /\ held' = [held EXCEPT ![t] = g]
      /\ UNCHANGED <<scenario, adapter, raw, summaries, creates, torn, decisions, observations,
                     proposals, findings, validations, killed>>
  BY DEF Learning!CheckProposals, Learning!Goes, Learning!runVars, Learning!learnVars, Rewound
<1>2. Account(t, "check", g, t \in killed, Of(t, observations), Of(t, proposals),
              Of(t, findings), Of(t, validations))
  BY <1>1, TickFacts, AccountChecked
<1>3. Knows("check", g, summaries, decisions) /\ "check" \in LearnStages
  BY DEF Knows, LearnStages
<1> HIDE DEF g, h
<1>4. QED
  BY <1>1, <1>2, <1>3, TickTurns, Zenon

LEMMA LearnSavesFinding ==
  ASSUME LearnInv, NEW t \in Ticks, Learning!SaveFinding(t)
  PROVE  LearnInv'
<1> DEFINE h == held[t]
           g == Counted(h)
           F == {NewFinding(t, h)}
           N == {}
<1>1. /\ stage[t] = "check" /\ h.next <= Len(h.cs)
      /\ h.found < Len(Learning!Findings(h.cs[h.next]))
      /\ findings' = findings \cup F /\ held' = [held EXCEPT ![t] = g]
      /\ UNCHANGED <<stage, scenario, adapter, raw, summaries, creates, torn, decisions,
                     observations, proposals, validations, killed>>
  BY DEF Learning!SaveFinding, Learning!Checking, Learning!Name, Learning!Current,
         Learning!runVars, Counted, NewFinding, Place
<1>2. /\ Account(t, "check", g, t \in killed, Of(t, observations), Of(t, proposals),
                 Of(t, findings) \cup F, Of(t, validations))
      /\ Follows(t, Of(t, observations), Of(t, proposals), Of(t, findings) \cup F,
                 Of(t, validations))
  <2>1. /\ Account(t, "check", h, t \in killed, Of(t, observations), Of(t, proposals),
                   Of(t, findings), Of(t, validations))
        /\ Follows(t, Of(t, observations), Of(t, proposals), Of(t, findings), Of(t, validations))
    BY <1>1, TickFacts
  <2> HIDE DEF h
  <2>2. QED
    BY <1>1, <2>1, AccountFound
<1>3. Knows("check", g, summaries, decisions) /\ "check" \in LearnStages
  BY DEF Knows, LearnStages
<1>4. \A f \in F : f.tick = t
  BY DEF NewFinding
<1> HIDE DEF h, g
<1>5. /\ stage' = [stage EXCEPT ![t] = "check"]
      /\ observations' = observations \cup N /\ proposals' = proposals \cup N
      /\ validations' = validations \cup N /\ \A x \in N : FALSE
  BY <1>1, TickFacts
<1>6. \A S : S \cup N = S
  OBVIOUS
<1> HIDE DEF N, F
<1>7. /\ Account(t, "check", g, t \in killed', Of(t, observations) \cup N, Of(t, proposals) \cup N,
                 Of(t, findings) \cup F, Of(t, validations) \cup N)
      /\ Follows(t, Of(t, observations) \cup N, Of(t, proposals) \cup N, Of(t, findings) \cup F,
                 Of(t, validations) \cup N)
  BY <1>1, <1>2, <1>6, Zenon
<1>8. QED
  BY <1>1, <1>3, <1>4, <1>5, <1>7, TickMoves, Zenon

LEMMA LearnValidates ==
  ASSUME LearnInv, NEW t \in Ticks, Learning!Validate(t)
  PROVE  LearnInv'
<1> DEFINE h == held[t]
           g == Beyond(h)
           V == NewValidations(t, h)
           N == {}
<1>1. /\ stage[t] = "check" /\ h.next <= Len(h.cs)
      /\ h.found = Len(Learning!Findings(h.cs[h.next]))
      /\ validations' = validations \cup V /\ held' = [held EXCEPT ![t] = g]
      /\ UNCHANGED <<stage, scenario, adapter, raw, summaries, creates, torn, decisions,
                     observations, proposals, findings, killed>>
  BY Zenon DEF Learning!Validate, Learning!Checking, Learning!Name, Learning!Current,
         Learning!runVars, Beyond, NewValidations, Place
<1>2. /\ Account(t, "check", g, t \in killed, Of(t, observations), Of(t, proposals),
                 Of(t, findings), Of(t, validations) \cup V)
      /\ Follows(t, Of(t, observations), Of(t, proposals), Of(t, findings),
                 Of(t, validations) \cup V)
  <2>1. /\ Account(t, "check", h, t \in killed, Of(t, observations), Of(t, proposals),
                   Of(t, findings), Of(t, validations))
        /\ Follows(t, Of(t, observations), Of(t, proposals), Of(t, findings), Of(t, validations))
    BY <1>1, TickFacts
  <2> HIDE DEF h
  <2>2. QED
    BY <1>1, <2>1, AccountValidated
<1>3. Knows("check", g, summaries, decisions) /\ "check" \in LearnStages
  BY DEF Knows, LearnStages
<1>4. \A v \in V : v.tick = t /\ v.recommendation \in {"send_to_approval", "hold"}
  BY DEF NewValidations, Learning!Recommended
<1> HIDE DEF h, g
<1>5. /\ stage' = [stage EXCEPT ![t] = "check"]
      /\ observations' = observations \cup N /\ proposals' = proposals \cup N
      /\ findings' = findings \cup N /\ \A x \in N : FALSE
  BY <1>1, TickFacts
<1>6. \A S : S \cup N = S
  OBVIOUS
<1> HIDE DEF N, V
<1>7. /\ Account(t, "check", g, t \in killed', Of(t, observations) \cup N, Of(t, proposals) \cup N,
                 Of(t, findings) \cup N, Of(t, validations) \cup V)
      /\ Follows(t, Of(t, observations) \cup N, Of(t, proposals) \cup N, Of(t, findings) \cup N,
                 Of(t, validations) \cup V)
  BY <1>1, <1>2, <1>6, Zenon
<1>8. QED
  BY <1>1, <1>3, <1>4, <1>5, <1>7, TickMoves, Zenon

LEMMA LearnReports ==
  ASSUME LearnInv, NEW t \in Ticks, Learning!Report(t)
  PROVE  LearnInv'
<1> DEFINE h == held[t]
<1>1. /\ stage[t] = "check" /\ h.next > Len(h.cs)
      /\ stage' = [stage EXCEPT ![t] = "over"] /\ held' = [held EXCEPT ![t] = None]
      /\ UNCHANGED <<scenario, adapter, raw, summaries, creates, torn, decisions, observations,
                     proposals, findings, validations, killed>>
  BY DEF Learning!Report, Learning!Ends, Learning!Goes, Learning!Holds, Learning!runVars,
         Learning!learnVars
<1>2. Account(t, "over", None, t \in killed, Of(t, observations), Of(t, proposals),
              Of(t, findings), Of(t, validations))
  BY <1>1, TickFacts, AccountReported
<1>3. Knows("over", None, summaries, decisions) /\ "over" \in LearnStages
  BY DEF Knows, LearnStages
<1> HIDE DEF h
<1>4. QED
  BY <1>1, <1>2, <1>3, TickTurns, Zenon

LEMMA LearnIsKilled ==
  ASSUME LearnInv, NEW t \in Ticks, Learning!KillTick(t)
  PROVE  LearnInv'
<1>1. /\ stage' = [stage EXCEPT ![t] = "over"] /\ held' = [held EXCEPT ![t] = None]
      /\ killed' = killed \cup {t}
      /\ UNCHANGED <<scenario, adapter, raw, summaries, creates, torn, decisions, observations,
                     proposals, findings, validations>>
  BY DEF Learning!KillTick, Learning!Ends, Learning!Goes, Learning!Holds, Learning!runVars
<1>2. /\ t \in killed' /\ \A u \in Ticks \ {t} : u \in killed' <=> u \in killed
  BY <1>1
<1>3. Account(t, "over", None, t \in killed', Of(t, observations), Of(t, proposals),
              Of(t, findings), Of(t, validations))
  BY <1>2 DEF Account
<1>4. Knows("over", None, summaries, decisions) /\ "over" \in LearnStages
  BY DEF Knows, LearnStages
<1>5. QED
  BY <1>1, <1>2, <1>3, <1>4, TickTurns, Zenon

\* Steps of runs, clerks and decisions leave ticks what they hold, and what they know
\* true: logs only grow.
LEMMA TicksStay ==
  ASSUME LearnInv, LearnRunInv',
         \A t \in Ticks : stage'[t] = stage[t] /\ held'[t] = held[t],
         UNCHANGED <<observations, proposals, findings, validations, killed>>,
         \A i \in DOMAIN summaries : i \in DOMAIN summaries' /\ summaries'[i] = summaries[i],
         \A i \in DOMAIN decisions : i \in DOMAIN decisions' /\ decisions'[i] = decisions[i]
  PROVE  LearnInv'
<1>1. \A o : Seen(o, summaries, decisions) => Seen(o, summaries', decisions')
  BY SeenStays
<1>2. LearnRowInv'
  BY <1>1 DEF LearnInv, LearnRowInv
<1>3. ASSUME NEW t \in Ticks PROVE TickKeeps(t)'
  <2>1. Knows(stage[t], held[t], summaries', decisions')
    BY <1>1 DEF LearnInv, TickKeeps, Knows
  <2>2. QED
    BY <2>1 DEF LearnInv, TickKeeps
<1>4. QED
  BY <1>2, <1>3 DEF LearnInv

LEMMA LearnDecides ==
  ASSUME LearnInv, NEW kind \in DecisionKinds, Learning!Decide(kind)
  PROVE  LearnInv'
<1>1. /\ decisions' = Append(decisions, kind)
      /\ UNCHANGED <<stage, held, scenario, adapter, raw, summaries, creates, torn, observations,
                     proposals, findings, validations, killed>>
  BY DEF Learning!Decide, Learning!runVars
<1>2. decisions \in Seq(DecisionKinds)
  BY DEF LearnInv, LearnRunInv, LearnTypes
<1>3. /\ decisions' \in Seq(DecisionKinds)
      /\ \A i \in DOMAIN decisions : i \in DOMAIN decisions' /\ decisions'[i] = decisions[i]
  BY <1>1, <1>2
<1>4. LearnRunInv'
  <2>1. LearnTypes'
    BY <1>1, <1>3 DEF LearnInv, LearnRunInv, LearnTypes
  <2>2. \A r \in Processes : RunKeeps(r)'
    BY <1>1 DEF LearnInv, LearnRunInv, RunKeeps
  <2>3. \A c \in Clerks : ClerkKeeps(c)'
    BY <1>1 DEF LearnInv, LearnRunInv, ClerkKeeps
  <2>4. Learning!RunsAreRecorded'
    BY <1>1 DEF LearnInv, LearnRunInv, Learning!RunsAreRecorded
  <2>5. QED
    BY <2>1, <2>2, <2>3, <2>4 DEF LearnRunInv
<1>5. QED
  BY <1>1, <1>3, <1>4, TicksStay

LEMMA ActorMoves ==
  ASSUME LearnTypes, NEW p \in Processes \cup Clerks, NEW st \in RunStages \cup {"archive"}, NEW h,
         stage' = [stage EXCEPT ![p] = st], held' = [held EXCEPT ![p] = h],
         p \in Processes => st \in RunStages, p \in Clerks => st \in {"idle", "archive", "over"}
  PROVE  /\ stage'[p] = st /\ held'[p] = h
         /\ \A q \in LoopActors \ {p} : stage'[q] = stage[q] /\ held'[q] = held[q]
         /\ \A t \in Ticks : stage'[t] = stage[t] /\ held'[t] = held[t]
         /\ stage' \in [LoopActors -> RunStages \cup {"archive"} \cup LearnStages] /\ Holding(held')
         /\ \A r \in Processes : stage'[r] \in RunStages
         /\ \A c \in Clerks : stage'[c] \in {"idle", "archive", "over"}
         /\ \A t \in Ticks : stage'[t] \in LearnStages
<1>1. p \in LoopActors
  BY ActorsDiffer
<1>2. stage \in [LoopActors -> RunStages \cup {"archive"} \cup LearnStages]
      /\ held = [q \in LoopActors |-> held[q]]
  BY DEF LearnTypes, Holding
<1>3. DOMAIN held = LoopActors
  BY <1>2
<1>4. DOMAIN held' = LoopActors /\ held'[p] = h /\ \A q \in LoopActors \ {p} : held'[q] = held[q]
  BY <1>1, <1>3
<1>5. held' = [q \in LoopActors |-> held'[q]]
  BY <1>1, <1>3, Zenon
<1>6. stage'[p] = st /\ \A q \in LoopActors \ {p} : stage'[q] = stage[q]
  BY <1>1, <1>2
<1>7. stage' \in [LoopActors -> RunStages \cup {"archive"} \cup LearnStages]
  BY <1>1, <1>2
<1>8. \A t \in Ticks : stage'[t] = stage[t] /\ held'[t] = held[t]
  BY <1>4, <1>6, ActorsDiffer
<1>9. /\ \A r \in Processes : stage'[r] \in RunStages
      /\ \A c \in Clerks : stage'[c] \in {"idle", "archive", "over"}
      /\ \A t \in Ticks : stage'[t] \in LearnStages
  BY <1>4, <1>6, <1>8, ActorsDiffer DEF LearnTypes
<1>10. QED
  BY <1>4, <1>5, <1>6, <1>7, <1>8, <1>9 DEF Holding

\* A step of a run other than the saving of its logs.
LEMMA RunGoes ==
  ASSUME LearnInv, NEW r \in Processes, NEW st \in RunStages, NEW h, NEW doing,
         stage' = [stage EXCEPT ![r] = st], held' = [held EXCEPT ![r] = h],
         adapter' = [adapter EXCEPT ![r] = doing], doing \in Doings,
         UNCHANGED <<scenario, raw, summaries, creates, torn, decisions, observations, proposals,
                     findings, validations, killed>>,
         st = "check" => h \in ScenarioRow,
         st \in {"raw", "summary"} => h.verdict \in Verdicts /\ h.verdict = OutcomeOf(doing),
         doing = Learning!Working => st = "wait",
         st # "summary", stage[r] # "over"
  PROVE  LearnInv'
<1>1. LearnTypes
  BY DEF LearnInv, LearnRunInv
<1>2. /\ stage'[r] = st /\ held'[r] = h
      /\ \A q \in LoopActors \ {r} : stage'[q] = stage[q] /\ held'[q] = held[q]
      /\ \A t \in Ticks : stage'[t] = stage[t] /\ held'[t] = held[t]
      /\ stage' \in [LoopActors -> RunStages \cup {"archive"} \cup LearnStages] /\ Holding(held')
      /\ \A q \in Processes : stage'[q] \in RunStages
      /\ \A c \in Clerks : stage'[c] \in {"idle", "archive", "over"}
      /\ \A t \in Ticks : stage'[t] \in LearnStages
  BY <1>1, ActorMoves, ActorsDiffer, Zenon
<1>a. adapter' \in [Processes -> Doings] /\ adapter'[r] = doing
      /\ \A q \in Processes \ {r} : adapter'[q] = adapter[q]
  BY <1>1 DEF LearnTypes
<1>3. LearnTypes'
  BY <1>1, <1>2, <1>a DEF LearnTypes
<1>4. ASSUME NEW q \in Processes PROVE RunKeeps(q)'
  <2>1. RunKeeps(q)
    BY DEF LearnInv, LearnRunInv
  <2>2. CASE q = r
    BY <1>2, <1>a, <2>1, <2>2 DEF RunKeeps
  <2>3. CASE q # r
    BY <1>2, <1>a, <2>1, <2>3, ActorsDiffer DEF RunKeeps
  <2>4. QED
    BY <2>2, <2>3
<1>5. ASSUME NEW c \in Clerks PROVE ClerkKeeps(c)'
  BY <1>2, ActorsDiffer DEF LearnInv, LearnRunInv, ClerkKeeps
<1>6. Learning!RunsAreRecorded'
  <2>1. \A i \in DOMAIN summaries : summaries[i].run \in Processes \ {r}
    <3>1. \A i \in DOMAIN summaries : summaries[i] \in SummaryRow
      BY <1>1 DEF LearnTypes
    <3>2. \A i \in DOMAIN summaries : summaries[i].run # r
      BY DEF LearnInv, LearnRunInv, RunKeeps
    <3>3. QED
      BY <3>1, <3>2 DEF SummaryRow
  <2>2. QED
    BY <1>a, <2>1 DEF LearnInv, LearnRunInv, Learning!RunsAreRecorded
<1>7. LearnRunInv'
  BY <1>3, <1>4, <1>5, <1>6 DEF LearnRunInv
<1>8. QED
  BY <1>2, <1>7, TicksStay

LEMMA LearnRuns ==
  ASSUME LearnInv, NEW r \in Processes,
         \/ Learning!LoadRegistry(r) \/ Learning!RefuseArchived(r) \/ Learning!StartAdapter(r)
         \/ Learning!TakeAnswer(r) \/ Learning!TimeOut(r) \/ Learning!KillRun(r)
         \/ \E answer \in Results : Learning!AdapterAnswers(r, answer),
         UNCHANGED Learning!learnVars
  PROVE  LearnInv'
<1>1. /\ r \in LoopActors /\ LearnTypes /\ RunKeeps(r) /\ stage[r] \in RunStages
      /\ adapter[r] \in Doings
      /\ Results \subseteq Doings
      /\ None \in Doings /\ Learning!Working \in Doings /\ Learning!Abandoned \in Doings
      /\ adapter = [adapter EXCEPT ![r] = adapter[r]]
      /\ stage = [stage EXCEPT ![r] = stage[r]]
      /\ held = [held EXCEPT ![r] = held[r]]
      /\ scenario \in ScenarioRow
  BY ActorsDiffer DEF LearnInv, LearnRunInv, LearnTypes, Holding, Doings
<1>a. adapter[r] = Learning!Working => stage[r] = "wait"
  BY <1>1 DEF RunKeeps
<1>2. UNCHANGED <<decisions, observations, proposals, findings, validations, killed>>
  BY DEF Learning!learnVars
<1>3. CASE Learning!LoadRegistry(r)
  <2>1. /\ stage[r] = "idle" /\ stage' = [stage EXCEPT ![r] = "check"]
        /\ held' = [held EXCEPT ![r] = scenario]
        /\ UNCHANGED <<adapter, scenario, raw, summaries, creates, torn>>
    BY <1>3 DEF Learning!LoadRegistry, Learning!Goes, Learning!Holds, Learning!runVars
  <2>2. adapter[r] # Learning!Working
    BY <1>a, <2>1
  <2>3. QED
    BY <1>1, <1>2, <2>1, <2>2, RunGoes, Zenon DEF RunStages
<1>4. CASE Learning!RefuseArchived(r)
  <2>1. /\ stage[r] = "check" /\ stage' = [stage EXCEPT ![r] = "over"]
        /\ held' = [held EXCEPT ![r] = None]
        /\ UNCHANGED <<adapter, scenario, raw, summaries, creates, torn>>
    BY <1>4 DEF Learning!RefuseArchived, Learning!Ends, Learning!Goes, Learning!Holds, Learning!runVars
  <2>2. adapter[r] # Learning!Working
    BY <1>a, <2>1
  <2>3. QED
    BY <1>1, <1>2, <2>1, <2>2, RunGoes, Zenon DEF RunStages
<1>5. CASE Learning!StartAdapter(r)
  <2>1. /\ stage[r] = "check" /\ stage' = [stage EXCEPT ![r] = "wait"]
        /\ adapter' = [adapter EXCEPT ![r] = Learning!Working]
        /\ UNCHANGED <<held, scenario, raw, summaries, creates, torn>>
    BY <1>5 DEF Learning!StartAdapter, Learning!Goes
  <2>2. QED
    BY <1>1, <1>2, <2>1, RunGoes, Zenon DEF RunStages
<1>6. CASE Learning!TakeAnswer(r) \/ Learning!TimeOut(r)
  <2>1. PICK doing \in Doings, w \in Verdicts :
          /\ adapter' = [adapter EXCEPT ![r] = doing] /\ doing # Learning!Working
          /\ w = OutcomeOf(doing)
          /\ held' = [held EXCEPT ![r] = [config |-> held[r].config, verdict |-> w]]
    <3>1. CASE Learning!TakeAnswer(r)
      <4>1. /\ adapter[r] \in Results /\ adapter' = adapter
            /\ held' = [held EXCEPT ![r] = [config |-> held[r].config,
                                           verdict |-> Learning!Verdict(adapter[r])]]
        BY <3>1 DEF Learning!TakeAnswer, Learning!Holds, Learning!runVars
      <4>2. QED
        BY <1>1, <4>1, NotAnswered DEF Verdicts
    <3>2. CASE Learning!TimeOut(r)
      <4>1. /\ adapter' = [adapter EXCEPT ![r] = Learning!Abandoned]
            /\ held' = [held EXCEPT ![r] = [config |-> held[r].config,
                                           verdict |-> Learning!Failed("timeout")]]
        BY <3>2 DEF Learning!TimeOut, Learning!Holds
      <4>2. Learning!Failed("timeout") \in Verdicts
        BY DEF Verdicts
      <4>3. QED
        BY <1>1, <4>1, <4>2, NotAnswered
    <3>3. QED
      BY <1>6, <3>1, <3>2
  <2>2. /\ stage[r] = "wait" /\ stage' = [stage EXCEPT ![r] = "raw"]
        /\ UNCHANGED <<scenario, raw, summaries, creates, torn>>
    BY <1>6 DEF Learning!TakeAnswer, Learning!TimeOut, Learning!Goes, Learning!runVars
  <2> DEFINE g == [config |-> held[r].config, verdict |-> w]
  <2>3. held' = [held EXCEPT ![r] = g] /\ g.verdict \in Verdicts /\ g.verdict = OutcomeOf(doing)
    BY <2>1
  <2> HIDE DEF g, OutcomeOf
  <2>4. QED
    BY <1>1, <1>2, <2>1, <2>2, <2>3, RunGoes, Zenon DEF RunStages
<1>7. CASE Learning!KillRun(r)
  <2>1. PICK doing \in Doings :
          adapter' = [adapter EXCEPT ![r] = doing] /\ doing # Learning!Working
    <3>1. /\ adapter' = [adapter EXCEPT ![r] =
               IF adapter[r] \in {Learning!Working, Learning!Abandoned} THEN None ELSE adapter[r]]
          /\ stage[r] \in {"wait", "raw", "summary"}
      BY <1>7 DEF Learning!KillRun
    <3>2. QED
      BY <1>1, <3>1, NotAnswered
  <2>2. /\ stage' = [stage EXCEPT ![r] = "over"] /\ held' = [held EXCEPT ![r] = None]
        /\ stage[r] # "over" /\ UNCHANGED <<scenario, raw, summaries, creates, torn>>
    BY <1>7 DEF Learning!KillRun, Learning!Ends, Learning!Goes, Learning!Holds
  <2>3. QED
    BY <1>1, <1>2, <2>1, <2>2, RunGoes, Zenon DEF RunStages
<1>8. ASSUME NEW answer \in Results, Learning!AdapterAnswers(r, answer) PROVE LearnInv'
  <2>0. UNCHANGED <<stage, held, scenario, raw, summaries, creates, torn>>
    BY <1>8 DEF Learning!AdapterAnswers
  <2>1. PICK doing \in Doings :
          /\ adapter' = [adapter EXCEPT ![r] = doing] /\ doing # Learning!Working
          /\ stage[r] = "wait" \/ OutcomeOf(doing) = OutcomeOf(adapter[r])
    <3>1. CASE adapter[r] = Learning!Working
      <4>1. adapter' = [adapter EXCEPT ![r] = answer]
        BY <1>8, <3>1 DEF Learning!AdapterAnswers
      <4>2. QED
        BY <1>1, <1>a, <3>1, <4>1, NotAnswered
    <3>2. CASE adapter[r] = Learning!Abandoned
      <4>1. adapter' = [adapter EXCEPT ![r] = Learning!Late(answer)]
        BY <1>8, <3>2, NotAnswered DEF Learning!AdapterAnswers
      <4>2. Learning!Late(answer) \in Doings
        BY DEF Doings
      <4>3. QED
        BY <3>2, <4>1, <4>2, NotAnswered
    <3>3. QED
      BY <1>8, <3>1, <3>2 DEF Learning!AdapterAnswers
  <2> USE <2>0
  <2>2. LearnTypes'
    BY <1>1, <1>2, <2>1 DEF LearnTypes
  <2>3. LearnRunInv'
    <3>1. /\ adapter'[r] = doing /\ \A q \in Processes \ {r} : adapter'[q] = adapter[q]
      BY <1>1, <2>1 DEF LearnTypes
    <3>2. ASSUME NEW q \in Processes PROVE RunKeeps(q)'
      <4>1. RunKeeps(q)
        BY DEF LearnInv, LearnRunInv
      <4>2. CASE q = r
        BY <2>1, <3>1, <4>1, <4>2 DEF RunKeeps
      <4>3. CASE q # r
        BY <3>1, <4>1, <4>3 DEF RunKeeps
      <4>4. QED
        BY <4>2, <4>3
    <3>3. Learning!RunsAreRecorded'
      <4>1. ASSUME NEW i \in DOMAIN summaries
            PROVE  /\ summaries[i].run \in Processes
                   /\ summaries[i].run # r \/ stage[r] = "over"
        <5>1. summaries[i] \in SummaryRow
          BY <1>1 DEF LearnTypes
        <5>2. QED
          BY <1>1, <5>1 DEF SummaryRow, RunKeeps
      <4>2. \A i \in DOMAIN summaries :
              OutcomeOf(adapter'[summaries[i].run]) = OutcomeOf(adapter[summaries[i].run])
        BY <2>1, <3>1, <4>1
      <4>3. QED
        BY <4>2 DEF LearnInv, LearnRunInv, Learning!RunsAreRecorded
    <3>4. QED
      BY <2>2, <3>2, <3>3 DEF LearnInv, LearnRunInv, ClerkKeeps
  <2>4. QED
    BY <1>2, <2>0, <2>3, TicksStay
<1>9. QED
  BY <1>3, <1>4, <1>5, <1>6, <1>7, <1>8

LEMMA LearnSavesRaw ==
  ASSUME LearnInv, NEW r \in Processes, Learning!SaveRaw(r), UNCHANGED Learning!learnVars
  PROVE  LearnInv'
<1>1. /\ stage[r] = "raw" /\ stage' = [stage EXCEPT ![r] = "summary"]
      /\ raw' = [x \in DOMAIN raw \cup {r} |-> IF x = r THEN held[r] ELSE raw[x]]
      /\ UNCHANGED <<held, scenario, adapter, summaries, creates, torn, decisions, observations,
                     proposals, findings, validations, killed>>
  BY DEF Learning!SaveRaw, Learning!Goes, Learning!learnVars
<1>2. LearnTypes /\ RunKeeps(r) /\ r \in LoopActors
  BY ActorsDiffer DEF LearnInv, LearnRunInv
<1>3. held' = [held EXCEPT ![r] = held[r]]
  BY <1>1, <1>2 DEF LearnTypes, Holding
<1>4. /\ stage'[r] = "summary" /\ held'[r] = held[r]
      /\ \A q \in LoopActors \ {r} : stage'[q] = stage[q] /\ held'[q] = held[q]
      /\ \A t \in Ticks : stage'[t] = stage[t] /\ held'[t] = held[t]
      /\ stage' \in [LoopActors -> RunStages \cup {"archive"} \cup LearnStages] /\ Holding(held')
      /\ \A q \in Processes : stage'[q] \in RunStages
      /\ \A c \in Clerks : stage'[c] \in {"idle", "archive", "over"}
      /\ \A t \in Ticks : stage'[t] \in LearnStages
  <2>1. "summary" \in RunStages
    BY DEF RunStages
  <2>2. QED
    BY <1>1, <1>2, <1>3, <2>1, ActorMoves, ActorsDiffer, Zenon
<1>5. /\ DOMAIN raw' = DOMAIN raw \cup {r} /\ raw'[r] = held[r]
      /\ \A x \in DOMAIN raw \ {r} : raw'[x] = raw[x]
  BY <1>1
<1>6. LearnTypes'
  BY <1>1, <1>2, <1>4, <1>5 DEF LearnTypes
<1>7. ASSUME NEW q \in Processes PROVE RunKeeps(q)'
  <2>1. RunKeeps(q)
    BY DEF LearnInv, LearnRunInv
  <2>2. CASE q = r
    BY <1>1, <1>4, <1>5, <2>1, <2>2 DEF RunKeeps
  <2>3. CASE q # r
    BY <1>1, <1>4, <1>5, <2>1, <2>3, ActorsDiffer DEF RunKeeps
  <2>4. QED
    BY <2>2, <2>3
<1>8. ASSUME NEW c \in Clerks PROVE ClerkKeeps(c)'
  BY <1>4, ActorsDiffer DEF LearnInv, LearnRunInv, ClerkKeeps
<1>9. Learning!RunsAreRecorded'
  <2>1. \A i \in DOMAIN summaries : summaries[i].run # r
    BY <1>1, <1>2 DEF RunKeeps
  <2>2. Learning!RunsAreRecorded
    BY DEF LearnInv, LearnRunInv
  <2>3. QED
    BY <1>1, <1>5, <2>1, <2>2 DEF Learning!RunsAreRecorded
<1>10. LearnRunInv'
  BY <1>6, <1>7, <1>8, <1>9 DEF LearnRunInv
<1>11. QED
  BY <1>1, <1>4, <1>10, TicksStay

LEMMA LearnSavesSummary ==
  ASSUME LearnInv, NEW r \in Processes, Learning!SaveSummary(r), UNCHANGED Learning!learnVars
  PROVE  LearnInv'
<1> DEFINE new == [run |-> r, verdict |-> held[r].verdict]
           n == Len(summaries)
<1>1. /\ stage[r] = "summary" /\ stage' = [stage EXCEPT ![r] = "over"]
      /\ held' = [held EXCEPT ![r] = None] /\ summaries' = Append(summaries, new)
      /\ UNCHANGED <<raw, scenario, adapter, creates, torn, decisions, observations,
                     proposals, findings, validations, killed>>
  BY DEF Learning!SaveSummary, Learning!Ends, Learning!Goes, Learning!Holds, Learning!learnVars
<1>2. /\ LearnTypes /\ RunKeeps(r) /\ r \in LoopActors /\ Learning!RunsAreRecorded
      /\ summaries \in Seq(SummaryRow)
  BY ActorsDiffer DEF LearnInv, LearnRunInv, LearnTypes
<1>3. /\ held[r].verdict \in Verdicts /\ r \in DOMAIN raw /\ raw[r].verdict = held[r].verdict
      /\ \A i \in DOMAIN summaries : summaries[i].run # r
  BY <1>1, <1>2 DEF RunKeeps
<1>4. new \in SummaryRow /\ new.run = r /\ new.verdict = held[r].verdict
  BY <1>3 DEF SummaryRow
<1> HIDE DEF new
<1>5. /\ summaries' \in Seq(SummaryRow) /\ n \in Nat /\ DOMAIN summaries = 1 .. n
      /\ DOMAIN summaries' = 1 .. n + 1 /\ summaries'[n + 1] = new
      /\ \A i \in 1 .. n : i \in 1 .. n + 1 /\ summaries'[i] = summaries[i]
      /\ \A i \in 1 .. n + 1 : i = n + 1 \/ i \in 1 .. n
  BY <1>1, <1>2, <1>4
<1> HIDE DEF n
<1>6. /\ stage'[r] = "over" /\ held'[r] = None
      /\ \A q \in LoopActors \ {r} : stage'[q] = stage[q] /\ held'[q] = held[q]
      /\ \A t \in Ticks : stage'[t] = stage[t] /\ held'[t] = held[t]
      /\ stage' \in [LoopActors -> RunStages \cup {"archive"} \cup LearnStages] /\ Holding(held')
      /\ \A q \in Processes : stage'[q] \in RunStages
      /\ \A c \in Clerks : stage'[c] \in {"idle", "archive", "over"}
      /\ \A t \in Ticks : stage'[t] \in LearnStages
  <2>1. "over" \in RunStages
    BY DEF RunStages
  <2>2. QED
    BY <1>1, <1>2, <2>1, ActorMoves, ActorsDiffer, Zenon
<1>7. LearnTypes'
  BY <1>1, <1>2, <1>5, <1>6 DEF LearnTypes
<1>8. ASSUME NEW q \in Processes PROVE RunKeeps(q)'
  <2>1. RunKeeps(q)
    BY DEF LearnInv, LearnRunInv
  <2>2. CASE q = r
    BY <1>1, <1>2, <1>6, <2>2 DEF RunKeeps
  <2>3. CASE q # r
    <3>1. stage'[q] = stage[q] /\ held'[q] = held[q]
      BY <1>6, <2>3, ActorsDiffer
    <3>2. stage[q] # "over" => \A i \in 1 .. n + 1 : summaries'[i].run # q
      BY <1>4, <1>5, <2>1, <2>3 DEF RunKeeps
    <3>3. QED
      BY <1>1, <1>5, <2>1, <3>1, <3>2 DEF RunKeeps
  <2>4. QED
    BY <2>2, <2>3
<1>9. ASSUME NEW c \in Clerks PROVE ClerkKeeps(c)'
  BY <1>6, ActorsDiffer DEF LearnInv, LearnRunInv, ClerkKeeps
<1>10. Learning!RunsAreRecorded'
  <2>1. new.verdict = Learning!Outcome(new.run)
    BY <1>1, <1>2, <1>4 DEF RunKeeps
  <2>2. ASSUME NEW i \in 1 .. n + 1
        PROVE  /\ summaries'[i].run \in DOMAIN raw
               /\ raw[summaries'[i].run].verdict = summaries'[i].verdict
               /\ summaries'[i].verdict = Learning!Outcome(summaries'[i].run)
    <3>1. CASE i = n + 1
      BY <1>3, <1>4, <1>5, <2>1, <3>1
    <3>2. CASE i \in 1 .. n
      BY <1>2, <1>5, <3>2 DEF Learning!RunsAreRecorded
    <3>3. QED
      BY <1>5, <3>1, <3>2
  <2>3. ASSUME NEW i \in 1 .. n + 1, NEW j \in 1 .. n + 1, summaries'[j].run = summaries'[i].run
        PROVE  i = j
    <3>1. CASE i \in 1 .. n /\ j \in 1 .. n
      BY <1>2, <1>5, <2>3, <3>1 DEF Learning!RunsAreRecorded
    <3>2. CASE ~(i \in 1 .. n /\ j \in 1 .. n)
      BY <1>3, <1>4, <1>5, <2>3, <3>2
    <3>3. QED
      BY <3>1, <3>2
  <2>4. ~torn' => scenario'.config = creates'
    BY <1>1, <1>2 DEF Learning!RunsAreRecorded
  <2>5. QED
    BY <1>1, <1>5, <2>2, <2>3, <2>4 DEF Learning!RunsAreRecorded
<1>11. LearnRunInv'
  BY <1>7, <1>8, <1>9, <1>10 DEF LearnRunInv
<1>12. QED
  BY <1>1, <1>5, <1>6, <1>11, TicksStay

LEMMA LearnArchives ==
  ASSUME LearnInv, NEW c \in Clerks, Learning!ReadToArchive(c) \/ Learning!SaveArchived(c),
         UNCHANGED Learning!learnVars
  PROVE  LearnInv'
<1>1. PICK st, h :
        /\ st \in {"archive", "over"} /\ (st = "archive" => h = scenario)
        /\ stage' = [stage EXCEPT ![c] = st] /\ held' = [held EXCEPT ![c] = h]
  BY DEF Learning!ReadToArchive, Learning!SaveArchived, Learning!Ends, Learning!Goes, Learning!Holds
<1>2. UNCHANGED <<adapter, raw, summaries, creates, decisions, observations, proposals, findings,
                  validations, killed>>
  BY DEF Learning!ReadToArchive, Learning!SaveArchived, Learning!runVars, Learning!learnVars
<1>3. /\ LearnTypes /\ ClerkKeeps(c) /\ c \in LoopActors /\ Learning!RunsAreRecorded
      /\ scenario \in ScenarioRow
  BY ActorsDiffer DEF LearnInv, LearnRunInv, LearnTypes
<1>4. scenario' \in ScenarioRow /\ (~torn' => scenario'.config = creates')
  <2>1. CASE Learning!ReadToArchive(c)
    BY <1>3, <2>1 DEF Learning!ReadToArchive, Learning!runVars, Learning!RunsAreRecorded
  <2>2. CASE Learning!SaveArchived(c)
    <3>1. stage[c] = "archive" /\ scenario' = [held[c] EXCEPT !.archived = TRUE]
          /\ torn' = (torn \/ held[c].config # scenario.config) /\ creates' = creates
      BY <2>2 DEF Learning!SaveArchived, Learning!Ends, Learning!Goes, Learning!Archived
    <3>2. held[c] \in ScenarioRow
      BY <1>3, <3>1 DEF ClerkKeeps
    <3>3. scenario' \in ScenarioRow /\ scenario'.config = held[c].config
      BY <3>1, <3>2, Zenon DEF ScenarioRow
    <3>4. QED
      BY <1>3, <3>1, <3>3, Zenon DEF Learning!RunsAreRecorded
  <2>3. QED
    BY <2>1, <2>2
<1>5. /\ stage'[c] = st /\ held'[c] = h
      /\ \A q \in LoopActors \ {c} : stage'[q] = stage[q] /\ held'[q] = held[q]
      /\ \A t \in Ticks : stage'[t] = stage[t] /\ held'[t] = held[t]
      /\ stage' \in [LoopActors -> RunStages \cup {"archive"} \cup LearnStages] /\ Holding(held')
      /\ \A q \in Processes : stage'[q] \in RunStages
      /\ \A d \in Clerks : stage'[d] \in {"idle", "archive", "over"}
      /\ \A t \in Ticks : stage'[t] \in LearnStages
  <2>1. st \in RunStages \cup {"archive"}
    BY <1>1 DEF RunStages
  <2>2. QED
    BY <1>1, <1>3, <2>1, ActorMoves, ActorsDiffer, Zenon
<1>6. LearnTypes'
  BY <1>2, <1>3, <1>4, <1>5 DEF LearnTypes
<1>7. ASSUME NEW r \in Processes PROVE RunKeeps(r)'
  BY <1>2, <1>5, ActorsDiffer DEF LearnInv, LearnRunInv, RunKeeps
<1>8. ASSUME NEW d \in Clerks PROVE ClerkKeeps(d)'
  <2>1. CASE d = c
    BY <1>1, <1>3, <1>5, <2>1 DEF ClerkKeeps
  <2>2. CASE d # c
    BY <1>5, <2>2, ActorsDiffer DEF LearnInv, LearnRunInv, ClerkKeeps
  <2>3. QED
    BY <2>1, <2>2
<1>9. Learning!RunsAreRecorded'
  BY <1>2, <1>3, <1>4 DEF Learning!RunsAreRecorded
<1>10. LearnRunInv'
  BY <1>6, <1>7, <1>8, <1>9 DEF LearnRunInv
<1>11. QED
  BY <1>2, <1>5, <1>10, TicksStay

LEMMA LearnSavesScenario ==
  ASSUME LearnInv, Learning!SaveScenario, UNCHANGED Learning!learnVars
  PROVE  LearnInv'
<1>1. /\ creates < MaxConfig /\ creates' = creates + 1
      /\ scenario' = [config |-> creates', archived |-> FALSE]
      /\ UNCHANGED <<stage, held, adapter, raw, summaries, decisions, observations, proposals,
                     findings, validations, killed>>
  BY DEF Learning!SaveScenario, Learning!learnVars
<1>2. LearnTypes /\ Learning!RunsAreRecorded /\ MaxConfig \in Nat
  BY LearningAssumption DEF LearnInv, LearnRunInv, LearningAssumption
<1>3. creates' \in 1 .. MaxConfig /\ scenario' \in ScenarioRow /\ scenario'.config = creates'
  BY <1>1, <1>2 DEF LearnTypes, ScenarioRow
<1>4. LearnTypes'
  BY <1>1, <1>2, <1>3 DEF LearnTypes
<1>5. Learning!RunsAreRecorded'
  BY <1>1, <1>2, <1>3 DEF Learning!RunsAreRecorded
<1>6. LearnRunInv'
  BY <1>1, <1>4, <1>5 DEF LearnInv, LearnRunInv, RunKeeps, ClerkKeeps
<1>7. QED
  BY <1>1, <1>6, TicksStay

LEMMA LearnInit == Learning!Init => LearnInv
<1> SUFFICES ASSUME Learning!Init PROVE LearnInv
  OBVIOUS
<1>1. /\ stage = [p \in LoopActors |-> "idle"] /\ held = [p \in LoopActors |-> None]
      /\ scenario = [config |-> 1, archived |-> FALSE] /\ adapter = [r \in Processes |-> None]
      /\ raw = <<>> /\ summaries = <<>> /\ creates = 1 /\ torn = FALSE
      /\ decisions = <<>> /\ observations = {} /\ proposals = {} /\ findings = {}
      /\ validations = {}
  BY DEF Learning!Init, Learning!RunInit, LoopActors
<1>2. MaxConfig \in Nat \ {0}
  BY LearningAssumption DEF LearningAssumption
<1>3. LearnTypes
  BY <1>1, <1>2, ActorsDiffer DEF LearnTypes, Holding, RunStages, LearnStages, ScenarioRow, Doings
<1>4. LearnRunInv
  BY <1>1, <1>3, ActorsDiffer, NotAnswered DEF LearnRunInv, RunKeeps, ClerkKeeps, Learning!RunsAreRecorded
<1>5. LearnRowInv
  BY <1>1 DEF LearnRowInv
<1>6. ASSUME NEW t \in Ticks PROVE TickKeeps(t)
  <2>1. /\ Of(t, observations) = {} /\ Of(t, proposals) = {} /\ Of(t, findings) = {}
        /\ Of(t, validations) = {} /\ stage[t] = "idle"
    BY <1>1, ActorsDiffer DEF Of
  <2>2. \A h, lost : Account(t, "idle", h, lost, {}, {}, {}, {})
    BY DEF Account
  <2>3. Follows(t, {}, {}, {}, {})
    BY DEF Follows
  <2>4. \A h, a, b : Knows("idle", h, a, b)
    BY DEF Knows
  <2>5. QED
    BY <2>1, <2>2, <2>3, <2>4 DEF TickKeeps
<1>7. QED
  BY <1>4, <1>5, <1>6 DEF LearnInv

LEMMA LearnNext == LearnInv /\ [Learning!Next]_(Learning!vars) => LearnInv'
<1> SUFFICES ASSUME LearnInv, [Learning!Next]_(Learning!vars) PROVE LearnInv'
  OBVIOUS
<1>1. CASE UNCHANGED Learning!vars
  <2>1. UNCHANGED <<stage, held, scenario, adapter, raw, summaries, creates, torn, decisions,
                    observations, proposals, findings, validations, killed>>
    BY <1>1 DEF Learning!vars, Learning!runVars, Learning!learnVars
  <2>2. LearnRunInv'
    BY <2>1 DEF LearnInv, LearnRunInv, LearnTypes, RunKeeps, ClerkKeeps, Learning!RunsAreRecorded
  <2>3. QED
    BY <2>1, <2>2, TicksStay
<1>2. CASE Learning!RunNext /\ UNCHANGED Learning!learnVars
  <2>1. CASE \E r \in Processes : Learning!SaveRaw(r) \/ Learning!SaveSummary(r)
    BY <1>2, <2>1, LearnSavesRaw, LearnSavesSummary
  <2>2. CASE \E c \in Clerks : Learning!ReadToArchive(c) \/ Learning!SaveArchived(c)
    BY <1>2, <2>2, LearnArchives
  <2>3. CASE Learning!SaveScenario
    BY <1>2, <2>3, LearnSavesScenario
  <2>4. CASE \E r \in Processes :
               \/ Learning!LoadRegistry(r) \/ Learning!RefuseArchived(r) \/ Learning!StartAdapter(r)
               \/ Learning!TakeAnswer(r) \/ Learning!TimeOut(r) \/ Learning!KillRun(r)
               \/ \E answer \in Results : Learning!AdapterAnswers(r, answer)
    BY <1>2, <2>4, LearnRuns
  <2>5. QED
    BY <1>2, <2>1, <2>2, <2>3, <2>4 DEF Learning!RunNext
<1>3. CASE \E kind \in DecisionKinds : Learning!Decide(kind)
  BY <1>3, LearnDecides
<1>4. CASE \E t \in Ticks :
             \/ Learning!ObserveMetrics(t) \/ Learning!ObserveDecisions(t)
             \/ Learning!SaveObservation(t) \/ Learning!DrawProposals(t)
             \/ Learning!CreateProposal(t) \/ Learning!CheckProposals(t)
             \/ Learning!SaveFinding(t) \/ Learning!Validate(t) \/ Learning!Report(t)
             \/ Learning!KillTick(t)
  BY <1>4, LearnObservesMetrics, LearnObservesDecisions, LearnSavesObservation, LearnDrawsProposals,
     LearnCreatesProposal, LearnChecksProposals, LearnSavesFinding, LearnValidates, LearnReports,
     LearnIsKilled
<1>5. CASE Learning!Next
  BY <1>2, <1>3, <1>4, <1>5 DEF Learning!Next
<1>6. QED
  BY <1>1, <1>5

LEMMA LearnHasTypes == LearnInv => Learning!TypeOK
<1> SUFFICES ASSUME LearnInv PROVE Learning!TypeOK
  OBVIOUS
<1>1. LearnTypes /\ LearnRowInv
  BY DEF LearnInv, LearnRunInv
<1>2. Learning!RunTypeOK
  <2>1. \A r \in Processes : stage[r] \in {"idle", "check", "wait", "raw", "summary", "over"}
    BY <1>1 DEF LearnTypes, RunStages
  <2>2. scenario.config \in 1 .. MaxConfig /\ scenario.archived \in BOOLEAN
    BY <1>1 DEF LearnTypes, ScenarioRow
  <2>3. \A i \in DOMAIN summaries : summaries[i].run \in Processes
    <3>1. \A s \in SummaryRow : s.run \in Processes
      BY DEF SummaryRow
    <3>2. summaries \in Seq(SummaryRow)
      BY <1>1 DEF LearnTypes
    <3>3. \A i \in DOMAIN summaries : summaries[i] \in SummaryRow
      BY <3>2
    <3>4. QED
      BY <3>1, <3>3
  <2>4. QED
    BY <1>1, <2>1, <2>2, <2>3 DEF LearnTypes, Learning!RunTypeOK, Doings
<1>3. \A t \in Ticks : stage[t] \in {"idle", "decisions", "observations", "proposals", "check", "over"}
  BY <1>1 DEF LearnTypes, LearnStages
<1>4. \A i \in DOMAIN decisions : decisions[i] \in DecisionKinds
  BY <1>1 DEF LearnTypes
<1>5. QED
  BY <1>1, <1>2, <1>3, <1>4 DEF LearnRowInv, Learning!TypeOK

LEMMA LearnHolds == LearnInv => Learning!LearningIsGrounded
<1> SUFFICES ASSUME LearnInv PROVE Learning!LearningIsGrounded
  OBVIOUS
<1>1. Learning!RunsAreRecorded /\ LearnRowInv
  BY DEF LearnInv, LearnRunInv
<1>2. ASSUME NEW o \in observations PROVE Learning!Grounded(o.what)
  <2>1. Seen(o.what, summaries, decisions)
    BY <1>1 DEF LearnRowInv
  <2>2. QED
    BY <1>1, <2>1 DEF Seen, Learning!Grounded, Learning!RunsAreRecorded
<1>3. \A x \in observations \cup proposals \cup findings \cup validations :
        x.tick \in Ticks
  BY <1>1 DEF LearnRowInv
<1>4. ASSUME NEW t \in Ticks
      PROVE  /\ Follows(t, Of(t, observations), Of(t, proposals), Of(t, findings), Of(t, validations))
             /\ stage[t] = "over" /\ t \notin killed =>
                  Done(Of(t, observations), Of(t, proposals), Of(t, findings), Of(t, validations))
  BY DEF LearnInv, TickKeeps, Account
<1>5. ASSUME NEW p \in proposals
      PROVE  /\ [tick |-> p.tick, what |-> p.what.of] \in observations
             /\ \A q \in proposals : q.tick = p.tick /\ q.what.target = p.what.target => q = p
  <2>1. p.tick \in Ticks /\ p \in Of(p.tick, proposals)
    BY <1>3 DEF Of
  <2>2. [tick |-> p.tick, what |-> p.what.of] \in Of(p.tick, observations)
    BY <1>4, <2>1, Zenon DEF Follows
  <2>3. ASSUME NEW q \in proposals, q.tick = p.tick, q.what.target = p.what.target PROVE q = p
    <3>1. q \in Of(p.tick, proposals)
      BY <2>3 DEF Of
    <3>2. QED
      BY <1>4, <2>1, <2>3, <3>1 DEF Follows
  <2>4. QED
    BY <2>2, <2>3 DEF Of
<1> DEFINE ids == {p.id : p \in proposals}
           found == {f.proposal : f \in {g \in findings : g.reason # "refactor"}}
           validated == {v.proposal : v \in validations}
<1>6. ASSUME NEW f \in findings
      PROVE  f.tick \in Ticks /\ f \in Of(f.tick, findings) /\ f.proposal \in ids /\ f.proposal.tick = f.tick
  <2>1. f.tick \in Ticks /\ f \in Of(f.tick, findings)
    BY <1>3 DEF Of
  <2>2. PICK p \in Of(f.tick, proposals) : f.proposal = p.id
    BY <1>4, <2>1 DEF Follows
  <2>3. p \in proposals /\ p.id.tick = f.tick
    BY <1>4, <2>1, Zenon DEF Of, Follows
  <2>4. QED
    BY <2>1, <2>2, <2>3
<1>7. ASSUME NEW v \in validations
      PROVE  v.tick \in Ticks /\ v \in Of(v.tick, validations) /\ v.proposal \in ids /\ v.proposal.tick = v.tick
  <2>1. v.tick \in Ticks /\ v \in Of(v.tick, validations)
    BY <1>3 DEF Of
  <2>2. PICK p \in Of(v.tick, proposals) : v.proposal = p.id
    BY <1>4, <2>1 DEF Follows
  <2>3. p \in proposals /\ p.id.tick = v.tick
    BY <1>4, <2>1, Zenon DEF Of, Follows
  <2>4. QED
    BY <2>1, <2>2, <2>3
<1>8. found \cup validated \subseteq ids
  BY <1>6, <1>7
<1>9. found \cap validated = {}
  <2>1. SUFFICES ASSUME NEW f \in findings, f.reason # "refactor", NEW v \in validations,
                        f.proposal = v.proposal
                 PROVE  FALSE
    OBVIOUS
  <2>2. f \in Of(f.tick, findings) /\ v \in Of(f.tick, validations) /\ f.tick \in Ticks
    BY <1>6, <1>7, <2>1
  <2>3. QED
    BY <1>4, <2>1, <2>2 DEF Follows
<1>10. ASSUME NEW t \in Ticks \ killed, stage[t] = "over"
       PROVE  /\ \A p \in proposals : p.tick = t => p.id \in found \cup validated
              /\ \A o \in observations : o.tick = t /\ o.what.type = "metric_anomaly" =>
                   \E p \in proposals : p.tick = t /\ p.what.target = o.what.title
  <2>1. Done(Of(t, observations), Of(t, proposals), Of(t, findings), Of(t, validations))
    BY <1>4, <1>10
  <2>2. QED
    BY <2>1 DEF Done, Of
<1>11. QED
  BY <1>1, <1>2, <1>5, <1>8, <1>9, <1>10, Zenon DEF Learning!LearningIsGrounded

-----------------------------------------------------------------------------
(* The services side by side *)

\* Of BusinessLines: what a process has cached of a line is the line's row, unless
\* another process wrote it or its own save failed, and a row has a status that was
\* set, however many processes, lines and updates there are.
THEOREM CachedLinesFollowRows ==
  Spec => [](part = "lining" => Lining!TypeOK /\ Lining!CacheFollowsRows)
<1> DEFINE Inv == part = "lining" => LinesInv
<1>1. Init => Inv
  BY LinesInit DEF Init
<1>2. Inv /\ [Next]_vars => Inv'
  <2>1. ASSUME Inv, Next PROVE Inv'
    <3>1. SUFFICES ASSUME part' = "lining" PROVE LinesInv'
      OBVIOUS
    <3>2. part = "lining" /\ Lining!Next
      BY <2>1, <3>1 DEF Next
    <3>3. QED
      BY <2>1, <3>2, LinesStep
  <2>2. ASSUME Inv, UNCHANGED vars PROVE Inv'
    <3>1. UNCHANGED part /\ UNCHANGED Lining!vars
      BY <2>2 DEF vars, lineVars, Lining!vars
    <3>2. QED
      BY <2>2, <3>1, LinesStep
  <2>3. QED
    BY <2>1, <2>2
<1>3. Inv => (part = "lining" => Lining!TypeOK /\ Lining!CacheFollowsRows)
  BY DEF LinesInv
<1>4. QED
  BY <1>1, <1>2, <1>3, PTL DEF Spec

\* Of DryRunMode: however many coroutines open contexts, and however deep, as long as
\* contexts are left in the reverse order of their entry nothing runs within one,
\* and the mode outside is that which was last set.
THEOREM DryRunsDoNotRun ==
  Spec => [](part = "drying" => Drying!TypeOK /\ Drying!DryRunHolds)
<1> DEFINE Inv == part = "drying" => DryInv
<1>1. Init => Inv
  BY DryInit DEF Init
<1>2. Inv /\ [Next]_vars => Inv'
  <2>1. ASSUME Inv, Next PROVE Inv'
    <3>1. SUFFICES ASSUME part' = "drying" PROVE DryInv'
      OBVIOUS
    <3>2. part = "drying" /\ Drying!Next
      BY <2>1, <3>1 DEF Next
    <3>3. QED
      BY <2>1, <3>2, DryStep
  <2>2. ASSUME Inv, UNCHANGED vars PROVE Inv'
    <3>1. UNCHANGED part /\ UNCHANGED Drying!vars
      BY <2>2 DEF vars, dryRunVars, Drying!vars
    <3>2. QED
      BY <2>2, <3>1, DryStep
  <2>3. QED
    BY <2>1, <2>2
<1>3. Inv => (part = "drying" => Drying!TypeOK /\ Drying!DryRunHolds)
  BY DEF DryInv
<1>4. QED
  BY <1>1, <1>2, <1>3, PTL DEF Spec

\* ExperimentFeedback keeps its invariant, in which what a command is about to write has all
\* that was applied unless another has written the row since.
THEOREM FeedbackKeeps == Spec => [](part = "feedback" => FeedInv)
<1> DEFINE Inv == part = "feedback" => FeedInv
<1>1. Init => Inv
  BY FeedInit DEF Init
<1>2. Inv /\ [Next]_vars => Inv'
  <2>1. ASSUME Inv, Next PROVE Inv'
    <3>1. SUFFICES ASSUME part' = "feedback" PROVE FeedInv'
      OBVIOUS
    <3>2. part = "feedback" /\ Feedback!Next
      BY <2>1, <3>1 DEF Next
    <3>3. QED
      BY <2>1, <3>2, FeedNext
  <2>2. ASSUME Inv, UNCHANGED vars PROVE Inv'
    <3>1. UNCHANGED part /\ UNCHANGED Feedback!vars
      BY <2>2 DEF vars, feedbackOnly, Feedback!vars
    <3>2. QED
      BY <2>2, <3>1, FeedNext
  <2>3. QED
    BY <2>1, <2>2
<1>3. QED
  BY <1>1, <1>2, PTL DEF Spec

\* Of ExperimentFeedback: however feedback, ticks and promotions interleave, what has been
\* applied to an experiment stays unless it was written from a read that another write
\* had overtaken; promoted metrics are those the experiment was made with or feedback
\* that passed the gate, each line has one active baseline, and a baseline does not win
\* against the metrics it was made of (apply_to_experiment, set_baseline, set_active,
\* compare).
THEOREM FeedbackIsBacked == Spec => []FeedbackCounts
<1>1. (part = "feedback" => FeedInv) => FeedbackCounts
  BY FeedHolds DEF FeedbackCounts
<1>2. QED
  BY <1>1, FeedbackKeeps, PTL

\* VersionRecommendations keeps its invariant, in which what a command is about to write is
\* as sound as what the tables hold.
THEOREM RecommendingKeeps == Spec => [](part = "recommending" => CommandsInv)
<1> DEFINE Inv == part = "recommending" => CommandsInv
<1>1. Init => Inv
  BY CommandsInit DEF Init
<1>2. Inv /\ [Next]_vars => Inv'
  <2>1. ASSUME Inv, Next PROVE Inv'
    <3>1. SUFFICES ASSUME part' = "recommending" PROVE CommandsInv'
      OBVIOUS
    <3>2. part = "recommending" /\ Recommending!Next
      BY <2>1, <3>1 DEF Next
    <3>3. QED
      BY <2>1, <3>2, CommandsNext
  <2>2. ASSUME Inv, UNCHANGED vars PROVE Inv'
    <3>1. UNCHANGED part /\ UNCHANGED Recommending!vars
      BY <2>2 DEF vars, recommendationVars, Recommending!vars, Recommending!shadowVars
    <3>2. QED
      BY <2>2, <3>1, CommandsNext
  <2>3. QED
    BY <2>1, <2>2
<1>3. QED
  BY <1>1, <1>2, PTL DEF Spec

\* Of VersionRecommendations: however commands that edit schemas, run shadows, recommend and
\* resolve interleave, a recommendation names a run to build on, and none of the runs it
\* was drawn from breaks a guardrail or loses; a suggestion lies within the bounds and is new
\* while a value of the grid is; and an item that was answered has left the inbox, unless it
\* is a proposal, with one of its answers and otherwise as it was created (_recommend,
\* suggest, ApprovalInbox.resolve).
THEOREM RecommendationsAreSound == Spec => []RecommendationsStand
<1>1. (part = "recommending" => CommandsInv) => RecommendationsStand
  BY CommandsHold DEF RecommendationsStand
<1>2. QED
  BY <1>1, RecommendingKeeps, PTL

\* LearningLoop keeps its invariant, in which what a tick has written follows from what it
\* has read and the logs of runs from the runs.
THEOREM LearningKeeps == Spec => [](part = "learning" => LearnInv)
<1> DEFINE Inv == part = "learning" => LearnInv
<1>1. Init => Inv
  BY LearnInit DEF Init
<1>2. Inv /\ [Next]_vars => Inv'
  <2>1. ASSUME Inv, Next PROVE Inv'
    <3>1. SUFFICES ASSUME part' = "learning" PROVE LearnInv'
      OBVIOUS
    <3>2. part = "learning" /\ Learning!Next
      BY <2>1, <3>1 DEF Next
    <3>3. QED
      BY <2>1, <3>2, LearnNext
  <2>2. ASSUME Inv, UNCHANGED vars PROVE Inv'
    <3>1. UNCHANGED part /\ UNCHANGED Learning!vars
      BY <2>2 DEF vars, learningOnly, Learning!vars, Learning!runVars, Learning!learnVars
    <3>2. QED
      BY <2>2, <3>1, LearnNext
  <2>3. QED
    BY <2>1, <2>2
<1>3. QED
  BY <1>1, <1>2, PTL DEF Spec

\* However runs, ticks, archives, decisions and kills interleave: each summary says what
\* the raw log of its run does, which is what the adapter answered, with the error and the
\* metrics of a failure it returned, or the failure the runner made up where nobody waited
\* for it any longer; each observation of a tick is of such a summary or of a decision; each proposal is of an observation of
\* its tick and the only one for its target; and a tick that reports has blocked or
\* validated each of its proposals and has one for each metric it observed
\* (ScenarioRunner.run, LearningLoopService.run_once).
THEOREM LearningFollowsRuns == Spec => []LearningIsGrounded
<1>1. (part = "learning" => LearnInv) => LearningIsGrounded
  BY LearnHolds DEF LearningIsGrounded
<1>2. QED
  BY <1>1, LearningKeeps, PTL

\* Of ResponseCache: whatever threads ask and clear at once, an answer from the cache is
\* one that was written for its prompt and is still fresh, the cache holds no more than
\* its size, and each lookup is counted once (LLMResponseCache).
THEOREM CacheKeepsWord ==
  Spec => [](part = "caching" => Caching!TypeOK /\ Caching!CacheKeepsItsWord)
<1> DEFINE Inv == part = "caching" => CacheInv
<1>1. Init => Inv
  BY CacheInit DEF Init
<1>2. Inv /\ [Next]_vars => Inv'
  <2>1. ASSUME Inv, Next PROVE Inv'
    <3>1. SUFFICES ASSUME part' = "caching" PROVE CacheInv'
      OBVIOUS
    <3>2. part = "caching" /\ Caching!Next
      BY <2>1, <3>1 DEF Next
    <3>3. QED
      BY <2>1, <3>2, CacheNext
  <2>2. ASSUME Inv, UNCHANGED vars PROVE Inv'
    <3>1. UNCHANGED part /\ UNCHANGED Caching!vars
      BY <2>2 DEF vars, cacheVars, Caching!vars
    <3>2. QED
      BY <2>2, <3>1, CacheNext
  <2>3. QED
    BY <2>1, <2>2
<1>3. Inv => (part = "caching" => Caching!TypeOK /\ Caching!CacheKeepsItsWord)
  BY CacheTypes, CacheHolds
<1>4. QED
  BY <1>1, <1>2, <1>3, PTL DEF Spec
=============================================================================
