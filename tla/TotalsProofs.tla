---------------------------- MODULE TotalsProofs ----------------------------
(***************************************************************************)
(* The facts about Total, Min and Max that the proofs rest on.             *)
(***************************************************************************)
EXTENDS Totals, FiniteSetsExt, FiniteSetTheorems, FunctionTheorems, WellFoundedInduction, TLAPS

\* The units that belong to one member, and those that belong to the others.
Own(f, S, M, x) == {p \in Units(f, S, M) : p[1] = x}
Others(f, S, M, x) == {p \in Units(f, S, M) : p[1] # x}

\* A total of a finite set is a natural number.
LEMMA TotalFinite ==
  ASSUME NEW S, IsFiniteSet(S), NEW M \in Nat, NEW f
  PROVE  IsFiniteSet(Units(f, S, M)) /\ Total(f, S, M) \in Nat
<1>1. IsFiniteSet(1 .. M)
  BY FS_Interval
<1>2. IsFiniteSet(S \X (1 .. M))
  BY <1>1, FS_Product
<1>3. Units(f, S, M) \in SUBSET (S \X (1 .. M))
  BY DEF Units
<1>4. IsFiniteSet(Units(f, S, M))
  BY <1>2, <1>3, FS_Subset
<1>. QED
  BY <1>4, FS_CardinalityType DEF Total

\* A member owns as many units as its value.
LEMMA OwnCardinality ==
  ASSUME NEW S, IsFiniteSet(S), NEW M \in Nat, NEW f \in [S -> 0 .. M], NEW x \in S
  PROVE  IsFiniteSet(Own(f, S, M, x)) /\ Cardinality(Own(f, S, M, x)) = f[x]
<1>. DEFINE n == f[x]
            I == 1 .. n
            T == Own(f, S, M, x)
            g == [i \in I |-> <<x, i>>]
<1>1. n \in 0 .. M
  OBVIOUS
<1>2. IsFiniteSet(I) /\ Cardinality(I) = n
  BY <1>1, FS_Interval
<1>3. T = {<<x, i>> : i \in I}
  BY <1>1 DEF Own, Units
<1>4. g \in [I -> T]
  BY <1>3
<1>5. \A a, b \in I : g[a] = g[b] => a = b
  OBVIOUS
<1>6. \A t \in T : \E i \in I : g[i] = t
  BY <1>3
<1>7. g \in Bijection(I, T)
  <2>1. g \in Injection(I, T)
    <3>. HIDE DEF I, T, g
    <3>. QED
      BY SMTT(60), <1>4, <1>5, Fun_IsInj DEF Injection
  <2>2. g \in Surjection(I, T)
    <3>. HIDE DEF I, T, g
    <3>. QED
      BY <1>4, <1>6, Fun_IsSurj
  <2>. QED
    BY <2>1, <2>2 DEF Bijection
<1>8. ExistsBijection(I, T)
  BY <1>7 DEF ExistsBijection
<1>9. IsFiniteSet(T) /\ Cardinality(T) = n
  BY <1>2, <1>8, FS_Bijection
<1>. QED
  BY <1>9

\* A total splits into what one member has and what the others have.
LEMMA TotalSplit ==
  ASSUME NEW S, IsFiniteSet(S), NEW M \in Nat, NEW f \in [S -> 0 .. M], NEW x \in S
  PROVE  /\ IsFiniteSet(Others(f, S, M, x))
         /\ Cardinality(Others(f, S, M, x)) \in Nat
         /\ Total(f, S, M) = f[x] + Cardinality(Others(f, S, M, x))
<1>. DEFINE A == Own(f, S, M, x)
            B == Others(f, S, M, x)
            U == Units(f, S, M)
<1>1. IsFiniteSet(U)
  BY TotalFinite
<1>2. U = A \cup B /\ A \cap B = {} /\ B \in SUBSET U
  BY DEF Own, Others
<1>3. IsFiniteSet(B)
  BY <1>1, <1>2, FS_Subset
<1>4. IsFiniteSet(A) /\ Cardinality(A) = f[x]
  BY OwnCardinality
<1>5. Cardinality(B) \in Nat /\ Cardinality(A) \in Nat
  BY <1>3, <1>4, FS_CardinalityType
<1>6. Cardinality(A \cup B) = Cardinality(A) + Cardinality(B) - Cardinality(A \cap B)
  BY <1>3, <1>4, FS_Union
<1>7. Cardinality(A \cap B) = 0
  BY <1>2, FS_EmptySet
<1>8. Cardinality(U) = Cardinality(A) + Cardinality(B)
  BY <1>2, <1>5, <1>6, <1>7
<1>. QED
  BY <1>3, <1>4, <1>5, <1>8 DEF Total

\* Changing one member's value changes the total by the difference.
THEOREM TotalUpdate ==
  ASSUME NEW S, IsFiniteSet(S), NEW M \in Nat,
         NEW f \in [S -> 0 .. M], NEW g \in [S -> 0 .. M],
         NEW x \in S, \A y \in S \ {x} : g[y] = f[y]
  PROVE  Total(g, S, M) = Total(f, S, M) - f[x] + g[x]
<1>1. Others(g, S, M, x) = Others(f, S, M, x)
  BY DEF Others, Units
<1>2. /\ Total(f, S, M) = f[x] + Cardinality(Others(f, S, M, x))
      /\ Cardinality(Others(f, S, M, x)) \in Nat
  BY TotalSplit
<1>3. Total(g, S, M) = g[x] + Cardinality(Others(g, S, M, x))
  BY TotalSplit
<1>4. f[x] \in Nat /\ g[x] \in Nat
  OBVIOUS
<1>. QED
  BY <1>1, <1>2, <1>3, <1>4

\* A change of one member's value that stays within the limit takes bytes that
\* are to spare or gives back some that the member has: a step of a quota.
LEMMA TotalMove ==
  ASSUME NEW S, IsFiniteSet(S), NEW M \in Nat,
         NEW f \in [S -> 0 .. M], NEW g \in [S -> 0 .. M],
         NEW x \in S, \A y \in S \ {x} : g[y] = f[y], g # f,
         Total(g, S, M) <= M
  PROVE  \E n \in 1 .. M :
           \/ Total(f, S, M) + n <= M /\ g = [f EXCEPT ![x] = @ + n]
           \/ n <= f[x] /\ g = [f EXCEPT ![x] = @ - n]
<1>1. Total(g, S, M) = Total(f, S, M) - f[x] + g[x]
  BY TotalUpdate
<1>2. f[x] \in 0 .. M /\ g[x] \in 0 .. M /\ Total(f, S, M) \in Nat
  BY TotalFinite
<1>3. g = [f EXCEPT ![x] = g[x]]
  OBVIOUS
<1>4. g[x] # f[x]
  BY <1>3
<1>5. CASE g[x] > f[x]
  <2>. DEFINE n == g[x] - f[x]
  <2>1. n \in 1 .. M /\ Total(f, S, M) + n <= M /\ g[x] = f[x] + n
    BY <1>1, <1>2, <1>5
  <2>. QED
    BY <1>3, <2>1
<1>6. CASE g[x] < f[x]
  <2>. DEFINE n == f[x] - g[x]
  <2>1. n \in 1 .. M /\ n <= f[x] /\ g[x] = f[x] - n
    BY <1>2, <1>6
  <2>. QED
    BY <1>3, <2>1
<1>. QED
  BY <1>2, <1>4, <1>5, <1>6

\* No member has more than the total.
THEOREM TotalMember ==
  ASSUME NEW S, IsFiniteSet(S), NEW M \in Nat, NEW f \in [S -> 0 .. M], NEW x \in S
  PROVE  f[x] <= Total(f, S, M)
<1>1. /\ Cardinality(Others(f, S, M, x)) \in Nat
      /\ Total(f, S, M) = f[x] + Cardinality(Others(f, S, M, x))
  BY TotalSplit
<1>. QED
  BY <1>1

\* Two members have no more than the total.
THEOREM TotalPair ==
  ASSUME NEW S, IsFiniteSet(S), NEW M \in Nat, NEW f \in [S -> 0 .. M],
         NEW x \in S, NEW y \in S, x # y
  PROVE  f[x] + f[y] <= Total(f, S, M)
<1>. DEFINE h == [f EXCEPT ![x] = 0]
<1>1. /\ h \in [S -> 0 .. M] /\ h[y] = f[y] /\ h[x] = 0
      /\ \A z \in S \ {x} : h[z] = f[z]
  OBVIOUS
<1>. HIDE DEF h
<1>2. Total(h, S, M) = Total(f, S, M) - f[x] + h[x]
  BY <1>1, TotalUpdate
<1>3. h[y] <= Total(h, S, M)
  BY <1>1, TotalMember
<1>4. Total(f, S, M) \in Nat /\ f[x] \in Nat
  BY TotalFinite
<1>. QED
  BY <1>1, <1>2, <1>3, <1>4

\* The total of nothing is zero, and only nothing totals zero.
THEOREM TotalZero ==
  ASSUME NEW S, IsFiniteSet(S), NEW M \in Nat, NEW f \in [S -> 0 .. M]
  PROVE  Total(f, S, M) = 0 <=> \A x \in S : f[x] = 0
<1>1. IsFiniteSet(Units(f, S, M))
  BY TotalFinite
<1>2. Total(f, S, M) = 0 <=> Units(f, S, M) = {}
  BY <1>1, FS_EmptySet DEF Total
<1>3. ASSUME NEW x \in S, f[x] # 0
      PROVE  <<x, 1>> \in Units(f, S, M)
  BY <1>3 DEF Units
<1>4. (\A x \in S : f[x] = 0) => Units(f, S, M) = {}
  BY DEF Units
<1>. QED
  BY <1>2, <1>3, <1>4

\* A part of a set totals no more than the whole.
LEMMA TotalSubset ==
  ASSUME NEW T, IsFiniteSet(T), NEW S \in SUBSET T, NEW M \in Nat,
         NEW f, NEW g, \A x \in S : f[x] = g[x]
  PROVE  Total(f, S, M) <= Total(g, T, M)
<1>1. IsFiniteSet(Units(g, T, M))
  BY TotalFinite
<1>2. Units(f, S, M) \in SUBSET Units(g, T, M)
  BY DEF Units
<1>. QED
  BY <1>1, <1>2, FS_Subset DEF Total

\* A total only depends on the values of the members.
LEMMA TotalSame ==
  ASSUME NEW S, NEW M \in Nat, NEW f, NEW g, \A x \in S : f[x] = g[x]
  PROVE  Total(f, S, M) = Total(g, S, M)
<1>1. Units(f, S, M) = Units(g, S, M)
  BY DEF Units
<1>. QED
  BY <1>1 DEF Total

\* The total of a function that is zero everywhere else is its value at one member.
LEMMA TotalSingle ==
  ASSUME NEW S, IsFiniteSet(S), NEW M \in Nat, NEW f \in [S -> 0 .. M], NEW x \in S,
         \A y \in S \ {x} : f[y] = 0
  PROVE  Total(f, S, M) = f[x]
<1>. DEFINE h == [y \in S |-> 0]
<1>1. h \in [S -> 0 .. M] /\ h[x] = 0 /\ \A y \in S : h[y] = 0
  OBVIOUS
<1>. HIDE DEF h
<1>2. \A y \in S \ {x} : f[y] = h[y]
  BY <1>1
<1>3. Total(f, S, M) = Total(h, S, M) - h[x] + f[x]
  BY <1>1, <1>2, TotalUpdate
<1>4. Total(h, S, M) = 0
  BY <1>1, TotalZero
<1>. QED
  BY <1>1, <1>3, <1>4

\* The total of a part of the members follows a change at one of them.
LEMMA TotalUpdateWithin ==
  ASSUME NEW T, NEW S \in SUBSET T, IsFiniteSet(S), NEW M \in Nat,
         NEW f \in [T -> 0 .. M], NEW g \in [T -> 0 .. M],
         NEW x \in S, \A y \in S \ {x} : g[y] = f[y]
  PROVE  Total(g, S, M) = Total(f, S, M) - f[x] + g[x]
<1>. DEFINE h == [y \in S |-> f[y]]
            k == [y \in S |-> g[y]]
<1>1. h \in [S -> 0 .. M] /\ k \in [S -> 0 .. M]
  OBVIOUS
<1>2. \A y \in S : h[y] = f[y] /\ k[y] = g[y]
  OBVIOUS
<1>. HIDE DEF h, k
<1>3. Total(k, S, M) = Total(h, S, M) - h[x] + k[x]
  BY <1>1, <1>2, TotalUpdate
<1>4. Total(k, S, M) = Total(g, S, M) /\ Total(h, S, M) = Total(f, S, M)
  BY <1>2, TotalSame
<1>. QED
  BY <1>2, <1>3, <1>4

\* No member has more than the total of the part it is in.
LEMMA TotalMemberWithin ==
  ASSUME NEW T, NEW S \in SUBSET T, IsFiniteSet(S), NEW M \in Nat,
         NEW f \in [T -> 0 .. M], NEW x \in S
  PROVE  f[x] <= Total(f, S, M)
<1>. DEFINE h == [y \in S |-> f[y]]
<1>1. h \in [S -> 0 .. M] /\ \A y \in S : h[y] = f[y]
  OBVIOUS
<1>. HIDE DEF h
<1>2. h[x] <= Total(h, S, M)
  BY <1>1, TotalMember
<1>3. Total(h, S, M) = Total(f, S, M)
  BY <1>1, TotalSame
<1>. QED
  BY <1>1, <1>2, <1>3

\* An equal share given to each of some members adds as many shares to the total.
LEMMA TotalShare ==
  ASSUME NEW S, IsFiniteSet(S), NEW T \in SUBSET S, NEW M \in Nat, NEW e \in Nat,
         NEW f \in [S -> 0 .. M], NEW g \in [S -> 0 .. M],
         \A x \in T : g[x] = f[x] + e,
         \A x \in S \ T : g[x] = f[x]
  PROVE  Total(g, S, M) = Total(f, S, M) + Cardinality(T) * e
<1>. DEFINE I == T \X (1 .. e)
            A == Units(f, S, M)
            B == Units(g, S, M)
            D == B \ A
            h == [p \in I |-> <<p[1], f[p[1]] + p[2]>>]
<1>1. IsFiniteSet(T) /\ IsFiniteSet(1 .. e) /\ Cardinality(1 .. e) = e
  BY FS_Subset, FS_Interval
<1>2. IsFiniteSet(I) /\ Cardinality(I) = Cardinality(T) * e
  BY <1>1, FS_Product
<1>3. IsFiniteSet(A) /\ IsFiniteSet(B)
  BY TotalFinite
<1>4. D = {p \in T \X (1 .. M) : f[p[1]] < p[2] /\ p[2] <= f[p[1]] + e}
  BY DEF Units
<1>5. A \subseteq B
  BY DEF Units
<1>6. h \in Bijection(I, D)
  <2>1. \A p \in I : h[p] \in D
    <3>1. ASSUME NEW x \in T, NEW i \in 1 .. e PROVE <<x, f[x] + i>> \in D
      <4>1. f[x] \in 0 .. M /\ g[x] \in 0 .. M /\ g[x] = f[x] + e
        OBVIOUS
      <4>2. f[x] + i \in 1 .. M
        BY <4>1
      <4>. QED
        BY <1>4, <4>1, <4>2
    <3>. QED
      BY <3>1
  <2>2. h \in [I -> D]
    BY <2>1
  <2>3. \A p, q \in I : h[p] = h[q] => p = q
    <3>1. ASSUME NEW x \in T, NEW i \in 1 .. e, NEW y \in T, NEW j \in 1 .. e,
                 <<x, f[x] + i>> = <<y, f[y] + j>>
          PROVE  x = y /\ i = j
      <4>1. x = y /\ f[x] + i = f[x] + j /\ f[x] \in Nat
        BY <3>1
      <4>. QED
        BY <4>1
    <3>. QED
      BY <3>1
  <2>4. \A d \in D : \E p \in I : h[p] = d
    <3>1. ASSUME NEW x \in T, NEW k \in 1 .. M, f[x] < k, k <= f[x] + e
          PROVE  \E p \in I : h[p] = <<x, k>>
      <4>1. f[x] \in Nat /\ k - f[x] \in 1 .. e /\ f[x] + (k - f[x]) = k
        BY <3>1
      <4>2. <<x, k - f[x]>> \in I /\ h[<<x, k - f[x]>>] = <<x, k>>
        BY <4>1
      <4>. QED
        BY <4>2
    <3>2. ASSUME NEW d \in D PROVE \E p \in I : h[p] = d
      <4>1. PICK x \in T, k \in 1 .. M : d = <<x, k>> /\ f[x] < k /\ k <= f[x] + e
        BY <1>4, <3>2
      <4>. QED
        BY <3>1, <4>1
    <3>. QED
      BY <3>2
  <2>5. h \in Injection(I, D)
    BY <2>2, <2>3, Fun_IsInj DEF Injection
  <2>6. h \in Surjection(I, D)
    BY <2>2, <2>4, Fun_IsSurj
  <2>. QED
    BY <2>5, <2>6 DEF Bijection
<1>7. Cardinality(D) = Cardinality(T) * e
  <2>1. ExistsBijection(I, D)
    BY <1>6 DEF ExistsBijection
  <2>. QED
    BY <1>2, <2>1, FS_Bijection
<1>8. Cardinality(B) = Cardinality(A) + Cardinality(D)
  <2>1. Cardinality(D) = Cardinality(B) - Cardinality(B \cap A)
    BY <1>3, FS_Difference
  <2>2. B \cap A = A
    BY <1>5
  <2>3. Cardinality(A) \in Nat /\ Cardinality(B) \in Nat
    BY <1>3, FS_CardinalityType
  <2>. HIDE DEF A, B, D
  <2>. QED
    BY <2>1, <2>2, <2>3
<1>. HIDE DEF D
<1>. QED
  BY <1>7, <1>8 DEF Total

\* A total grows with the values.
LEMMA TotalMonotone ==
  ASSUME NEW S, IsFiniteSet(S), NEW M \in Nat,
         NEW f \in [S -> 0 .. M], NEW g \in [S -> 0 .. M], \A x \in S : f[x] <= g[x]
  PROVE  Total(f, S, M) <= Total(g, S, M)
<1>1. IsFiniteSet(Units(g, S, M))
  BY TotalFinite
<1>2. ASSUME NEW p \in Units(f, S, M) PROVE p \in Units(g, S, M)
  <2>1. PICK x \in S, i \in 1 .. M : p = <<x, i>> /\ i <= f[x]
    BY <1>2 DEF Units
  <2>2. i \in Nat /\ f[x] \in 0 .. M /\ g[x] \in 0 .. M /\ f[x] <= g[x]
    OBVIOUS
  <2>3. i <= g[x]
    BY <2>1, <2>2
  <2>. QED
    BY <2>1, <2>3 DEF Units
<1>. QED
  BY <1>1, <1>2, FS_Subset DEF Total

\* Members that have the same, while the others have nothing.
LEMMA TotalEqual ==
  ASSUME NEW S, IsFiniteSet(S), NEW T \in SUBSET S, NEW M \in Nat, NEW e \in Nat,
         NEW g \in [S -> 0 .. M],
         \A x \in T : g[x] = e,
         \A x \in S \ T : g[x] = 0
  PROVE  Total(g, S, M) = Cardinality(T) * e
<1>. DEFINE z == [x \in S |-> 0]
            n == Cardinality(T) * e
<1>1. z \in [S -> 0 .. M] /\ \A x \in S : z[x] = 0
  OBVIOUS
<1>. HIDE DEF z
<1>2. \A x \in T : g[x] = z[x] + e
  BY <1>1
<1>3. \A x \in S \ T : g[x] = z[x]
  BY <1>1
<1>4. Total(g, S, M) = Total(z, S, M) + n
  BY <1>1, <1>2, <1>3, TotalShare
<1>5. Total(z, S, M) = 0
  BY <1>1, TotalZero
<1>6. n \in Nat
  <2>1. \A a, b \in Nat : a * b \in Nat
    BY SMTT(30)
  <2>2. Cardinality(T) \in Nat
    BY FS_Subset, FS_CardinalityType
  <2>. QED
    BY <2>1, <2>2
<1>. HIDE DEF n
<1>7. Total(g, S, M) = n
  BY <1>4, <1>5, <1>6
<1>. QED
  BY <1>7 DEF n

\* A few members of which each has at most l, and one of them less than l, total
\* less than so many times l.
LEMMA TotalWindow ==
  ASSUME NEW S, IsFiniteSet(S), NEW T \in SUBSET S, NEW M \in Nat, NEW l \in 1 .. M,
         NEW f \in [S -> 0 .. M], NEW c \in T, f[c] < l,
         \A x \in T : f[x] <= l, \A x \in S \ T : f[x] = 0
  PROVE  Total(f, S, M) < Cardinality(T) * l
<1>. DEFINE g == [x \in S |-> IF x \in T THEN l ELSE 0]
            h == [g EXCEPT ![c] = f[c]]
<1>1. /\ l \in Nat /\ g \in [S -> 0 .. M] /\ h \in [S -> 0 .. M]
      /\ \A x \in T : g[x] = l
      /\ \A x \in S \ T : g[x] = 0
  BY SMTT(30)
<1>2. /\ c \in S /\ h[c] = f[c] /\ g[c] = l
      /\ \A x \in S \ {c} : h[x] = g[x]
      /\ \A x \in S : f[x] <= h[x]
  <2>1. c \in S /\ h[c] = f[c] /\ g[c] = l /\ \A x \in S \ {c} : h[x] = g[x]
    OBVIOUS
  <2>. HIDE DEF g, h
  <2>2. ASSUME NEW x \in S PROVE f[x] <= h[x]
    <3>1. CASE x = c
      BY <2>1, <3>1
    <3>2. CASE x # c /\ x \in T
      BY <1>1, <2>1, <3>2
    <3>3. CASE x # c /\ x \notin T
      BY <1>1, <2>1, <3>3
    <3>. QED
      BY <3>1, <3>2, <3>3
  <2>. QED
    BY <2>1, <2>2
<1>. HIDE DEF g, h
<1>3. Total(g, S, M) = Cardinality(T) * l
  BY <1>1, TotalEqual
<1>4. Total(h, S, M) = Total(g, S, M) - g[c] + h[c]
  BY <1>1, <1>2, TotalUpdate
<1>5. Total(f, S, M) <= Total(h, S, M)
  BY <1>1, <1>2, TotalMonotone
<1>6. Total(f, S, M) \in Nat /\ Total(h, S, M) \in Nat /\ Total(g, S, M) \in Nat /\ f[c] \in Nat
  BY <1>1, TotalFinite
<1>7. Total(f, S, M) < Total(g, S, M)
  BY <1>1, <1>2, <1>4, <1>5, <1>6
<1>. QED
  BY <1>3, <1>7
----------------------------------------------------------------------------
(* Least and greatest numbers of a set.                                    *)

\* A set of numbers that is not empty has a least element.
LEMMA MinExists ==
  ASSUME NEW S \in SUBSET Nat, S # {}
  PROVE  Min(S) \in S /\ \A y \in S : Min(S) <= y
<1>. DEFINE R == {ss \in Nat \X Nat : ss[1] < ss[2]}
<1>1. IsWellFoundedOn(R, Nat)
  BY NatLessThanWellFounded DEF OpToRel
<1>2. PICK x \in S : \A y \in S : <<y, x>> \notin R
  <2>. HIDE DEF R
  <2>. QED
    BY <1>1, WFMin
<1>3. ASSUME NEW y \in S PROVE x <= y
  <2>1. <<y, x>> \in Nat \X Nat /\ <<y, x>> \notin R
    BY <1>2
  <2>2. ~(y < x)
    BY <2>1
  <2>. QED
    BY <2>2
<1>. QED
  BY <1>3 DEF Min

\* One with an upper bound has a greatest element.
LEMMA MaxExists ==
  ASSUME NEW S \in SUBSET Nat, S # {}, NEW n \in Nat, \A s \in S : s <= n
  PROVE  Max(S) \in S /\ \A y \in S : y <= Max(S)
<1>. DEFINE U == {k \in Nat : \A s \in S : s <= k}
            k == Min(U)
<1>1. U \in SUBSET Nat /\ n \in U
  OBVIOUS
<1>2. k \in U /\ \A u \in U : k <= u
  BY <1>1, MinExists
<1>. HIDE DEF k
<1>3. k \in Nat /\ \A s \in S : s <= k
  BY <1>2
<1>4. k \in S
  <2>. SUFFICES ASSUME k \notin S PROVE FALSE
    OBVIOUS
  <2>1. \A s \in S : s \in Nat /\ s <= k - 1
    BY <1>3
  <2>2. k - 1 \in Nat
    <3>1. PICK s \in S : s \in Nat /\ s <= k - 1
      BY <2>1
    <3>. QED
      BY <1>3, <3>1
  <2>3. k - 1 \in U
    BY <2>1, <2>2
  <2>. QED
    BY <1>2, <1>3, <2>3
<1>. QED
  BY <1>3, <1>4 DEF Max

\* Finitely many numbers have a bound.
LEMMA BoundExists ==
  ASSUME NEW S, IsFiniteSet(S), NEW f \in [S -> Nat]
  PROVE  \E b \in Nat : \A x \in S : f[x] <= b
<1>. DEFINE Bounded(T) == \E b \in Nat : \A x \in T : f[x] <= b
            K == {Cardinality(T) : T \in {U \in SUBSET S : ~Bounded(U)}}
<1>1. ASSUME NEW T \in SUBSET S PROVE IsFiniteSet(T) /\ Cardinality(T) \in Nat
  BY FS_Subset, FS_CardinalityType
<1>2. SUFFICES ASSUME ~Bounded(S) PROVE FALSE
  OBVIOUS
<1>3. K \in SUBSET Nat /\ K # {}
  BY <1>1, <1>2
<1>4. Min(K) \in K /\ \A y \in K : Min(K) <= y
  <2>. HIDE DEF K
  <2>. QED
    BY <1>3, MinExists
<1>5. PICK T \in SUBSET S : ~Bounded(T) /\ Cardinality(T) = Min(K)
  BY <1>4
<1>6. T # {}
  BY <1>5
<1>7. PICK x : x \in T
  BY <1>6
<1>8. /\ T \ {x} \in SUBSET S /\ Cardinality(T \ {x}) = Cardinality(T) - 1
      /\ Cardinality(T) \in Nat /\ Cardinality(T \ {x}) \in Nat
  BY <1>1, <1>7, FS_RemoveElement
<1>9. Bounded(T \ {x})
  <2>1. ~(Cardinality(T \ {x}) \in K)
    <3>. HIDE DEF K
    <3>. QED
      BY <1>4, <1>5, <1>8
  <2>. QED
    BY <1>8, <2>1
<1>10. PICK b \in Nat : \A y \in T \ {x} : f[y] <= b
  BY <1>9
<1>11. f[x] \in Nat
  BY <1>5, <1>7
<1>12. b + f[x] \in Nat /\ \A y \in T : f[y] <= b + f[x]
  BY <1>5, <1>10, <1>11
<1>. QED
  BY <1>5, <1>12
----------------------------------------------------------------------------
(* Quotients.                                                              *)

\* A quotient of natural numbers is one, and rounds down.
LEMMA Quotients ==
  ASSUME NEW a \in Nat, NEW d \in Nat \ {0}
  PROVE  a \div d \in Nat
BY SMTT(60)

\* It is the number of times that the divisor fits.
LEMMA QuotientBounds ==
  ASSUME NEW a \in Nat, NEW d \in Nat \ {0}
  PROVE  (a \div d) * d <= a /\ a < ((a \div d) + 1) * d
BY SMTT(60)
=============================================================================
