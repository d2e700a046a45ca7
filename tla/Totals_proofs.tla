---------------------------- MODULE Totals_proofs ----------------------------
(***************************************************************************)
(* Sums over any finite set: additivity, and what changes them.            *)
(***************************************************************************)
EXTENDS Totals, TLAPS, FiniteSetTheorems

\* Which units there are.
LEMMA UnitsMembers ==
  ASSUME NEW f, NEW S
  PROVE  \A p : p \in Units(f, S) <=> \E x \in S : \E i \in 1 .. f[x] : p = <<x, i>>
BY DEF Units

\* A sum is a natural number.
LEMMA TotalType ==
  ASSUME NEW f, NEW S, IsFiniteSet(S), \A x \in S : f[x] \in Nat
  PROVE  IsFiniteSet(Units(f, S)) /\ Total(f, S) \in Nat
<1> DEFINE g == [x \in S |-> {x} \X (1 .. f[x])]
           T == {{x} \X (1 .. f[x]) : x \in S}
<1>1. g \in Surjection(S, T)
  BY DEF Surjection
<1>2. IsFiniteSet(T)
  <2> HIDE DEF g, T
  <2> QED BY <1>1, FS_Surjection
<1>3. \A U \in T : IsFiniteSet(U)
  <2> SUFFICES ASSUME NEW x \in S PROVE IsFiniteSet({x} \X (1 .. f[x]))
    OBVIOUS
  <2>1. IsFiniteSet(1 .. f[x]) BY FS_Interval
  <2>2. IsFiniteSet({x}) BY FS_Singleton
  <2> QED BY <2>1, <2>2, FS_Product
<1>4. IsFiniteSet(UNION T)
  <2> HIDE DEF T
  <2> QED BY <1>2, <1>3, FS_UNION
<1>5. IsFiniteSet(Units(f, S)) BY <1>4 DEF Units
<1> QED BY <1>5, FS_CardinalityType DEF Total

\* Nothing adds up to zero.
LEMMA TotalEmpty == ASSUME NEW f PROVE Total(f, {}) = 0
<1>1. Units(f, {}) = {} BY DEF Units
<1> QED BY <1>1, FS_EmptySet DEF Total

\* The sum of one element.
LEMMA TotalOne ==
  ASSUME NEW f, NEW x, f[x] \in Nat
  PROVE  Total(f, {x}) = f[x]
<1>1. Units(f, {x}) = {x} \X (1 .. f[x]) BY DEF Units
<1>2. IsFiniteSet(1 .. f[x]) /\ Cardinality(1 .. f[x]) = f[x] BY FS_Interval
<1>3. IsFiniteSet({x}) /\ Cardinality({x}) = 1 BY FS_Singleton
<1>4. Cardinality({x} \X (1 .. f[x])) = Cardinality({x}) * Cardinality(1 .. f[x])
  BY <1>2, <1>3, FS_Product
<1>5. Cardinality({x} \X (1 .. f[x])) = 1 * f[x] BY <1>2, <1>3, <1>4
<1>6. 1 * f[x] = f[x] OBVIOUS
<1> QED BY <1>1, <1>5, <1>6 DEF Total

\* Only the values on the set count.
LEMMA TotalSame ==
  ASSUME NEW f, NEW g, NEW S, \A x \in S : f[x] = g[x]
  PROVE  Total(f, S) = Total(g, S)
<1>1. Units(f, S) = Units(g, S) BY DEF Units
<1> QED BY <1>1 DEF Total

\* Sums over disjoint sets add up.
LEMMA TotalUnion ==
  ASSUME NEW f, NEW S, NEW T, IsFiniteSet(S), IsFiniteSet(T), S \cap T = {},
         \A x \in S \cup T : f[x] \in Nat
  PROVE  Total(f, S \cup T) = Total(f, S) + Total(f, T)
<1>1. IsFiniteSet(Units(f, S)) /\ IsFiniteSet(Units(f, T)) /\ Total(f, S) \in Nat /\ Total(f, T) \in Nat
  BY TotalType
<1>2. Units(f, S \cup T) = Units(f, S) \cup Units(f, T) BY DEF Units
<1>3. Units(f, S) \cap Units(f, T) = {} BY UnitsMembers
<1>4. Cardinality(Units(f, S) \cup Units(f, T))
        = Cardinality(Units(f, S)) + Cardinality(Units(f, T)) - Cardinality({})
  BY <1>1, <1>3, FS_Union
<1>5. Cardinality(Units(f, S)) \in Nat /\ Cardinality(Units(f, T)) \in Nat BY <1>1 DEF Total
<1>6. Cardinality(Units(f, S) \cup Units(f, T)) = Cardinality(Units(f, S)) + Cardinality(Units(f, T))
  BY <1>4, <1>5, FS_EmptySet
<1> QED BY <1>2, <1>6 DEF Total

\* A sum is that of a part and of the rest.
LEMMA TotalSplit ==
  ASSUME NEW f, NEW S, NEW T, IsFiniteSet(S), T \subseteq S, \A x \in S : f[x] \in Nat
  PROVE  Total(f, S) = Total(f, T) + Total(f, S \ T)
<1>1. IsFiniteSet(T) /\ IsFiniteSet(S \ T) BY FS_Subset, FS_Difference
<1>2. T \cup (S \ T) = S /\ T \cap (S \ T) = {} OBVIOUS
<1> QED BY <1>1, <1>2, TotalUnion

\* Of n elements that hold c more each, the sum is c * n more.
LEMMA TotalShift ==
  ASSUME NEW f, NEW g, NEW S, NEW c \in Nat, IsFiniteSet(S),
         \A x \in S : g[x] \in Nat /\ f[x] = g[x] + c
  PROVE  Total(f, S) = Total(g, S) + c * Cardinality(S)
<1> DEFINE C == S \X (1 .. c)
           E == UNION {{x} \X (g[x] + 1 .. g[x] + c) : x \in S}
           h == [p \in C |-> <<p[1], g[p[1]] + p[2]>>]
<1>1. \A p : p \in E <=> \E x \in S : \E i \in g[x] + 1 .. g[x] + c : p = <<x, i>>
  OBVIOUS
<1>2. \A p \in C : p[1] \in S /\ p[2] \in 1 .. c /\ p = <<p[1], p[2]>>
  OBVIOUS
<1>3. h \in [C -> E]
  <2> SUFFICES ASSUME NEW p \in C PROVE <<p[1], g[p[1]] + p[2]>> \in E OBVIOUS
  <2>1. g[p[1]] + p[2] \in g[p[1]] + 1 .. g[p[1]] + c BY <1>2
  <2> QED BY <1>1, <1>2, <2>1
<1>4. \A p, q \in C : h[p] = h[q] => p = q
  <2> SUFFICES ASSUME NEW p \in C, NEW q \in C, h[p] = h[q] PROVE p = q OBVIOUS
  <2>1. p[1] = q[1] /\ g[p[1]] + p[2] = g[q[1]] + q[2] OBVIOUS
  <2>2. p[2] = q[2] BY <1>2, <2>1
  <2> QED BY <1>2, <2>1, <2>2
<1>5. \A e \in E : \E p \in C : h[p] = e
  <2> SUFFICES ASSUME NEW e \in E PROVE \E p \in C : h[p] = e OBVIOUS
  <2>1. PICK x \in S : \E i \in g[x] + 1 .. g[x] + c : e = <<x, i>> BY <1>1
  <2>2. PICK i \in g[x] + 1 .. g[x] + c : e = <<x, i>> BY <2>1
  <2>3. i - g[x] \in 1 .. c /\ g[x] + (i - g[x]) = i OBVIOUS
  <2>4. <<x, i - g[x]>> \in C BY <2>3
  <2>5. h[<<x, i - g[x]>>] = <<x, i>> BY <2>3, <2>4
  <2> QED BY <2>2, <2>4, <2>5
<1>6. h \in Bijection(C, E)
  <2> HIDE DEF h, C, E
  <2>1. DOMAIN h = C BY <1>3
  <2> QED BY <1>3, <1>4, <1>5, <2>1 DEF Bijection, Injection, IsInjective, Surjection
<1>7. IsFiniteSet(1 .. c) /\ Cardinality(1 .. c) = c BY FS_Interval
<1>8. IsFiniteSet(C) /\ Cardinality(C) = Cardinality(S) * c BY <1>7, FS_Product
<1>9. IsFiniteSet(E) /\ Cardinality(E) = Cardinality(S) * c
  <2> HIDE DEF h, C, E
  <2> QED BY <1>6, <1>8, FS_Bijection DEF ExistsBijection
<1>10. Units(f, S) = Units(g, S) \cup E
  <2>1. ASSUME NEW x \in S PROVE 1 .. f[x] = (1 .. g[x]) \cup (g[x] + 1 .. g[x] + c) OBVIOUS
  <2> QED BY <1>1, <2>1, UnitsMembers
<1>11. Units(g, S) \cap E = {}
  <2>1. ASSUME NEW x \in S PROVE (1 .. g[x]) \cap (g[x] + 1 .. g[x] + c) = {} OBVIOUS
  <2> QED BY <1>1, <2>1, UnitsMembers
<1>12. IsFiniteSet(Units(g, S)) /\ Total(g, S) \in Nat BY TotalType
<1>13. Cardinality(Units(g, S) \cup E) = Cardinality(Units(g, S)) + Cardinality(E) - Cardinality({})
  <2> HIDE DEF E
  <2> QED BY <1>9, <1>11, <1>12, FS_Union
<1>14. Cardinality(S) \in Nat BY FS_CardinalityType
<1> HIDE DEF E
<1> QED BY <1>9, <1>10, <1>12, <1>13, <1>14, FS_EmptySet DEF Total

\* Adding the same values up under other names gives the same sum.
LEMMA TotalRename ==
  ASSUME NEW f, NEW g, NEW S, NEW T, NEW h \in [S -> T],
         \A x, y \in S : h[x] = h[y] => x = y, \A z \in T : \E x \in S : h[x] = z,
         IsFiniteSet(S), \A x \in S : f[x] \in Nat /\ f[x] = g[h[x]]
  PROVE  Total(f, S) = Total(g, T)
<1> DEFINE A == Units(f, S)
           B == Units(g, T)
           m == [p \in A |-> <<h[p[1]], p[2]>>]
<1>1. \A p \in A : \E x \in S : \E i \in 1 .. f[x] : p = <<x, i>>
  BY UnitsMembers
<1>2. m \in [A -> B]
  <2> SUFFICES ASSUME NEW p \in A PROVE <<h[p[1]], p[2]>> \in B
    OBVIOUS
  <2>1. PICK x \in S : \E i \in 1 .. f[x] : p = <<x, i>> BY <1>1
  <2>2. PICK i \in 1 .. f[x] : p = <<x, i>> BY <2>1
  <2>3. h[x] \in T /\ i \in 1 .. g[h[x]] OBVIOUS
  <2>4. <<h[x], i>> \in B BY <2>3, UnitsMembers
  <2> QED BY <2>2, <2>4
<1>3. \A p, q \in A : m[p] = m[q] => p = q
  <2> SUFFICES ASSUME NEW p \in A, NEW q \in A, m[p] = m[q] PROVE p = q
    OBVIOUS
  <2>1. PICK x \in S : \E i \in 1 .. f[x] : p = <<x, i>> BY <1>1
  <2>2. PICK i \in 1 .. f[x] : p = <<x, i>> BY <2>1
  <2>3. PICK y \in S : \E j \in 1 .. f[y] : q = <<y, j>> BY <1>1
  <2>4. PICK j \in 1 .. f[y] : q = <<y, j>> BY <2>3
  <2>5. <<h[x], i>> = <<h[y], j>> BY <2>2, <2>4
  <2>6. h[x] = h[y] /\ i = j BY <2>5
  <2> QED BY <2>2, <2>4, <2>6
<1>4. \A q \in B : \E p \in A : m[p] = q
  <2> SUFFICES ASSUME NEW q \in B PROVE \E p \in A : m[p] = q
    OBVIOUS
  <2>1. PICK z \in T : \E i \in 1 .. g[z] : q = <<z, i>> BY UnitsMembers
  <2>2. PICK i \in 1 .. g[z] : q = <<z, i>> BY <2>1
  <2>3. PICK x \in S : h[x] = z OBVIOUS
  <2>4. i \in 1 .. f[x] BY <2>2, <2>3
  <2>5. <<x, i>> \in A BY <2>4, UnitsMembers
  <2>6. m[<<x, i>>] = <<h[x], i>> BY <2>5
  <2> QED BY <2>2, <2>3, <2>5, <2>6
<1>5. IsFiniteSet(A) BY TotalType
<1> HIDE DEF A, B, m
<1>6. m \in Bijection(A, B)
  <2>1. DOMAIN m = A BY <1>2
  <2> QED BY <1>2, <1>3, <1>4, <2>1 DEF Bijection, Injection, IsInjective, Surjection
<1>7. Cardinality(A) = Cardinality(B)
  BY <1>5, <1>6, FS_Bijection DEF ExistsBijection
<1> QED BY <1>7 DEF Total, A, B

\* A part adds up to no more than the whole.
LEMMA TotalMonotone ==
  ASSUME NEW f, NEW S, NEW T, IsFiniteSet(S), T \subseteq S, \A x \in S : f[x] \in Nat
  PROVE  Total(f, T) <= Total(f, S)
<1>1. IsFiniteSet(T) /\ IsFiniteSet(S \ T) BY FS_Subset, FS_Difference
<1>2. Total(f, T) \in Nat /\ Total(f, S \ T) \in Nat BY <1>1, TotalType
<1>3. Total(f, S) = Total(f, T) + Total(f, S \ T) BY TotalSplit
<1> QED BY <1>2, <1>3

=============================================================================
