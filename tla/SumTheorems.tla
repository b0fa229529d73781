----------------------------- MODULE SumTheorems -----------------------------
(***************************************************************************)
(* Facts about sums over finite sets, the SumFunctionOnSet of the          *)
(* community module Functions, and the induction on the natural numbers    *)
(* they rest on.  Induction is stated for sets of numbers, so that no      *)
(* operator has to be instantiated: a property of numbers P is the set     *)
(* {n \in Nat : P(n)}.                                                     *)
(***************************************************************************)
EXTENDS Integers, FiniteSets, Functions, FiniteSetTheorems, WellFoundedInduction, TLAPS

LEMMA LeastElement ==
    ASSUME NEW T, T \subseteq Nat, T # {}
    PROVE  \E x \in T : \A y \in T : ~(y < x)
<1>1. PICK x \in T : \A y \in T : ~(<<y, x>> \in OpToRel(<, Nat))
  BY WFMin, NatLessThanWellFounded
<1>2. \A y \in T : ~(y < x)
  BY <1>1 DEF OpToRel
<1> QED
  BY <1>2

LEMMA SetInduction ==
    ASSUME NEW T, T \subseteq Nat, 0 \in T, \A n \in T : n + 1 \in T
    PROVE  T = Nat
<1>1. SUFFICES ASSUME Nat \ T # {} PROVE FALSE
  OBVIOUS
<1>2. PICK x \in Nat \ T : \A y \in Nat \ T : ~(y < x)
  BY LeastElement, <1>1
<1>3. x # 0 /\ x - 1 \in Nat /\ x - 1 < x
  BY <1>2
<1>4. x - 1 \in T
  BY <1>2, <1>3
<1> QED
  BY <1>2, <1>3, <1>4

\* The same up to a bound.
LEMMA BoundedInduction ==
    ASSUME NEW m \in Nat, NEW T, T \subseteq 0..m, 0 \in T,
           \A n \in T : n < m => n + 1 \in T
    PROVE  T = 0..m
<1> DEFINE U == {n \in Nat : n <= m => n \in T}
<1>1. U \subseteq Nat /\ 0 \in U
  OBVIOUS
<1>2. \A n \in U : n + 1 \in U
  OBVIOUS
<1>3. U = Nat
  <2> HIDE DEF U
  <2> QED BY <1>1, <1>2, SetInduction
<1>4. \A n \in Nat : n <= m => n \in T
  BY <1>3
<1> HIDE DEF U
<1>5. 0..m \subseteq T
  BY <1>4
<1> QED
  BY <1>5

-----------------------------------------------------------------------------
(* The table of sums that SumFunctionOnSet is defined by. *)

PickOne(s) == CHOOSE x \in s : TRUE
SumEntry(f, h, s) == IF s = {} THEN 0 ELSE f[PickOne(s)] + h[s \ {PickOne(s)}]
IsTable(f, S, h) == h = [s \in SUBSET S |-> SumEntry(f, h, s)]
SumTable(f, S) == CHOOSE h : IsTable(f, S, h)

LEMMA SumIsEntry ==
    ASSUME NEW f, NEW S
    PROVE  SumFunctionOnSet(f, S) = SumTable(f, S)[S]
BY DEF SumFunctionOnSet, FoldFunctionOnSet, MapThenFoldSet, SumTable, IsTable, SumEntry, PickOne

Ints(f, S) == \A x \in S : f[x] \in Int

LEMMA PickOneIn ==
    ASSUME NEW s, s # {}
    PROVE  PickOne(s) \in s
BY DEF PickOne

LEMMA RestIsSmaller ==
    ASSUME NEW s, IsFiniteSet(s), NEW x \in s
    PROVE  /\ IsFiniteSet(s \ {x}) /\ Cardinality(s) \in Nat \ {0}
           /\ Cardinality(s \ {x}) = Cardinality(s) - 1
<1>1. Cardinality(s) \in Nat /\ s # {}
  BY FS_CardinalityType
<1>2. Cardinality(s) # 0
  BY <1>1, FS_EmptySet
<1> QED
  BY <1>1, <1>2, FS_RemoveElement

LEMMA TableExists ==
    ASSUME NEW S, IsFiniteSet(S), NEW f, Ints(f, S)
    PROVE  \E h \in [SUBSET S -> Int] : IsTable(f, S, h)
<1> DEFINE Up(n) == {s \in SUBSET S : Cardinality(s) <= n}
           Fits(h, n) == \A s \in Up(n) : h[s] = SumEntry(f, h, s)
           T == {n \in Nat : \E h \in [Up(n) -> Int] : Fits(h, n)}
<1>1. \A s \in SUBSET S : IsFiniteSet(s) /\ Cardinality(s) \in Nat
  BY FS_Subset, FS_CardinalityType
<1>2. 0 \in T
  <2> DEFINE h == [s \in Up(0) |-> 0]
  <2>1. \A s \in Up(0) : s = {}
    BY <1>1, FS_EmptySet
  <2>2. Fits(h, 0)
    BY <2>1 DEF SumEntry
  <2>3. h \in [Up(0) -> Int]
    OBVIOUS
  <2> QED
    BY <2>2, <2>3
<1>3. ASSUME NEW n \in T PROVE n + 1 \in T
  <2>1. n \in Nat /\ n + 1 \in Nat
    OBVIOUS
  <2>2. PICK g \in [Up(n) -> Int] : Fits(g, n)
    OBVIOUS
  <2> DEFINE h == [s \in Up(n + 1) |-> IF s \in Up(n) THEN g[s] ELSE SumEntry(f, g, s)]
  <2>3. ASSUME NEW s \in Up(n + 1), s # {}
        PROVE  s \ {PickOne(s)} \in Up(n) /\ PickOne(s) \in S
    <3>1. PickOne(s) \in s
      BY <2>3, PickOneIn
    <3>2. Cardinality(s \ {PickOne(s)}) = Cardinality(s) - 1
      BY <1>1, <3>1, RestIsSmaller
    <3> QED
      BY <1>1, <2>1, <3>1, <3>2
  <2>4. ASSUME NEW s \in Up(n + 1) PROVE SumEntry(f, g, s) \in Int
    BY <2>2, <2>3 DEF SumEntry, Ints
  <2>5. h \in [Up(n + 1) -> Int]
    <3>1. \A s \in Up(n + 1) : (IF s \in Up(n) THEN g[s] ELSE SumEntry(f, g, s)) \in Int
      BY <2>2, <2>4
    <3> QED
      BY <3>1
  <2>6. Up(n) \subseteq Up(n + 1)
    BY <1>1, <2>1
  <2>7. \A s \in Up(n) : h[s] = g[s]
    BY <2>6
  <2>8. ASSUME NEW s \in Up(n + 1) PROVE SumEntry(f, h, s) = SumEntry(f, g, s)
    <3>1. CASE s = {}
      BY <3>1 DEF SumEntry
    <3>2. CASE s # {}
      <4>1. h[s \ {PickOne(s)}] = g[s \ {PickOne(s)}]
        BY <2>3, <2>7, <3>2
      <4> HIDE DEF h
      <4> QED
        BY <3>2, <4>1 DEF SumEntry
    <3> QED
      BY <3>1, <3>2
  <2>9. Fits(h, n + 1)
    BY <2>2, <2>6, <2>8
  <2> HIDE DEF h, Fits, Up
  <2> QED
    BY <2>1, <2>5, <2>9
<1>4. T = Nat
  <2>1. T \subseteq Nat
    OBVIOUS
  <2> HIDE DEF T
  <2> QED
    BY <1>2, <1>3, <2>1, SetInduction
<1> DEFINE m == Cardinality(S)
<1>5. m \in Nat
  BY FS_CardinalityType
<1>6. \A s \in SUBSET S : Cardinality(s) <= m
  BY FS_Subset
<1>7. Up(m) = SUBSET S
  BY <1>6
<1>8. PICK h \in [Up(m) -> Int] : Fits(h, m)
  BY <1>4, <1>5
<1>9. IsTable(f, S, h)
  BY <1>7, <1>8 DEF IsTable
<1> QED
  BY <1>7, <1>8, <1>9

LEMMA TableUnique ==
    ASSUME NEW S, IsFiniteSet(S), NEW f, NEW g, NEW h,
           IsTable(f, S, g), IsTable(f, S, h)
    PROVE  g = h
<1> DEFINE D == {s \in SUBSET S : g[s] # h[s]}
           T == {n \in Nat : \E s \in D : n = Cardinality(s)}
<1>1. \A s \in SUBSET S : IsFiniteSet(s) /\ Cardinality(s) \in Nat
  BY FS_Subset, FS_CardinalityType
<1>2. ASSUME NEW s \in D PROVE \E t \in D : Cardinality(t) < Cardinality(s)
  <2>1. g[s] = SumEntry(f, g, s) /\ h[s] = SumEntry(f, h, s)
    BY DEF IsTable
  <2>2. s # {}
    BY <2>1 DEF SumEntry
  <2>3. PickOne(s) \in s
    BY <2>2, PickOneIn
  <2> DEFINE t == s \ {PickOne(s)}
  <2>4. g[t] # h[t]
    BY <2>1, <2>2 DEF SumEntry
  <2>5. t \in D
    BY <2>4
  <2>6. Cardinality(t) < Cardinality(s)
    BY <1>1, <2>3, RestIsSmaller
  <2> QED
    BY <2>5, <2>6
<1>3. T = {}
  <2>1. SUFFICES ASSUME T # {} PROVE FALSE
    OBVIOUS
  <2>2. T \subseteq Nat
    OBVIOUS
  <2>3. PICK n \in T : \A k \in T : ~(k < n)
    <3> HIDE DEF T
    <3> QED BY <2>1, <2>2, LeastElement
  <2>4. PICK s \in D : n = Cardinality(s)
    OBVIOUS
  <2>5. PICK t \in D : Cardinality(t) < n
    BY <1>2, <2>4
  <2> QED
    BY <1>1, <2>3, <2>5
<1>4. D = {}
  BY <1>1, <1>3
<1>5. \A s \in SUBSET S : g[s] = h[s]
  BY <1>4
<1> QED
  BY <1>5 DEF IsTable

LEMMA TableType ==
    ASSUME NEW S, IsFiniteSet(S), NEW f, Ints(f, S)
    PROVE  /\ SumTable(f, S) \in [SUBSET S -> Int]
           /\ \A s \in SUBSET S : SumTable(f, S)[s] = SumEntry(f, SumTable(f, S), s)
<1>1. PICK g \in [SUBSET S -> Int] : IsTable(f, S, g)
  BY TableExists
<1> DEFINE h == SumTable(f, S)
<1>2. IsTable(f, S, h)
  BY <1>1 DEF SumTable
<1>3. h = g
  <2> HIDE DEF h
  <2> QED BY <1>1, <1>2, TableUnique
<1>4. \A s \in SUBSET S : g[s] = SumEntry(f, g, s)
  BY <1>1 DEF IsTable
<1> QED
  BY <1>1, <1>3, <1>4

\* The table of a part is a part of the table.
LEMMA TableRestricts ==
    ASSUME NEW S, IsFiniteSet(S), NEW f, Ints(f, S), NEW R \in SUBSET S
    PROVE  SumFunctionOnSet(f, R) = SumTable(f, S)[R]
<1> DEFINE g == [s \in SUBSET R |-> SumTable(f, S)[s]]
           h == SumTable(f, R)
<1>1. IsFiniteSet(R) /\ Ints(f, R)
  BY FS_Subset DEF Ints
<1>2. IsTable(f, R, h)
  BY <1>1, TableExists DEF SumTable
<1>3. \A s \in SUBSET R : SumTable(f, S)[s] = SumEntry(f, SumTable(f, S), s)
  BY TableType
<1>4. ASSUME NEW s \in SUBSET R
      PROVE  SumEntry(f, SumTable(f, S), s) = SumEntry(f, g, s)
  <2>1. g[s \ {PickOne(s)}] = SumTable(f, S)[s \ {PickOne(s)}]
    OBVIOUS
  <2> HIDE DEF g
  <2> QED
    BY <2>1 DEF SumEntry
<1>5. IsTable(f, R, g)
  BY <1>3, <1>4 DEF IsTable
<1>6. g = h
  <2> HIDE DEF g, h
  <2> QED BY <1>1, <1>2, <1>5, TableUnique
<1>7. g[R] = SumTable(f, S)[R]
  OBVIOUS
<1> QED
  BY <1>6, <1>7, SumIsEntry

-----------------------------------------------------------------------------
(* What a sum is. *)

THEOREM SumEmpty ==
    ASSUME NEW f
    PROVE  SumFunctionOnSet(f, {}) = 0
<1>1. IsFiniteSet({}) /\ Ints(f, {})
  BY FS_EmptySet DEF Ints
<1>2. SumTable(f, {})[{}] = SumEntry(f, SumTable(f, {}), {})
  BY <1>1, TableType
<1> QED
  BY <1>2, SumIsEntry DEF SumEntry

THEOREM SumType ==
    ASSUME NEW S, IsFiniteSet(S), NEW f, Ints(f, S)
    PROVE  SumFunctionOnSet(f, S) \in Int
<1>1. SumTable(f, S)[S] \in Int
  BY TableType
<1> QED
  BY <1>1, SumIsEntry

LEMMA SumPicks ==
    ASSUME NEW S, IsFiniteSet(S), NEW f, Ints(f, S), NEW s \in SUBSET S, s # {}
    PROVE  /\ PickOne(s) \in s
           /\ SumFunctionOnSet(f, s)
                = f[PickOne(s)] + SumFunctionOnSet(f, s \ {PickOne(s)})
<1>1. PickOne(s) \in s /\ s \ {PickOne(s)} \in SUBSET S
  BY PickOneIn
<1>2. SumTable(f, S)[s] = f[PickOne(s)] + SumTable(f, S)[s \ {PickOne(s)}]
  BY TableType DEF SumEntry
<1> QED
  BY <1>1, <1>2, TableRestricts

\* The order in which a sum is taken does not matter.
THEOREM SumRemove ==
    ASSUME NEW S, IsFiniteSet(S), NEW f, Ints(f, S), NEW x \in S
    PROVE  SumFunctionOnSet(f, S) = f[x] + SumFunctionOnSet(f, S \ {x})
<1> DEFINE Sum(s) == SumFunctionOnSet(f, s)
           T == {n \in Nat : \A s \in SUBSET S : Cardinality(s) = n =>
                                 \A y \in s : Sum(s) = f[y] + Sum(s \ {y})}
<1>1. \A s \in SUBSET S : IsFiniteSet(s) /\ Cardinality(s) \in Nat
  BY FS_Subset, FS_CardinalityType
<1>2. \A s \in SUBSET S : Sum(s) \in Int
  BY <1>1, SumType DEF Ints
<1>3. 0 \in T
  <2>1. ASSUME NEW s \in SUBSET S, Cardinality(s) = 0 PROVE s = {}
    BY <1>1, <2>1, FS_EmptySet
  <2> HIDE DEF Sum
  <2> QED
    BY <2>1
<1>4. ASSUME NEW n \in T PROVE n + 1 \in T
  <2>1. SUFFICES ASSUME NEW s \in SUBSET S, Cardinality(s) = n + 1, NEW y \in s
                 PROVE  Sum(s) = f[y] + Sum(s \ {y})
    OBVIOUS
  <2> DEFINE z == PickOne(s)
  <2>2. z \in s /\ Sum(s) = f[z] + Sum(s \ {z})
    BY SumPicks
  <2>3. CASE y = z
    BY <2>2, <2>3
  <2>4. CASE y # z
    <3>1. Cardinality(s \ {z}) = n /\ Cardinality(s \ {y}) = n
      BY <1>1, <2>1, <2>2, RestIsSmaller
    <3>2. Sum(s \ {z}) = f[y] + Sum((s \ {z}) \ {y})
      <4> HIDE DEF Sum, z
      <4> QED BY <2>4, <3>1
    <3>3. Sum(s \ {y}) = f[z] + Sum((s \ {y}) \ {z})
      <4> HIDE DEF Sum, z
      <4> QED BY <2>2, <2>4, <3>1
    <3>4. (s \ {z}) \ {y} = (s \ {y}) \ {z}
      OBVIOUS
    <3>5. f[y] \in Int /\ f[z] \in Int /\ Sum((s \ {y}) \ {z}) \in Int
      BY <1>2, <2>2 DEF Ints
    <3>6. Sum(s) = f[z] + (f[y] + Sum((s \ {y}) \ {z}))
      <4> HIDE DEF Sum, z
      <4> QED BY <2>2, <3>2, <3>4
    <3> HIDE DEF Sum, z
    <3> QED
      BY <3>3, <3>5, <3>6
  <2> QED
    BY <2>3, <2>4
<1>5. T = Nat
  <2>1. T \subseteq Nat
    OBVIOUS
  <2> HIDE DEF T
  <2> QED
    BY <1>3, <1>4, <2>1, SetInduction
<1>6. Cardinality(S) \in T
  BY <1>1, <1>5
<1> HIDE DEF Sum
<1>7. Sum(S) = f[x] + Sum(S \ {x})
  BY <1>6
<1> QED
  BY <1>7 DEF Sum

THEOREM SumAdd ==
    ASSUME NEW S, IsFiniteSet(S), NEW x, x \notin S, NEW f, Ints(f, S \cup {x})
    PROVE  SumFunctionOnSet(f, S \cup {x}) = f[x] + SumFunctionOnSet(f, S)
<1>1. IsFiniteSet(S \cup {x})
  BY FS_AddElement
<1>2. (S \cup {x}) \ {x} = S
  OBVIOUS
<1> QED
  BY <1>1, <1>2, SumRemove

\* Sums of the same numbers are the same.
THEOREM SumSame ==
    ASSUME NEW S, IsFiniteSet(S), NEW f, NEW g, Ints(f, S), \A x \in S : f[x] = g[x]
    PROVE  SumFunctionOnSet(f, S) = SumFunctionOnSet(g, S)
<1> DEFINE h == SumTable(f, S)
<1>1. Ints(g, S)
  BY DEF Ints
<1>2. ASSUME NEW s \in SUBSET S PROVE h[s] = SumEntry(g, h, s)
  <2>1. h[s] = SumEntry(f, h, s)
    BY TableType
  <2>2. s # {} => PickOne(s) \in S
    BY PickOneIn
  <2> HIDE DEF h
  <2> QED
    BY <2>1, <2>2 DEF SumEntry
<1>3. h \in [SUBSET S -> Int]
  BY TableType
<1>4. IsTable(g, S, h)
  <2> HIDE DEF h
  <2> QED BY <1>2, <1>3 DEF IsTable
<1>5. IsTable(g, S, SumTable(g, S))
  BY <1>4 DEF SumTable
<1>6. h = SumTable(g, S)
  <2> HIDE DEF h
  <2> QED BY <1>4, <1>5, TableUnique
<1> QED
  BY <1>6, SumIsEntry

\* A sum of changes: what is added pointwise is added to the sum.
THEOREM SumPlus ==
    ASSUME NEW S, IsFiniteSet(S), NEW f, NEW g, NEW d, Ints(f, S), Ints(d, S),
           \A x \in S : g[x] = f[x] + d[x]
    PROVE  SumFunctionOnSet(g, S) = SumFunctionOnSet(f, S) + SumFunctionOnSet(d, S)
<1> DEFINE Good(s) == SumFunctionOnSet(g, s) = SumFunctionOnSet(f, s) + SumFunctionOnSet(d, s)
           T == {n \in Nat : \A s \in SUBSET S : Cardinality(s) = n => Good(s)}
<1>1. \A s \in SUBSET S : IsFiniteSet(s) /\ Cardinality(s) \in Nat
  BY FS_Subset, FS_CardinalityType
<1>2. Ints(g, S)
  BY DEF Ints
<1>3. 0 \in T
  <2>1. ASSUME NEW s \in SUBSET S, Cardinality(s) = 0 PROVE Good(s)
    <3>1. s = {}
      BY <1>1, <2>1, FS_EmptySet
    <3> QED
      BY <3>1, SumEmpty
  <2> HIDE DEF Good
  <2> QED
    BY <2>1
<1>4. ASSUME NEW n \in T PROVE n + 1 \in T
  <2>1. SUFFICES ASSUME NEW s \in SUBSET S, Cardinality(s) = n + 1 PROVE Good(s)
    <3> HIDE DEF Good
    <3> QED OBVIOUS
  <2>2. s # {}
    BY <1>1, <2>1, FS_EmptySet
  <2>3. PICK x \in s : TRUE
    BY <2>2
  <2> DEFINE r == s \ {x}
  <2>4. Cardinality(r) = n /\ r \in SUBSET S
    BY <1>1, <2>1, RestIsSmaller
  <2>5. Good(r)
    <3> HIDE DEF Good, r
    <3> QED BY <2>4
  <2>6. Ints(f, s) /\ Ints(g, s) /\ Ints(d, s)
    BY <1>2 DEF Ints
  <2>7. /\ SumFunctionOnSet(f, s) = f[x] + SumFunctionOnSet(f, r)
        /\ SumFunctionOnSet(g, s) = g[x] + SumFunctionOnSet(g, r)
        /\ SumFunctionOnSet(d, s) = d[x] + SumFunctionOnSet(d, r)
    BY <1>1, <2>6, SumRemove
  <2>8. /\ SumFunctionOnSet(f, r) \in Int /\ SumFunctionOnSet(d, r) \in Int
        /\ f[x] \in Int /\ d[x] \in Int /\ g[x] = f[x] + d[x]
    BY <1>1, <2>4, <2>6, SumType DEF Ints
  <2> HIDE DEF r
  <2> QED
    BY <2>5, <2>7, <2>8
<1>5. T = Nat
  <2>1. T \subseteq Nat
    OBVIOUS
  <2> HIDE DEF T
  <2> QED
    BY <1>3, <1>4, <2>1, SetInduction
<1>6. Cardinality(S) \in T
  BY <1>1, <1>5
<1> HIDE DEF Good
<1>7. Good(S)
  BY <1>6
<1> QED
  BY <1>7 DEF Good

\* A sum of natural numbers is one.
THEOREM SumNat ==
    ASSUME NEW S, IsFiniteSet(S), NEW f, \A x \in S : f[x] \in Nat
    PROVE  SumFunctionOnSet(f, S) \in Nat
<1> DEFINE Sum(s) == SumFunctionOnSet(f, s)
           T == {n \in Nat : \A s \in SUBSET S : Cardinality(s) = n => Sum(s) \in Nat}
<1>1. \A s \in SUBSET S : IsFiniteSet(s) /\ Cardinality(s) \in Nat
  BY FS_Subset, FS_CardinalityType
<1>2. 0 \in T
  <2>1. ASSUME NEW s \in SUBSET S, Cardinality(s) = 0 PROVE Sum(s) \in Nat
    <3>1. s = {}
      BY <1>1, <2>1, FS_EmptySet
    <3> QED
      BY <3>1, SumEmpty
  <2> HIDE DEF Sum
  <2> QED
    BY <2>1
<1>3. ASSUME NEW n \in T PROVE n + 1 \in T
  <2>1. SUFFICES ASSUME NEW s \in SUBSET S, Cardinality(s) = n + 1 PROVE Sum(s) \in Nat
    <3> HIDE DEF Sum
    <3> QED OBVIOUS
  <2>2. s # {}
    BY <1>1, <2>1, FS_EmptySet
  <2>3. PICK x \in s : TRUE
    BY <2>2
  <2>4. Cardinality(s \ {x}) = n /\ s \ {x} \in SUBSET S
    BY <1>1, <2>1, RestIsSmaller
  <2>5. Sum(s \ {x}) \in Nat
    <3> HIDE DEF Sum
    <3> QED BY <2>4
  <2>6. Ints(f, s) /\ f[x] \in Nat
    BY DEF Ints
  <2>7. Sum(s) = f[x] + Sum(s \ {x})
    BY <1>1, <2>6, SumRemove
  <2> HIDE DEF Sum
  <2> QED
    BY <2>5, <2>6, <2>7
<1>4. T = Nat
  <2>1. T \subseteq Nat
    OBVIOUS
  <2> HIDE DEF T
  <2> QED
    BY <1>2, <1>3, <2>1, SetInduction
<1>5. Cardinality(S) \in T
  BY <1>1, <1>4
<1> HIDE DEF Sum
<1>6. Sum(S) \in Nat
  BY <1>5
<1> QED
  BY <1>6 DEF Sum

\* The sum of the greater numbers is the greater sum.
THEOREM SumMonotone ==
    ASSUME NEW S, IsFiniteSet(S), NEW f, NEW g, Ints(f, S), Ints(g, S),
           \A x \in S : f[x] <= g[x]
    PROVE  SumFunctionOnSet(f, S) <= SumFunctionOnSet(g, S)
<1> DEFINE d == [x \in S |-> g[x] - f[x]]
<1>1. \A x \in S : d[x] \in Nat /\ g[x] = f[x] + d[x]
  BY DEF Ints
<1>2. Ints(d, S)
  BY <1>1 DEF Ints
<1> HIDE DEF d
<1>3. SumFunctionOnSet(g, S) = SumFunctionOnSet(f, S) + SumFunctionOnSet(d, S)
  BY <1>1, <1>2, SumPlus
<1>4. SumFunctionOnSet(d, S) \in Nat /\ SumFunctionOnSet(f, S) \in Int
  BY <1>1, SumNat, SumType
<1> QED
  BY <1>3, <1>4

\* One number changes by d: so does the sum.
THEOREM SumChangeOne ==
    ASSUME NEW S, IsFiniteSet(S), NEW f, NEW g, Ints(f, S), NEW x \in S, g[x] \in Int,
           \A y \in S \ {x} : g[y] = f[y]
    PROVE  SumFunctionOnSet(g, S) = SumFunctionOnSet(f, S) + (g[x] - f[x])
<1>1. IsFiniteSet(S \ {x}) /\ Ints(f, S \ {x}) /\ Ints(g, S)
  BY FS_Subset DEF Ints
<1>2. SumFunctionOnSet(f, S \ {x}) = SumFunctionOnSet(g, S \ {x})
  BY <1>1, SumSame
<1>3. /\ SumFunctionOnSet(f, S) = f[x] + SumFunctionOnSet(f, S \ {x})
      /\ SumFunctionOnSet(g, S) = g[x] + SumFunctionOnSet(g, S \ {x})
  BY <1>1, SumRemove
<1>4. SumFunctionOnSet(f, S \ {x}) \in Int /\ f[x] \in Int
  BY <1>1, SumType DEF Ints
<1> QED
  BY <1>2, <1>3, <1>4

\* What a counter has gone down by is the sum of what it went down by at each step.
THEOREM SumTelescopes ==
    ASSUME NEW m \in Nat, NEW rem, \A n \in 0..m : rem[n] \in Int,
           NEW f, \A n \in 1..m : f[n] = rem[n - 1] - rem[n]
    PROVE  SumFunctionOnSet(f, 1..m) = rem[0] - rem[m]
<1> DEFINE T == {n \in 0..m : SumFunctionOnSet(f, 1..n) = rem[0] - rem[n]}
<1>1. \A n \in 0..m : IsFiniteSet(1..n) /\ Ints(f, 1..n)
  <2>1. \A n \in 1..m : f[n] \in Int
    OBVIOUS
  <2> QED
    BY <2>1, FS_Interval DEF Ints
<1>2. 0 \in T
  <2>1. 1..0 = {}
    OBVIOUS
  <2>2. SumFunctionOnSet(f, 1..0) = 0
    BY <2>1, SumEmpty
  <2> QED
    BY <2>2
<1>3. ASSUME NEW n \in T, n < m PROVE n + 1 \in T
  <2>1. n \in 0..m /\ n + 1 \in 1..m
    BY <1>3
  <2>2. 1..(n + 1) = 1..n \cup {n + 1} /\ (n + 1) \notin 1..n
    BY <2>1
  <2>3. SumFunctionOnSet(f, 1..(n + 1)) = f[n + 1] + SumFunctionOnSet(f, 1..n)
    <3>1. n + 1 \in 0..m
      BY <2>1
    <3>2. IsFiniteSet(1..n) /\ Ints(f, 1..n \cup {n + 1})
      BY <1>1, <2>1, <2>2, <3>1
    <3>3. SumFunctionOnSet(f, 1..n \cup {n + 1}) = f[n + 1] + SumFunctionOnSet(f, 1..n)
      BY <2>2, <3>2, SumAdd
    <3> QED
      BY <2>2, <3>3
  <2>4. f[n + 1] = rem[n] - rem[n + 1] /\ rem[0] \in Int /\ rem[n] \in Int /\ rem[n + 1] \in Int
    BY <2>1
  <2>5. SumFunctionOnSet(f, 1..(n + 1)) = rem[0] - rem[n + 1]
    BY <2>3, <2>4
  <2> QED
    BY <2>1, <2>5
<1>4. T = 0..m
  <2>1. T \subseteq 0..m
    OBVIOUS
  <2> HIDE DEF T
  <2> QED
    BY <1>2, <1>3, <2>1, BoundedInduction
<1> QED
  BY <1>4

THEOREM SumZero ==
    ASSUME NEW S, IsFiniteSet(S), NEW f, \A x \in S : f[x] = 0
    PROVE  SumFunctionOnSet(f, S) = 0
<1>1. Ints(f, S) /\ \A x \in S : f[x] = f[x] + f[x]
  BY DEF Ints
<1>2. SumFunctionOnSet(f, S) = SumFunctionOnSet(f, S) + SumFunctionOnSet(f, S)
  BY <1>1, SumPlus
<1>3. SumFunctionOnSet(f, S) \in Int
  BY <1>1, SumType
<1>4. \A i \in Int : i = i + i => i = 0
  OBVIOUS
<1> QED
  BY <1>2, <1>3, <1>4, Zenon

\* No part is more than the sum.
THEOREM SumPart ==
    ASSUME NEW S, IsFiniteSet(S), NEW f, \A x \in S : f[x] \in Nat, NEW x \in S
    PROVE  f[x] <= SumFunctionOnSet(f, S)
<1>1. Ints(f, S) /\ IsFiniteSet(S \ {x})
  BY FS_Subset DEF Ints
<1>2. SumFunctionOnSet(f, S) = f[x] + SumFunctionOnSet(f, S \ {x})
  BY <1>1, SumRemove
<1>3. SumFunctionOnSet(f, S \ {x}) \in Nat /\ f[x] \in Nat
  BY <1>1, SumNat
<1> QED
  BY <1>2, <1>3
=============================================================================
