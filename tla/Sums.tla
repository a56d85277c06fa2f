-------------------------------- MODULE Sums --------------------------------
(***************************************************************************)
(* Facts about SumFunctionOnSet(f, S), the sum of f[x] over the x in S: of *)
(* the quantities of a set of orders, or of the totals of a set of price   *)
(* levels.  The operator is a fold defined with CHOOSE; each fact is       *)
(* proved by well-founded induction over the subsets of a finite set, as   *)
(* the absence of a minimal counterexample.                                *)
(***************************************************************************)
EXTENDS Integers, FiniteSets, Functions, FiniteSetTheorems, TLAPS

\* The element the fold takes first.
First(s) == CHOOSE x \in s : TRUE

\* g is the table the fold of f over S is computed with.
Table(f, S, g) ==
  g = [s \in SUBSET S |-> IF s = {} THEN 0 ELSE f[First(s)] + g[s \ {First(s)}]]

(***************************************************************************)
(* A non-empty family of subsets of a finite set has a minimal member.     *)
(***************************************************************************)
LEMMA MinimalSubset ==
  ASSUME NEW S, IsFiniteSet(S), NEW B, B \subseteq SUBSET S, B # {}
  PROVE  \E s \in B : \A t \in SUBSET s : t \in B => t = s
<1>1. IsWellFoundedOn(StrictSubsetOrdering(S), SUBSET S)
  BY FS_FiniteSubsetsOfFinite, FS_StrictSubsetOrderingWellFounded
<1>2. PICK s \in B : \A t \in B : <<t, s>> \notin StrictSubsetOrdering(S)
  BY <1>1, WFMin
<1>3. ASSUME NEW t \in SUBSET s, t \in B PROVE t = s
  BY <1>2, <1>3 DEF StrictSubsetOrdering
<1> QED BY <1>2, <1>3

\* A finite set of numbers has a greatest one.
LEMMA GreatestExists ==
  ASSUME NEW S, IsFiniteSet(S)
  PROVE  S # {} /\ S \subseteq Int => \E x \in S : \A y \in S : y <= x
<1> DEFINE B == {s \in SUBSET S : s # {} /\ s \subseteq Int
                                  /\ ~\E x \in s : \A y \in s : y <= x}
<1>1. SUFFICES ASSUME B # {} PROVE FALSE
  <2>1. S \in SUBSET S
    OBVIOUS
  <2> QED BY <2>1
<1>2. B \subseteq SUBSET S
  OBVIOUS
<1> HIDE DEF B
<1>3. PICK s \in B : \A t \in SUBSET s : t \in B => t = s
  BY <1>1, <1>2, MinimalSubset
<1>4. s \subseteq Int /\ s # {} /\ ~\E x \in s : \A y \in s : y <= x
  BY DEF B
<1>5. PICK z \in s : TRUE
  BY <1>4
<1>6. s \ {z} = {} \/ \E x \in s \ {z} : \A y \in s \ {z} : y <= x
  <2>1. s \ {z} \in SUBSET s /\ s \ {z} # s /\ s \ {z} \in SUBSET S /\ s \ {z} \subseteq Int
    BY <1>2, <1>4, <1>5
  <2>2. s \ {z} \notin B
    BY <1>3, <2>1
  <2> QED BY <2>1, <2>2 DEF B
<1>7. CASE s \ {z} = {}
  BY <1>4, <1>5, <1>7
<1>8. CASE s \ {z} # {}
  <2>1. PICK m \in s \ {z} : \A y \in s \ {z} : y <= m
    BY <1>6, <1>8
  <2>2. CASE z <= m
    BY <1>4, <2>1, <2>2
  <2>3. CASE ~(z <= m)
    <3>1. \A y \in s : y <= z
      BY <1>4, <1>5, <2>1, <2>3
    <3> QED BY <1>4, <1>5, <3>1
  <2> QED BY <2>2, <2>3
<1> QED BY <1>7, <1>8

(***************************************************************************)
(* The sum is what the table holds, if there is a table.                   *)
(***************************************************************************)
LEMMA SumIsTabled ==
  ASSUME NEW f, NEW S, \E g : Table(f, S, g)
  PROVE  \E g : Table(f, S, g) /\ SumFunctionOnSet(f, S) = g[S]
<1> DEFINE iter == CHOOSE g :
      g = [s \in SUBSET S |-> IF s = {} THEN 0
             ELSE f[CHOOSE x \in s : TRUE] + g[s \ {CHOOSE x \in s : TRUE}]]
<1>1. SumFunctionOnSet(f, S) = iter[S]
  BY DEF SumFunctionOnSet, FoldFunctionOnSet, MapThenFoldSet
<1>2. Table(f, S, iter)
  BY DEF Table, First
<1> QED BY <1>1, <1>2

\* What a table holds for one set.
LEMMA TableEntry ==
  ASSUME NEW f, NEW S, NEW g, Table(f, S, g), NEW s \in SUBSET S
  PROVE  /\ g[{}] = 0
         /\ s # {} => g[s] = f[First(s)] + g[s \ {First(s)}]
BY DEF Table

\* The first element of a non-empty set is one of its elements.
LEMMA FirstInSet == ASSUME NEW s, s # {} PROVE First(s) \in s
BY DEF First

(***************************************************************************)
(* Tables of two sets agree on every set both of them have.                *)
(***************************************************************************)
LEMMA TablesAgree ==
  ASSUME NEW f, NEW S, NEW T, IsFiniteSet(S),
         NEW g, NEW h, Table(f, S, g), Table(f, T, h),
         NEW u \in SUBSET S, u \in SUBSET T
  PROVE  g[u] = h[u]
<1> DEFINE B == {s \in SUBSET S : s \in SUBSET T /\ g[s] # h[s]}
<1>1. SUFFICES ASSUME B # {} PROVE FALSE
  OBVIOUS
<1>2. B \subseteq SUBSET S
  OBVIOUS
<1> HIDE DEF B
<1>3. PICK s \in B : \A t \in SUBSET s : t \in B => t = s
  BY <1>1, <1>2, MinimalSubset
<1> USE DEF B
<1>4. s # {}
  BY TableEntry
<1>5. First(s) \in s
  BY <1>4, FirstInSet
<1>6. g[s \ {First(s)}] = h[s \ {First(s)}]
  BY <1>3, <1>5
<1> QED BY <1>4, <1>6, TableEntry

(***************************************************************************)
(* Every finite set has a table.                                           *)
(***************************************************************************)
LEMMA TableExists ==
  ASSUME NEW f, NEW S, IsFiniteSet(S)
  PROVE  \E g : Table(f, S, g)
<1> DEFINE B == {s \in SUBSET S : ~\E g : Table(f, s, g)}
<1>1. SUFFICES ASSUME B # {} PROVE FALSE
  OBVIOUS
<1>2. B \subseteq SUBSET S
  OBVIOUS
<1> HIDE DEF B
<1>3. PICK s \in B : \A t \in SUBSET s : t \in B => t = s
  BY <1>1, <1>2, MinimalSubset
<1> USE DEF B
<1> DEFINE entry(u) == IF u = {} THEN 0
                       ELSE f[First(u)] + SumFunctionOnSet(f, u \ {First(u)})
           table == [u \in SUBSET s |-> entry(u)]
<1>4. ASSUME NEW u \in SUBSET s, u # s PROVE SumFunctionOnSet(f, u) = entry(u)
  <2>1. PICK g : Table(f, u, g) /\ SumFunctionOnSet(f, u) = g[u]
    BY <1>3, <1>4, SumIsTabled
  <2>2. CASE u = {}
    BY <2>1, <2>2, TableEntry
  <2>3. CASE u # {}
    <3> DEFINE v == u \ {First(u)}
    <3>1. First(u) \in u
      BY <2>3, FirstInSet
    <3>2. v \in SUBSET s /\ v # s /\ v \in SUBSET u
      BY <1>4, <3>1
    <3>3. PICK h : Table(f, v, h) /\ SumFunctionOnSet(f, v) = h[v]
      BY <1>3, <3>2, SumIsTabled
    <3>4. IsFiniteSet(u)
      BY FS_Subset
    <3> HIDE DEF v
    <3>5. g[v] = h[v]
      BY <2>1, <3>2, <3>3, <3>4, TablesAgree
    <3>6. g[u] = f[First(u)] + g[v]
      BY <2>1, <2>3, TableEntry DEF v
    <3> QED BY <2>1, <2>3, <3>3, <3>5, <3>6 DEF v
  <2> QED BY <2>2, <2>3
<1>5. ASSUME NEW u \in SUBSET s, u # {}
      PROVE  entry(u) = f[First(u)] + table[u \ {First(u)}]
  <2> DEFINE v == u \ {First(u)}
  <2>1. v \in SUBSET s /\ v # s
    BY <1>5, FirstInSet
  <2>2. table[v] = SumFunctionOnSet(f, v)
    BY <1>4, <2>1
  <2> QED BY <1>5, <2>2
<1>6. Table(f, s, table)
  BY <1>5 DEF Table
<1> QED BY <1>3, <1>6

(***************************************************************************)
(* The sum of nothing is 0; any other sum is one term and the sum of the   *)
(* rest.                                                                   *)
(***************************************************************************)
LEMMA SumUnfolds ==
  ASSUME NEW f, NEW S, IsFiniteSet(S)
  PROVE  /\ S = {} => SumFunctionOnSet(f, S) = 0
         /\ S # {} => /\ First(S) \in S
                      /\ SumFunctionOnSet(f, S) =
                           f[First(S)] + SumFunctionOnSet(f, S \ {First(S)})
<1>1. PICK g : Table(f, S, g) /\ SumFunctionOnSet(f, S) = g[S]
  BY TableExists, SumIsTabled
<1>2. CASE S = {}
  BY <1>1, <1>2, TableEntry
<1>3. CASE S # {}
  <2> DEFINE v == S \ {First(S)}
  <2>1. IsFiniteSet(v)
    BY FS_RemoveElement
  <2>2. PICK h : Table(f, v, h) /\ SumFunctionOnSet(f, v) = h[v]
    BY <2>1, TableExists, SumIsTabled
  <2> HIDE DEF v
  <2>3. v \in SUBSET S
    BY DEF v
  <2>4. g[v] = h[v]
    BY <1>1, <2>2, <2>3, TablesAgree
  <2>5. g[S] = f[First(S)] + g[v]
    BY <1>1, <1>3, TableEntry DEF v
  <2> QED BY <1>1, <1>3, <2>2, <2>4, <2>5, FirstInSet DEF v
<1> QED BY <1>2, <1>3

\* The sum of nothing.
LEMMA SumEmpty == ASSUME NEW f PROVE SumFunctionOnSet(f, {}) = 0
BY SumUnfolds, FS_EmptySet

(***************************************************************************)
(* A sum of integers is an integer, of natural numbers a natural number.   *)
(***************************************************************************)
LEMMA SumType ==
  ASSUME NEW S, IsFiniteSet(S), NEW f, \A x \in S : f[x] \in Int
  PROVE  SumFunctionOnSet(f, S) \in Int
<1> DEFINE B == {s \in SUBSET S : SumFunctionOnSet(f, s) \notin Int}
<1>1. SUFFICES ASSUME B # {} PROVE FALSE
  OBVIOUS
<1>2. B \subseteq SUBSET S
  OBVIOUS
<1> HIDE DEF B
<1>3. PICK s \in B : \A t \in SUBSET s : t \in B => t = s
  BY <1>1, <1>2, MinimalSubset
<1> USE DEF B
<1>4. IsFiniteSet(s)
  BY FS_Subset
<1>5. s # {}
  BY SumEmpty
<1>6. /\ First(s) \in s
      /\ SumFunctionOnSet(f, s) = f[First(s)] + SumFunctionOnSet(f, s \ {First(s)})
  BY <1>4, <1>5, SumUnfolds
<1>7. SumFunctionOnSet(f, s \ {First(s)}) \in Int
  BY <1>3, <1>6
<1>8. f[First(s)] \in Int
  BY <1>6
<1> QED BY <1>6, <1>7, <1>8

LEMMA SumNat ==
  ASSUME NEW S, IsFiniteSet(S), NEW f, \A x \in S : f[x] \in Nat
  PROVE  SumFunctionOnSet(f, S) \in Nat
<1> DEFINE B == {s \in SUBSET S : SumFunctionOnSet(f, s) \notin Nat}
<1>1. SUFFICES ASSUME B # {} PROVE FALSE
  OBVIOUS
<1>2. B \subseteq SUBSET S
  OBVIOUS
<1> HIDE DEF B
<1>3. PICK s \in B : \A t \in SUBSET s : t \in B => t = s
  BY <1>1, <1>2, MinimalSubset
<1> USE DEF B
<1>4. IsFiniteSet(s)
  BY FS_Subset
<1>5. s # {}
  BY SumEmpty
<1>6. /\ First(s) \in s
      /\ SumFunctionOnSet(f, s) = f[First(s)] + SumFunctionOnSet(f, s \ {First(s)})
  BY <1>4, <1>5, SumUnfolds
<1>7. SumFunctionOnSet(f, s \ {First(s)}) \in Nat
  BY <1>3, <1>6
<1>8. f[First(s)] \in Nat
  BY <1>6
<1> QED BY <1>6, <1>7, <1>8

(***************************************************************************)
(* Any term can be taken out first.                                        *)
(***************************************************************************)
LEMMA SumRemove ==
  ASSUME NEW S, IsFiniteSet(S), NEW f, \A x \in S : f[x] \in Int, NEW y \in S
  PROVE  SumFunctionOnSet(f, S) = f[y] + SumFunctionOnSet(f, S \ {y})
<1> DEFINE Out(s, x) ==
      SumFunctionOnSet(f, s) = f[x] + SumFunctionOnSet(f, s \ {x})
    B == {s \in SUBSET S : \E x \in s : ~Out(s, x)}
<1>1. SUFFICES ASSUME B # {} PROVE FALSE
  <2>1. S \in SUBSET S
    OBVIOUS
  <2> QED BY <2>1
<1>2. B \subseteq SUBSET S
  OBVIOUS
<1> HIDE DEF B
<1>3. PICK s \in B : \A t \in SUBSET s : t \in B => t = s
  BY <1>1, <1>2, MinimalSubset
<1> USE DEF B
<1>4. PICK x \in s : ~Out(s, x)
  BY <1>3
<1> DEFINE c == First(s)
           r == s \ {c}
           q == s \ {x}
           m == (s \ {c}) \ {x}
<1>5. IsFiniteSet(s) /\ s # {}
  BY <1>4, FS_Subset
<1>6. c \in s /\ SumFunctionOnSet(f, s) = f[c] + SumFunctionOnSet(f, r)
  BY <1>5, SumUnfolds
<1>7. x # c
  BY <1>4, <1>6
<1>8. SumFunctionOnSet(f, r) = f[x] + SumFunctionOnSet(f, m)
  <2>1. r \in SUBSET S /\ r \in SUBSET s /\ r # s /\ x \in r
    BY <1>6, <1>7
  <2> QED BY <1>3, <2>1
<1>9. SumFunctionOnSet(f, q) = f[c] + SumFunctionOnSet(f, m)
  <2>1. q \in SUBSET S /\ q \in SUBSET s /\ q # s /\ c \in q
    BY <1>6, <1>7
  <2>2. q \ {c} = m
    OBVIOUS
  <2>3. \A z \in q : Out(q, z)
    BY <1>3, <2>1
  <2>4. Out(q, c)
    BY <2>1, <2>3
  <2> QED BY <2>2, <2>4
<1>10. SumFunctionOnSet(f, m) \in Int
  <2>1. IsFiniteSet(m)
    BY FS_Subset
  <2> QED BY <2>1, SumType
<1>11. f[c] \in Int /\ f[x] \in Int
  BY <1>6
<1> HIDE DEF c, r, q, m
<1>12. SumFunctionOnSet(f, s) = f[x] + SumFunctionOnSet(f, q)
  BY <1>6, <1>8, <1>9, <1>10, <1>11
<1> QED BY <1>4, <1>12 DEF q

\* One term more.
LEMMA SumAdd ==
  ASSUME NEW S, IsFiniteSet(S), NEW f, \A x \in S : f[x] \in Int,
         NEW y, y \notin S, f[y] \in Int
  PROVE  SumFunctionOnSet(f, S \cup {y}) = f[y] + SumFunctionOnSet(f, S)
<1>1. IsFiniteSet(S \cup {y})
  BY FS_AddElement
<1>2. (S \cup {y}) \ {y} = S
  OBVIOUS
<1>3. SumFunctionOnSet(f, S \cup {y}) =
        f[y] + SumFunctionOnSet(f, (S \cup {y}) \ {y})
  BY <1>1, SumRemove
<1> QED BY <1>2, <1>3

(***************************************************************************)
(* Only the terms matter.                                                  *)
(***************************************************************************)
LEMMA SumCongruent ==
  ASSUME NEW S, IsFiniteSet(S), NEW f, NEW g, \A x \in S : f[x] = g[x]
  PROVE  SumFunctionOnSet(f, S) = SumFunctionOnSet(g, S)
<1> DEFINE B == {s \in SUBSET S : SumFunctionOnSet(f, s) # SumFunctionOnSet(g, s)}
<1>1. SUFFICES ASSUME B # {} PROVE FALSE
  OBVIOUS
<1>2. B \subseteq SUBSET S
  OBVIOUS
<1> HIDE DEF B
<1>3. PICK s \in B : \A t \in SUBSET s : t \in B => t = s
  BY <1>1, <1>2, MinimalSubset
<1> USE DEF B
<1>4. IsFiniteSet(s)
  BY FS_Subset
<1>5. s # {}
  BY SumEmpty
<1>6. /\ First(s) \in s
      /\ SumFunctionOnSet(f, s) = f[First(s)] + SumFunctionOnSet(f, s \ {First(s)})
      /\ SumFunctionOnSet(g, s) = g[First(s)] + SumFunctionOnSet(g, s \ {First(s)})
  BY <1>4, <1>5, SumUnfolds
<1>7. SumFunctionOnSet(f, s \ {First(s)}) = SumFunctionOnSet(g, s \ {First(s)})
  BY <1>3, <1>6
<1>8. f[First(s)] = g[First(s)]
  BY <1>6
<1> QED BY <1>6, <1>7, <1>8

(***************************************************************************)
(* Changing one term changes the sum by the difference.                    *)
(***************************************************************************)
LEMMA SumChange ==
  ASSUME NEW S, IsFiniteSet(S), NEW f, NEW g, \A x \in S : f[x] \in Int,
         NEW y \in S, g[y] \in Int, \A x \in S \ {y} : g[x] = f[x]
  PROVE  SumFunctionOnSet(g, S) = SumFunctionOnSet(f, S) - f[y] + g[y]
<1>1. IsFiniteSet(S \ {y})
  BY FS_RemoveElement
<1>2. SumFunctionOnSet(g, S \ {y}) = SumFunctionOnSet(f, S \ {y})
  BY <1>1, SumCongruent
<1>3. \A x \in S : g[x] \in Int
  OBVIOUS
<1>4. SumFunctionOnSet(g, S) = g[y] + SumFunctionOnSet(g, S \ {y})
  BY <1>3, SumRemove
<1>5. SumFunctionOnSet(f, S) = f[y] + SumFunctionOnSet(f, S \ {y})
  BY SumRemove
<1>6. SumFunctionOnSet(f, S \ {y}) \in Int
  BY <1>1, SumType
<1>7. f[y] \in Int
  OBVIOUS
<1> QED BY <1>2, <1>4, <1>5, <1>6, <1>7

(***************************************************************************)
(* A sum of natural numbers is at least each of its terms.                 *)
(***************************************************************************)
LEMMA TermAtMostSum ==
  ASSUME NEW S, IsFiniteSet(S), NEW f, \A x \in S : f[x] \in Nat, NEW y \in S
  PROVE  f[y] <= SumFunctionOnSet(f, S)
<1>1. IsFiniteSet(S \ {y})
  BY FS_RemoveElement
<1>2. SumFunctionOnSet(f, S \ {y}) \in Nat
  BY <1>1, SumNat
<1>3. SumFunctionOnSet(f, S) = f[y] + SumFunctionOnSet(f, S \ {y})
  BY SumRemove
<1>4. f[y] \in Nat
  OBVIOUS
<1> QED BY <1>2, <1>3, <1>4

(***************************************************************************)
(* Bounded terms bound the sum.                                            *)
(***************************************************************************)
LEMMA SumBound ==
  ASSUME NEW S, IsFiniteSet(S), NEW f, NEW M \in Nat,
         \A x \in S : f[x] \in Nat /\ f[x] <= M
  PROVE  SumFunctionOnSet(f, S) <= Cardinality(S) * M
<1> DEFINE B == {s \in SUBSET S : ~(SumFunctionOnSet(f, s) <= Cardinality(s) * M)}
<1>1. SUFFICES ASSUME B # {} PROVE FALSE
  OBVIOUS
<1>2. B \subseteq SUBSET S
  OBVIOUS
<1> HIDE DEF B
<1>3. PICK s \in B : \A t \in SUBSET s : t \in B => t = s
  BY <1>1, <1>2, MinimalSubset
<1> USE DEF B
<1>4. IsFiniteSet(s)
  BY FS_Subset
<1>5. s # {}
  BY SumEmpty, FS_EmptySet
<1> DEFINE c == First(s)
           r == s \ {c}
<1>6. c \in s /\ SumFunctionOnSet(f, s) = f[c] + SumFunctionOnSet(f, r)
  BY <1>4, <1>5, SumUnfolds
<1>7. r \in SUBSET s /\ r # s /\ r \in SUBSET S
  BY <1>6
<1>8. SumFunctionOnSet(f, r) <= Cardinality(r) * M
  BY <1>3, <1>7
<1>9. /\ IsFiniteSet(r)
      /\ Cardinality(r) = Cardinality(s) - 1
      /\ Cardinality(r) \in Nat /\ Cardinality(s) \in Nat
  BY <1>4, <1>6, FS_RemoveElement, FS_CardinalityType
<1>10. SumFunctionOnSet(f, r) \in Nat
  BY <1>7, <1>9, SumNat
<1>11. f[c] \in Nat /\ f[c] <= M
  BY <1>6
<1>12. ASSUME NEW m \in Nat, NEW n \in Nat, m = n - 1, NEW a \in Nat, NEW b \in Nat,
              a <= m * M, b <= M
       PROVE  b + a <= n * M
  <2>1. n * M = m * M + M
    BY <1>12
  <2>2. m * M \in Nat
    OBVIOUS
  <2> QED BY <1>12, <2>1, <2>2
<1> HIDE DEF c, r
<1>13. SumFunctionOnSet(f, s) <= Cardinality(s) * M
  BY <1>6, <1>8, <1>9, <1>10, <1>11, <1>12
<1> QED BY <1>13

\* The sum over two disjoint sets.
LEMMA SumDisjoint ==
  ASSUME NEW S, IsFiniteSet(S), NEW T, IsFiniteSet(T), S \cap T = {},
         NEW f, \A x \in S \cup T : f[x] \in Int
  PROVE  SumFunctionOnSet(f, S \cup T) = SumFunctionOnSet(f, S) + SumFunctionOnSet(f, T)
<1> DEFINE Bad(s) == SumFunctionOnSet(f, s \cup T) #
                       SumFunctionOnSet(f, s) + SumFunctionOnSet(f, T)
           B == {s \in SUBSET S : Bad(s)}
<1>1. SUFFICES ASSUME B # {} PROVE FALSE
  OBVIOUS
<1>2. B \subseteq SUBSET S
  OBVIOUS
<1> HIDE DEF B
<1>3. PICK s \in B : \A t \in SUBSET s : t \in B => t = s
  BY <1>1, <1>2, MinimalSubset
<1> USE DEF B
<1>4. IsFiniteSet(s)
  BY FS_Subset
<1>5. SumFunctionOnSet(f, T) \in Int
  BY SumType
<1>6. s # {}
  <2>1. {} \cup T = T
    OBVIOUS
  <2> QED BY <1>5, <2>1, SumEmpty
<1>7. PICK y : y \in s
  BY <1>6
<1> DEFINE r == s \ {y}
<1>8. IsFiniteSet(r) /\ IsFiniteSet(r \cup T)
  BY <1>4, FS_RemoveElement, FS_Union
<1>9. SumFunctionOnSet(f, r \cup T) = SumFunctionOnSet(f, r) + SumFunctionOnSet(f, T)
  BY <1>3, <1>7
<1>10. y \in S /\ f[y] \in Int /\ y \notin r /\ y \notin r \cup T
  BY <1>7
<1>11. s = r \cup {y} /\ s \cup T = (r \cup T) \cup {y}
  BY <1>7
<1>12. SumFunctionOnSet(f, r) \in Int
  BY <1>8, SumType
<1>13. /\ \A x \in r : f[x] \in Int
       /\ \A x \in r \cup T : f[x] \in Int
  OBVIOUS
<1> HIDE DEF r
<1>14. SumFunctionOnSet(f, r \cup {y}) = f[y] + SumFunctionOnSet(f, r)
  BY <1>8, <1>10, <1>13, SumAdd
<1>15. SumFunctionOnSet(f, (r \cup T) \cup {y}) = f[y] + SumFunctionOnSet(f, r \cup T)
  <2> DEFINE u == r \cup T
  <2>1. IsFiniteSet(u) /\ y \notin u /\ \A x \in u : f[x] \in Int
    BY <1>8, <1>10, <1>13
  <2> HIDE DEF u
  <2>2. SumFunctionOnSet(f, u \cup {y}) = f[y] + SumFunctionOnSet(f, u)
    BY <2>1, <1>10, SumAdd
  <2> QED BY <2>2 DEF u
<1>16. SumFunctionOnSet(f, s \cup T) = f[y] + SumFunctionOnSet(f, r \cup T)
  BY <1>11, <1>15, Zenon
<1>17. SumFunctionOnSet(f, s) = f[y] + SumFunctionOnSet(f, r)
  BY <1>11, <1>14, Zenon
<1>18. ASSUME NEW a \in Int, NEW b \in Int, NEW c \in Int
       PROVE  a + (b + c) = (a + b) + c
  OBVIOUS
<1>19. ~Bad(s)
  BY <1>5, <1>9, <1>10, <1>12, <1>16, <1>17, <1>18
<1> QED BY <1>19

(***************************************************************************)
(* Fewer natural terms sum to less.                                        *)
(***************************************************************************)
LEMMA SumSubset ==
  ASSUME NEW S, IsFiniteSet(S), NEW T \in SUBSET S, NEW f, \A x \in S : f[x] \in Nat
  PROVE  SumFunctionOnSet(f, T) <= SumFunctionOnSet(f, S)
<1> DEFINE U == S \ T
<1>1. IsFiniteSet(T) /\ IsFiniteSet(U)
  BY FS_Subset
<1>2. SumFunctionOnSet(f, T) \in Nat /\ SumFunctionOnSet(f, U) \in Nat
  BY <1>1, SumNat
<1>3. T \cup U = S /\ T \cap U = {}
  OBVIOUS
<1> HIDE DEF U
<1>4. SumFunctionOnSet(f, T \cup U) = SumFunctionOnSet(f, T) + SumFunctionOnSet(f, U)
  BY <1>1, <1>3, SumDisjoint
<1>5. SumFunctionOnSet(f, S) = SumFunctionOnSet(f, T) + SumFunctionOnSet(f, U)
  BY <1>3, <1>4, Zenon
<1> QED BY <1>2, <1>5

(***************************************************************************)
(* Summing part by part: A gives the parts, no two of which meet.          *)
(***************************************************************************)
LEMMA SumOfSums ==
  ASSUME NEW P, IsFiniteSet(P), NEW A, \A p \in P : IsFiniteSet(A[p]),
         \A p, q \in P : p # q => A[p] \cap A[q] = {},
         NEW f, \A p \in P : \A x \in A[p] : f[x] \in Int,
         NEW T, \A p \in P : T[p] = SumFunctionOnSet(f, A[p])
  PROVE  SumFunctionOnSet(T, P) = SumFunctionOnSet(f, UNION {A[p] : p \in P})
<1> DEFINE All(s) == UNION {A[p] : p \in s}
           B == {s \in SUBSET P : SumFunctionOnSet(T, s) # SumFunctionOnSet(f, All(s))}
<1>1. SUFFICES ASSUME B # {} PROVE FALSE
  OBVIOUS
<1>2. B \subseteq SUBSET P
  OBVIOUS
<1> HIDE DEF B
<1>3. PICK s \in B : \A t \in SUBSET s : t \in B => t = s
  BY <1>1, <1>2, MinimalSubset
<1> USE DEF B
<1>4. s \in SUBSET P /\ IsFiniteSet(s)
  BY FS_Subset
<1>5. s # {}
  <2>1. All({}) = {}
    OBVIOUS
  <2>2. SumFunctionOnSet(T, {}) = 0 /\ SumFunctionOnSet(f, All({})) = 0
    BY <2>1, SumEmpty
  <2> QED BY <2>2
<1>6. PICK p \in s : TRUE
  BY <1>5
<1> DEFINE r == s \ {p}
<1>7. SumFunctionOnSet(T, r) = SumFunctionOnSet(f, All(r))
  BY <1>3, <1>6
<1>8. IsFiniteSet(r) /\ r \in SUBSET P /\ p \in P
  BY <1>4, FS_Subset
<1>9. IsFiniteSet(All(r)) /\ IsFiniteSet(A[p])
  <2>1. IsFiniteSet({A[q] : q \in r})
    <3> DEFINE g == [q \in r |-> A[q]]
               I == {A[q] : q \in r}
    <3>1. g \in Surjection(r, I)
      BY DEF Surjection
    <3> HIDE DEF g, I
    <3> QED BY <1>8, <3>1, FS_Surjection DEF I
  <2>2. \A a \in {A[q] : q \in r} : IsFiniteSet(a)
    BY <1>8
  <2> QED BY <1>8, <2>1, <2>2, FS_UNION
<1>10. All(r) \cup A[p] = All(s) /\ All(r) \cap A[p] = {}
  BY <1>8
<1>11. \A x \in All(r) \cup A[p] : f[x] \in Int
  BY <1>8
<1>12. /\ T[p] = SumFunctionOnSet(f, A[p]) /\ T[p] \in Int
       /\ \A q \in s : T[q] \in Int
  <2>1. \A q \in P : SumFunctionOnSet(f, A[q]) \in Int
    BY SumType
  <2> QED BY <1>4, <1>8, <2>1
<1>13. SumFunctionOnSet(f, All(r)) \in Int
  <2> HIDE DEF All
  <2> QED BY <1>9, <1>11, SumType
<1>14. SumFunctionOnSet(T, s) = T[p] + SumFunctionOnSet(T, r)
  <2> HIDE DEF All, B
  <2> QED BY <1>4, <1>6, <1>12, SumRemove
<1>15. SumFunctionOnSet(f, All(r) \cup A[p]) =
         SumFunctionOnSet(f, All(r)) + SumFunctionOnSet(f, A[p])
  <2> HIDE DEF All, r
  <2> QED BY <1>9, <1>10, <1>11, SumDisjoint
<1>16. SumFunctionOnSet(f, All(s)) = SumFunctionOnSet(f, All(r)) + SumFunctionOnSet(f, A[p])
  <2> HIDE DEF All, r
  <2> QED BY <1>10, <1>15, Zenon
<1>17. SumFunctionOnSet(T, s) = SumFunctionOnSet(f, All(s))
  <2> HIDE DEF All, r
  <2> QED BY <1>7, <1>12, <1>13, <1>14, <1>16
<1> QED BY <1>17

(***************************************************************************)
(* The terms under other names: h names each of them differently.          *)
(***************************************************************************)
LEMMA SumImage ==
  ASSUME NEW S, IsFiniteSet(S), NEW h, \A x, y \in S : h[x] = h[y] => x = y,
         NEW f, \A x \in S : f[x] \in Int, NEW g, \A x \in S : g[h[x]] = f[x],
         NEW T, \A x \in S : h[x] \in T, \A y \in T : \E x \in S : h[x] = y
  PROVE  SumFunctionOnSet(g, T) = SumFunctionOnSet(f, S)
<1> DEFINE Image(s) == {h[x] : x \in s}
           B == {s \in SUBSET S : SumFunctionOnSet(g, Image(s)) # SumFunctionOnSet(f, s)}
<1>1. SUFFICES ASSUME B # {} PROVE FALSE
  OBVIOUS
<1>2. B \subseteq SUBSET S
  OBVIOUS
<1> HIDE DEF B
<1>3. PICK s \in B : \A t \in SUBSET s : t \in B => t = s
  BY <1>1, <1>2, MinimalSubset
<1> USE DEF B
<1>4. s # {}
  <2>1. Image({}) = {}
    OBVIOUS
  <2> QED BY <2>1, SumEmpty
<1>5. PICK y : y \in s
  BY <1>4
<1> DEFINE r == s \ {y}
<1>6. SumFunctionOnSet(g, Image(r)) = SumFunctionOnSet(f, r)
  BY <1>3, <1>5
<1>7. IsFiniteSet(r) /\ IsFiniteSet(Image(r))
  <2>1. IsFiniteSet(r)
    BY FS_Subset
  <2> HIDE DEF r
  <2>2. [x \in r |-> h[x]] \in Surjection(r, Image(r))
    BY DEF Surjection
  <2> QED BY <2>1, <2>2, FS_Surjection
<1>8. /\ y \in S /\ f[y] \in Int /\ y \notin r /\ r \cup {y} = s
      /\ \A x \in r : x \in S /\ f[x] \in Int
  BY <1>5
<1>9. Image(s) = Image(r) \cup {h[y]} /\ h[y] \notin Image(r)
  BY <1>8
<1>10. g[h[y]] = f[y] /\ \A z \in Image(r) : g[z] \in Int
  BY <1>8
<1> HIDE DEF r, Image
<1>11. SumFunctionOnSet(f, r \cup {y}) = f[y] + SumFunctionOnSet(f, r)
  BY <1>7, <1>8, SumAdd
<1>12. SumFunctionOnSet(g, Image(r) \cup {h[y]}) = g[h[y]] + SumFunctionOnSet(g, Image(r))
  BY <1>7, <1>8, <1>9, <1>10, SumAdd
<1>13. SumFunctionOnSet(g, Image(s)) = SumFunctionOnSet(f, s)
  BY <1>6, <1>8, <1>9, <1>10, <1>11, <1>12
<1>14. T = {h[x] : x \in S}
  OBVIOUS
<1> QED BY <1>13, <1>14 DEF Image
==============================================================================
