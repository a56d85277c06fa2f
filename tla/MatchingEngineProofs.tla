------------------------- MODULE MatchingEngineProofs -------------------------
(***************************************************************************)
(* Theorems about MatchingEngine, for all ids, symbols, prices and bounds. *)
(***************************************************************************)
EXTENDS MatchingEngine, Sums, SequenceTheorems, WellFoundedInduction

USE BoundsAssumption

------------------------------------------------------------------------------
(***************************************************************************)
(* Lemmas about the operators of PriceTime, on sequences of entries.       *)
(***************************************************************************)
\* A downward closed set of positions is an initial segment.
LEMMA InitialSegment ==
  ASSUME NEW n \in Nat, NEW S, S \subseteq 1 .. n,
         \A i \in S, j \in 1 .. n : j < i => j \in S
  PROVE  Cardinality(S) \in 0 .. n /\ S = 1 .. Cardinality(S)
<1>1. CASE S = 1 .. n
  <2>1. Cardinality(1 .. n) = n
    BY FS_Interval
  <2> QED BY <1>1, <2>1
<1>2. CASE S # 1 .. n
  <2> DEFINE out == (1 .. n) \ S
             R == OpToRel(<, Nat)
  <2>1. out \subseteq Nat /\ out # {}
    <3>1. S # 1 .. n /\ S \subseteq 1 .. n
      BY <1>2
    <3>2. 1 .. n \subseteq Nat
      OBVIOUS
    <3> QED BY <3>1, <3>2
  <2> HIDE DEF out
  <2>2. PICK k \in out : \A j \in out : ~(<<j, k>> \in R)
    BY <2>1, WFMin, NatLessThanWellFounded
  <2>3. \A j \in out : ~(j < k)
    BY <2>1, <2>2 DEF OpToRel
  <2> USE DEF out
  <2>4. k \in 1 .. n /\ k \notin S
    OBVIOUS
  <2>5. \A j \in 1 .. n : j < k => j \in S
    BY <2>3
  <2>6. \A i \in S : i < k
    BY <2>4
  <2>7. S = 1 .. (k - 1)
    <3>1. ASSUME NEW i \in S PROVE i \in 1 .. (k - 1)
      <4>1. i < k /\ i \in 1 .. n /\ k \in 1 .. n
        BY <2>4, <2>6
      <4> QED BY <4>1
    <3>2. ASSUME NEW i \in 1 .. (k - 1) PROVE i \in S
      <4>1. i < k /\ i \in 1 .. n
        BY <2>4
      <4> QED BY <2>5, <4>1
    <3> QED BY <3>1, <3>2
  <2>8. Cardinality(1 .. (k - 1)) = k - 1
    BY <2>4, FS_Interval
  <2> QED BY <2>4, <2>7, <2>8
<1> QED BY <1>1, <1>2

\* Entries of a side are in order of priority.
Sorted(side, q) ==
  \A i, j \in DOMAIN q : i < j => AsGood(side, q[i].price, q[j].price)

\* The fields of an entry.
LEMMA EntryFields ==
  ASSUME NEW q \in Seq(Entry)
  PROVE  /\ Len(q) \in Nat /\ DOMAIN q = 1 .. Len(q)
         /\ \A i \in 1 .. Len(q) :
              /\ q[i] \in Entry /\ q[i].id \in OrderId
              /\ q[i].price \in Price /\ q[i].price \in Int
              /\ q[i].open \in 1 .. MaxQty /\ q[i].open \in Nat /\ q[i].open > 0
<1>1. Len(q) \in Nat /\ DOMAIN q = 1 .. Len(q) /\ \A i \in 1 .. Len(q) : q[i] \in Entry
  OBVIOUS
<1>2. ASSUME NEW e \in Entry
      PROVE  /\ e.id \in OrderId /\ e.price \in Price /\ e.price \in Int
             /\ e.open \in 1 .. MaxQty /\ e.open \in Nat /\ e.open > 0
  <2>1. e.id \in OrderId /\ e.price \in Price /\ e.open \in 1 .. MaxQty
    BY DEF Entry
  <2>2. e.open \in Nat /\ e.open > 0
    BY <2>1
  <2> QED BY <2>1, <2>2
<1> QED BY <1>1, <1>2

\* The quantity open in the first entries grows entry by entry.
LEMMA DepthGrows ==
  ASSUME NEW q \in Seq(Entry)
  PROVE  /\ Depth(q, 0) = 0
         /\ \A n \in 0 .. Len(q) : Depth(q, n) \in Nat
         /\ \A n \in 1 .. Len(q) : Depth(q, n) = Depth(q, n - 1) + q[n].open
         /\ \A m, n \in 0 .. Len(q) : m <= n => Depth(q, m) <= Depth(q, n)
<1> DEFINE opens == [i \in DOMAIN q |-> q[i].open]
<1>1. Len(q) \in Nat /\ DOMAIN q = 1 .. Len(q)
  BY EntryFields
<1>2. \A i \in 1 .. Len(q) : opens[i] = q[i].open /\ opens[i] \in Nat
  BY EntryFields
<1>3. \A n : Depth(q, n) = SumFunctionOnSet(opens, 1 .. n)
  BY DEF Depth
<1> HIDE DEF opens
<1>4. Depth(q, 0) = 0
  <2>1. 1 .. 0 = {}
    OBVIOUS
  <2> QED BY <1>3, <2>1, SumEmpty
<1>5. ASSUME NEW n \in 0 .. Len(q) PROVE Depth(q, n) \in Nat /\ IsFiniteSet(1 .. n)
  <2>1. IsFiniteSet(1 .. n) /\ \A i \in 1 .. n : opens[i] \in Nat
    BY <1>1, <1>2, FS_Interval
  <2> QED BY <1>3, <2>1, SumNat
<1>6. ASSUME NEW n \in 1 .. Len(q) PROVE Depth(q, n) = Depth(q, n - 1) + q[n].open
  <2>1. n - 1 \in 0 .. Len(q) /\ n \in Int /\ n <= Len(q)
    BY <1>1
  <2>2. IsFiniteSet(1 .. (n - 1)) /\ Depth(q, n - 1) \in Nat
    BY <2>1, <1>5
  <2>3. 1 .. n = (1 .. (n - 1)) \cup {n} /\ n \notin 1 .. (n - 1)
    OBVIOUS
  <2>4. opens[n] \in Int /\ \A i \in 1 .. (n - 1) : opens[i] \in Int
    BY <1>1, <1>2
  <2>5. SumFunctionOnSet(opens, (1 .. (n - 1)) \cup {n}) =
          opens[n] + SumFunctionOnSet(opens, 1 .. (n - 1))
    BY <2>2, <2>3, <2>4, SumAdd
  <2>6. Depth(q, n) = opens[n] + Depth(q, n - 1)
    BY <1>3, <2>3, <2>5
  <2>7. opens[n] = q[n].open
    BY <1>2
  <2> QED BY <2>2, <2>4, <2>6, <2>7
<1>7. ASSUME NEW m \in 0 .. Len(q), NEW n \in 0 .. Len(q), m <= n
      PROVE  Depth(q, m) <= Depth(q, n)
  <2>1. 1 .. m \subseteq 1 .. n /\ \A i \in 1 .. n : opens[i] \in Nat
    BY <1>1, <1>2, <1>7
  <2>2. IsFiniteSet(1 .. n)
    BY <1>5
  <2> QED BY <1>3, <2>1, <2>2, SumSubset
<1> QED BY <1>4, <1>5, <1>6, <1>7

------------------------------------------------------------------------------
(***************************************************************************)
(* What a matching call does to the entries it is matched against.         *)
(***************************************************************************)
\* An order the books see.
BookOrder == {o \in Input : o.type \in OrderType /\ o.quantity > 0}

LEMMA OrderFields ==
  ASSUME NEW o \in BookOrder
  PROVE  /\ o.id \in OrderId /\ o.side \in Side /\ o.type \in OrderType
         /\ o.price \in Price /\ o.price \in Int
         /\ o.quantity \in 1 .. MaxQty /\ o.quantity \in Nat
         /\ Opposite(o.side) \in Side
<1>1. /\ o.id \in OrderId /\ o.side \in Side /\ o.type \in OrderType
      /\ o.price \in Price /\ o.quantity \in 0 .. MaxQty /\ o.quantity > 0
  BY DEF BookOrder, Input
<1>2. o.quantity \in 1 .. MaxQty /\ o.quantity \in Nat
  BY <1>1
<1>3. Opposite(o.side) \in Side
  BY DEF Opposite, Side
<1> QED BY <1>1, <1>2, <1>3

\* The entries o reaches are the first ones.
LEMMA ReachFirst ==
  ASSUME NEW o \in BookOrder, NEW q \in Seq(Entry), Sorted(Opposite(o.side), q)
  PROVE  /\ Reach(o, q) \in 0 .. Len(q)
         /\ \A i \in 1 .. Len(q) : i <= Reach(o, q) <=> Marketable(o, q[i].price)
<1> DEFINE S == {i \in DOMAIN q : Marketable(o, q[i].price)}
<1>1. /\ Len(q) \in Nat /\ DOMAIN q = 1 .. Len(q)
      /\ \A i \in 1 .. Len(q) : q[i].price \in Int
  BY EntryFields
<1>2. ASSUME NEW i \in S, NEW j \in 1 .. Len(q), j < i PROVE j \in S
  <2>1. AsGood(Opposite(o.side), q[j].price, q[i].price)
    BY <1>1, <1>2 DEF Sorted
  <2>2. Marketable(o, q[i].price)
    OBVIOUS
  <2>3. q[i].price \in Int /\ q[j].price \in Int /\ o.price \in Int
    BY <1>1, OrderFields
  <2>4. Marketable(o, q[j].price)
    BY <2>1, <2>2, <2>3 DEF Marketable, AsGood
  <2> QED BY <1>1, <2>4
<1>3. S \subseteq 1 .. Len(q)
  BY <1>1
<1>4. Reach(o, q) = Cardinality(S)
  BY DEF Reach
<1> HIDE DEF S
<1>5. Reach(o, q) \in 0 .. Len(q) /\ S = 1 .. Reach(o, q)
  BY <1>1, <1>2, <1>3, <1>4, InitialSegment
<1> QED BY <1>1, <1>5 DEF S

\* How much of an entry o takes.
LEMMA TakenOf ==
  ASSUME NEW o \in BookOrder, NEW q \in Seq(Entry), Sorted(Opposite(o.side), q),
         NEW i \in 1 .. Len(q)
  PROVE  /\ Taken(o, q, i) \in 0 .. q[i].open
         /\ Taken(o, q, i) > 0 <=>
              ~Killed(o, q) /\ i <= Reach(o, q) /\ Depth(q, i - 1) < o.quantity
         /\ q[i].open - Taken(o, q, i) = 0 <=>
              ~Killed(o, q) /\ i <= Reach(o, q) /\ Depth(q, i) <= o.quantity
<1> DEFINE before == Depth(q, i - 1)
           open == q[i].open
           want == o.quantity
<1>1. before \in Nat /\ Depth(q, i) = before + open /\ open \in Nat /\ open > 0 /\ want \in Nat
  <2>1. i - 1 \in 0 .. Len(q)
    BY EntryFields
  <2> QED BY <2>1, DepthGrows, EntryFields, OrderFields
<1>2. Taken(o, q, i) = IF Killed(o, q) \/ i > Reach(o, q) THEN 0
                       ELSE IF want - before <= 0 THEN 0 ELSE Lesser(want - before, open)
  BY DEF Taken
<1>3. Reach(o, q) \in Int /\ i \in Int
  BY ReachFirst, EntryFields
<1> HIDE DEF before, open, want
<1>4. CASE Killed(o, q) \/ i > Reach(o, q)
  BY <1>1, <1>2, <1>3, <1>4 DEF open, before, want
<1>5. CASE ~(Killed(o, q) \/ i > Reach(o, q)) /\ want - before <= 0
  BY <1>1, <1>2, <1>3, <1>5 DEF open, before, want
<1>6. CASE ~(Killed(o, q) \/ i > Reach(o, q)) /\ ~(want - before <= 0)
  <2>1. Taken(o, q, i) = Lesser(want - before, open)
    BY <1>2, <1>6
  <2>2. /\ Taken(o, q, i) \in 0 .. open /\ Taken(o, q, i) > 0
        /\ Taken(o, q, i) = open <=> before + open <= want
    BY <1>1, <1>6, <2>1 DEF Lesser
  <2> QED BY <1>1, <1>3, <1>6, <2>2 DEF open, before, want
<1> QED BY <1>4, <1>5, <1>6


\* The entries that o fills are the first ones, and so are those it trades with;
\* at most one of these is not filled, and then o is.
LEMMA MatchCounts ==
  ASSUME NEW o \in BookOrder, NEW q \in Seq(Entry), Sorted(Opposite(o.side), q)
  PROVE  LET gone   == Cardinality({i \in DOMAIN q : q[i].open - Taken(o, q, i) = 0})
             traded == Cardinality({i \in DOMAIN q : Taken(o, q, i) > 0})
             done   == Filled(o, q)
         IN  /\ gone \in 0 .. Len(q) /\ traded \in 0 .. Len(q)
             /\ \A i \in 1 .. Len(q) : i <= gone <=> q[i].open - Taken(o, q, i) = 0
             /\ \A i \in 1 .. Len(q) : i <= traded <=> Taken(o, q, i) > 0
             /\ done \in 0 .. o.quantity
             /\ gone <= traded /\ traded <= gone + 1
             /\ traded = gone + 1 => done = o.quantity
             /\ o.type # "FOK" /\ done < o.quantity =>
                  \A i \in (gone + 1) .. Len(q) : ~Marketable(o, q[i].price)
<1> DEFINE G == {i \in DOMAIN q : q[i].open - Taken(o, q, i) = 0}
           T == {i \in DOMAIN q : Taken(o, q, i) > 0}
           gone == Cardinality(G)
           traded == Cardinality(T)
           done == Filled(o, q)
           want == o.quantity
           R == Reach(o, q)
           D(n) == Depth(q, n)
<1>1. Len(q) \in Nat /\ DOMAIN q = 1 .. Len(q) /\ R \in 0 .. Len(q) /\ want \in Nat
  BY EntryFields, ReachFirst, OrderFields
<1>2. /\ \A n \in 0 .. Len(q) : D(n) \in Nat
      /\ \A m, n \in 0 .. Len(q) : m <= n => D(m) <= D(n)
      /\ \A n \in 1 .. Len(q) : D(n - 1) < D(n)
  <2>1. ASSUME NEW n \in 1 .. Len(q) PROVE D(n - 1) < D(n)
    <3>1. D(n) = D(n - 1) + q[n].open /\ q[n].open \in Nat /\ q[n].open > 0
      BY DepthGrows, EntryFields
    <3>2. n - 1 \in 0 .. Len(q)
      BY <1>1
    <3>3. D(n - 1) \in Nat
      BY <3>2, DepthGrows
    <3> QED BY <3>1, <3>3
  <2> QED BY <2>1, DepthGrows
<1>3. /\ \A i \in 1 .. Len(q) : i \in G <=> ~Killed(o, q) /\ i <= R /\ D(i) <= want
      /\ \A i \in 1 .. Len(q) : i \in T <=> ~Killed(o, q) /\ i <= R /\ D(i - 1) < want
  BY <1>1, TakenOf
<1>4. G \subseteq 1 .. Len(q) /\ T \subseteq 1 .. Len(q)
  BY <1>1
<1> HIDE DEF G, T
<1>5. gone \in 0 .. Len(q) /\ G = 1 .. gone
  <2>1. ASSUME NEW i \in G, NEW j \in 1 .. Len(q), j < i PROVE j \in G
    <3>1. i \in 1 .. Len(q) /\ ~Killed(o, q) /\ i <= R /\ D(i) <= want
      BY <1>3, <1>4
    <3>2. j <= R /\ j \in 0 .. Len(q) /\ i \in 0 .. Len(q) /\ j <= i
      BY <1>1, <2>1, <3>1
    <3>3. D(j) <= D(i) /\ D(j) \in Nat /\ D(i) \in Nat
      BY <1>2, <3>2
    <3>4. D(j) <= want
      BY <1>1, <3>1, <3>3
    <3> QED BY <1>3, <3>1, <3>2, <3>4
  <2> QED BY <1>1, <1>4, <2>1, InitialSegment
<1>6. traded \in 0 .. Len(q) /\ T = 1 .. traded
  <2>1. ASSUME NEW i \in T, NEW j \in 1 .. Len(q), j < i PROVE j \in T
    <3>1. i \in 1 .. Len(q) /\ ~Killed(o, q) /\ i <= R /\ D(i - 1) < want
      BY <1>3, <1>4
    <3>2. j <= R /\ j - 1 \in 0 .. Len(q) /\ i - 1 \in 0 .. Len(q) /\ j - 1 <= i - 1
      BY <1>1, <2>1, <3>1
    <3>3. D(j - 1) <= D(i - 1) /\ D(j - 1) \in Nat /\ D(i - 1) \in Nat
      BY <1>2, <3>2
    <3>4. D(j - 1) < want
      BY <1>1, <3>1, <3>3
    <3> QED BY <1>3, <3>1, <3>2, <3>4
  <2> QED BY <1>1, <1>4, <2>1, InitialSegment
<1>7. /\ \A i \in 1 .. Len(q) : i <= gone <=> q[i].open - Taken(o, q, i) = 0
      /\ \A i \in 1 .. Len(q) : i <= traded <=> Taken(o, q, i) > 0
  <2>1. \A i \in 1 .. Len(q) : /\ i \in G <=> q[i].open - Taken(o, q, i) = 0
                               /\ i \in T <=> Taken(o, q, i) > 0
    BY <1>1 DEF G, T
  <2>2. \A i \in 1 .. Len(q) : (i \in G <=> i <= gone) /\ (i \in T <=> i <= traded)
    BY <1>5, <1>6
  <2> QED BY <2>1, <2>2
<1> HIDE DEF gone, traded
<1>8. D(R) \in Nat /\ done = IF Killed(o, q) THEN 0 ELSE Lesser(want, D(R))
  BY <1>1, <1>2 DEF Filled
<1>9. done \in 0 .. want
  BY <1>1, <1>8 DEF Lesser
<1> HIDE DEF done, want, R, D
<1>10. gone <= traded
  <2>1. ASSUME NEW i \in G PROVE i \in T
    <3>1. i \in 1 .. Len(q) /\ ~Killed(o, q) /\ i <= R /\ D(i) <= want
      BY <1>3, <1>4
    <3>2. i \in 0 .. Len(q) /\ i - 1 \in 0 .. Len(q)
      BY <1>1, <3>1
    <3>3. D(i - 1) < D(i) /\ D(i) \in Nat /\ D(i - 1) \in Nat
      BY <1>2, <3>1, <3>2
    <3>4. D(i - 1) < want
      BY <1>1, <3>1, <3>3
    <3> QED BY <1>3, <3>1, <3>4
  <2>2. gone = 0 \/ gone \in T
    BY <1>5, <2>1
  <2> QED BY <1>5, <1>6, <2>2
<1>11. traded <= gone + 1
  <2> SUFFICES ASSUME traded > gone + 1 PROVE FALSE
    BY <1>5, <1>6
  <2>1. traded \in T /\ traded \in 1 .. Len(q)
    BY <1>5, <1>6
  <2>2. traded - 1 \in 1 .. Len(q) /\ traded - 1 > gone
    BY <1>5, <1>6
  <2>3. ~Killed(o, q) /\ traded <= R /\ D(traded - 1) < want
    BY <1>3, <2>1
  <2>4. traded - 1 <= R /\ traded - 1 \in 0 .. Len(q)
    BY <1>1, <1>6, <2>2, <2>3
  <2>5. D(traded - 1) <= want
    BY <1>1, <1>2, <2>3, <2>4
  <2>6. traded - 1 \in G
    BY <1>3, <2>2, <2>3, <2>4, <2>5
  <2>7. traded - 1 <= gone
    BY <1>5, <2>6
  <2> QED BY <1>5, <1>6, <2>2, <2>7
<1>12. ASSUME traded = gone + 1 PROVE done = want
  <2>1. traded \in T /\ traded \in 1 .. Len(q) /\ traded \in 0 .. Len(q) /\ traded \notin G
    BY <1>5, <1>6, <1>12
  <2>2. ~Killed(o, q) /\ traded <= R
    BY <1>3, <2>1
  <2>3. ~(D(traded) <= want)
    BY <1>3, <2>1, <2>2
  <2>4. D(traded) <= D(R) /\ D(traded) \in Nat
    BY <1>1, <1>2, <2>1, <2>2
  <2>5. done = Lesser(want, D(R))
    BY <1>8, <2>2
  <2> QED BY <1>1, <1>8, <2>3, <2>4, <2>5 DEF Lesser
<1>13. ASSUME o.type # "FOK", done < want, NEW i \in (gone + 1) .. Len(q)
       PROVE  ~Marketable(o, q[i].price)
  <2>1. ~Killed(o, q)
    BY <1>13 DEF Killed
  <2>2. D(R) < want
    BY <1>1, <1>8, <1>13, <2>1 DEF Lesser
  <2>3. i \in 1 .. Len(q) /\ i \in 0 .. Len(q) /\ i > gone
    BY <1>1, <1>5
  <2>4. i \notin G
    BY <1>5, <2>3
  <2>5. ~(i <= R)
    <3> SUFFICES ASSUME i <= R PROVE FALSE
      OBVIOUS
    <3>1. D(i) <= D(R) /\ D(i) \in Nat
      BY <1>1, <1>2, <2>3
    <3>2. D(i) <= want
      BY <1>1, <1>8, <2>2, <3>1
    <3> QED BY <1>3, <2>1, <2>3, <2>4, <3>2
  <2> QED BY <2>3, <2>5, ReachFirst DEF R
<1> QED BY <1>5, <1>6, <1>7, <1>9, <1>10, <1>11, <1>12, <1>13 DEF gone, traded, done, want, G, T

------------------------------------------------------------------------------
(***************************************************************************)
(* A sequence r that keeps some entries of q, in order and at their        *)
(* prices, and loses the ids in gone.                                      *)
(***************************************************************************)
Ids(q) == {q[i].id : i \in DOMAIN q}

IdsApart(q) == \A i, j \in DOMAIN q : q[i].id = q[j].id => i = j

Thins(r, q, gone, At) ==
  /\ r \in Seq(Entry)
  /\ \A i \in 1 .. Len(r) : At[i] \in 1 .. Len(q)
  /\ \A i, j \in 1 .. Len(r) : i < j => At[i] < At[j]
  /\ \A i \in 1 .. Len(r) : r[i].id = q[At[i]].id /\ r[i].price = q[At[i]].price
  /\ Ids(r) = Ids(q) \ gone

LEMMA ThinsKeeps ==
  ASSUME NEW q \in Seq(Entry), NEW r, NEW gone, NEW At, Thins(r, q, gone, At), IdsApart(q)
  PROVE  /\ IdsApart(r)
         /\ \A side \in Side : Sorted(side, q) => Sorted(side, r)
         /\ \A i \in DOMAIN r : \E j \in DOMAIN q : r[i].price = q[j].price
<1>1. /\ DOMAIN r = 1 .. Len(r) /\ Len(r) \in Nat
      /\ DOMAIN q = 1 .. Len(q) /\ Len(q) \in Nat
  BY EntryFields DEF Thins
<1>2. IdsApart(r)
  <2> SUFFICES ASSUME NEW i \in 1 .. Len(r), NEW j \in 1 .. Len(r), r[i].id = r[j].id
               PROVE  i = j
    BY <1>1 DEF IdsApart
  <2>1. At[i] = At[j] /\ At[i] \in 1 .. Len(q) /\ At[j] \in 1 .. Len(q)
    BY <1>1 DEF Thins, IdsApart
  <2>2. ~(i < j) /\ ~(j < i)
    BY <2>1 DEF Thins
  <2> QED BY <2>2
<1>3. ASSUME NEW side \in Side, Sorted(side, q) PROVE Sorted(side, r)
  BY <1>1, <1>3 DEF Sorted, Thins
<1>4. ASSUME NEW i \in DOMAIN r PROVE \E j \in DOMAIN q : r[i].price = q[j].price
  BY <1>1 DEF Thins
<1> QED BY <1>2, <1>3, <1>4

\* The ids of the first n entries.
FirstIds(q, n) == {q[i].id : i \in 1 .. n}

\* They are as many as the entries.
LEMMA FirstIdsCount ==
  ASSUME NEW q \in Seq(Entry), IdsApart(q), NEW n \in 0 .. Len(q)
  PROVE  /\ IsFiniteSet(FirstIds(q, n)) /\ Cardinality(FirstIds(q, n)) = n
         /\ FirstIds(q, n) \subseteq Ids(q)
<1>1. DOMAIN q = 1 .. Len(q) /\ Len(q) \in Nat /\ n \in Nat
  BY EntryFields
<1> DEFINE f == [i \in 1 .. n |-> q[i].id]
<1>2. f \in Bijection(1 .. n, FirstIds(q, n))
  <2>1. f \in [1 .. n -> FirstIds(q, n)]
    BY DEF FirstIds
  <2>2. \A i, j \in 1 .. n : f[i] = f[j] => i = j
    BY <1>1 DEF IdsApart
  <2>3. \A id \in FirstIds(q, n) : \E i \in 1 .. n : f[i] = id
    BY DEF FirstIds
  <2> HIDE DEF f
  <2> QED BY <2>1, <2>2, <2>3 DEF Bijection, Injection, Surjection, IsInjective
<1>3. IsFiniteSet(1 .. n) /\ Cardinality(1 .. n) = n
  BY <1>1, FS_Interval
<1>4. ExistsBijection(1 .. n, FirstIds(q, n))
  BY <1>2 DEF ExistsBijection
<1>5. FirstIds(q, n) \subseteq Ids(q)
  BY <1>1 DEF FirstIds, Ids
<1> QED BY <1>3, <1>4, <1>5, FS_Bijection

\* What is left of the entries after the call, and its trades.
LEMMA DrainedThins ==
  ASSUME NEW o \in BookOrder, NEW q \in Seq(Entry), Sorted(Opposite(o.side), q), IdsApart(q)
  PROVE  \E gone \in 0 .. Len(q) :
           /\ \E At : Thins(Drained(o, q), q, FirstIds(q, gone), At)
           /\ Filled(o, q) \in 0 .. o.quantity
           /\ o.type # "FOK" /\ Filled(o, q) < o.quantity =>
                \A i \in DOMAIN Drained(o, q) : ~Marketable(o, Drained(o, q)[i].price)
           /\ Len(Fills(o, q)) \in {gone, gone + 1} /\ Len(Fills(o, q)) \in 0 .. Len(q)
           /\ Len(Fills(o, q)) = gone + 1 => Filled(o, q) = o.quantity
           /\ Fills(o, q) \in Seq([maker : OrderId, price : Price, qty : Nat])
           /\ \A i \in 1 .. Len(Fills(o, q)) : /\ Fills(o, q)[i].maker = q[i].id
                                               /\ Fills(o, q)[i].price = q[i].price
                                               /\ Fills(o, q)[i].qty > 0
<1> DEFINE left == [i \in DOMAIN q |-> [q[i] EXCEPT !.open = @ - Taken(o, q, i)]]
           G == {i \in DOMAIN q : q[i].open - Taken(o, q, i) = 0}
           T == {i \in DOMAIN q : Taken(o, q, i) > 0}
           gone == Cardinality(G)
           traded == Cardinality(T)
           r == Drained(o, q)
           n == Len(q)
           At == [i \in 1 .. (n - gone) |-> gone + i]
<1>1. /\ n \in Nat /\ DOMAIN q = 1 .. n
      /\ \A i \in 1 .. n : /\ q[i] \in Entry /\ q[i].id \in OrderId /\ q[i].price \in Price
                           /\ q[i].open \in 1 .. MaxQty
                           /\ Taken(o, q, i) \in 0 .. q[i].open
  BY EntryFields, TakenOf
<1>2. /\ gone \in 0 .. n /\ traded \in 0 .. n
      /\ \A i \in 1 .. n : i <= gone <=> q[i].open - Taken(o, q, i) = 0
      /\ \A i \in 1 .. n : i <= traded <=> Taken(o, q, i) > 0
      /\ Filled(o, q) \in 0 .. o.quantity
      /\ gone <= traded /\ traded <= gone + 1
      /\ traded = gone + 1 => Filled(o, q) = o.quantity
      /\ o.type # "FOK" /\ Filled(o, q) < o.quantity =>
           \A i \in (gone + 1) .. n : ~Marketable(o, q[i].price)
  BY MatchCounts
<1>3. \A i \in 1 .. n : /\ left[i].id = q[i].id /\ left[i].price = q[i].price
                        /\ left[i].open = q[i].open - Taken(o, q, i)
                        /\ left[i] = [id |-> q[i].id, price |-> q[i].price,
                                      open |-> q[i].open - Taken(o, q, i)]
  BY <1>1 DEF Entry
<1>4. r = SubSeq(left, gone + 1, n)
  <2>1. {i \in DOMAIN q : left[i].open = 0} = G
    BY <1>1, <1>3
  <2> QED BY <2>1 DEF Drained
<1> HIDE DEF left, gone, traded, r, n, G, T
<1>5. \A i \in (gone + 1) .. n : left[i] \in Entry
  <2> SUFFICES ASSUME NEW i \in (gone + 1) .. n PROVE left[i] \in Entry
    OBVIOUS
  <2>1. i \in 1 .. n /\ ~(i <= gone)
    BY <1>1, <1>2
  <2>2. q[i].open - Taken(o, q, i) \in 1 .. MaxQty
    BY <1>1, <1>2, <2>1
  <2>3. left[i] = [id |-> q[i].id, price |-> q[i].price, open |-> q[i].open - Taken(o, q, i)]
    BY <1>3, <2>1
  <2>4. q[i].id \in OrderId /\ q[i].price \in Price
    BY <1>1, <2>1
  <2> QED BY <2>2, <2>3, <2>4 DEF Entry
<1>6. /\ r \in Seq(Entry) /\ Len(r) = n - gone
      /\ \A i \in 1 .. (n - gone) : r[i] = left[gone + i]
  <2>1. gone \in Int /\ n \in Int /\ gone <= n /\ gone >= 0 /\ gone + 1 \in Int
    BY <1>1, <1>2
  <2>2. /\ r \in Seq(Entry)
        /\ Len(r) = IF gone + 1 <= n THEN n - (gone + 1) + 1 ELSE 0
        /\ \A i \in 1 .. n - (gone + 1) + 1 : r[i] = left[(gone + 1) + i - 1]
    BY <1>4, <1>5, <2>1, SubSeqProperties
  <2>3. Len(r) = n - gone
    BY <2>1, <2>2
  <2>4. ASSUME NEW i \in 1 .. (n - gone) PROVE r[i] = left[gone + i]
    <3>1. i \in 1 .. n - (gone + 1) + 1 /\ (gone + 1) + i - 1 = gone + i
      BY <2>1
    <3> QED BY <2>2, <3>1
  <2> QED BY <2>2, <2>3, <2>4
<1>7. \A i \in 1 .. Len(r) : At[i] = gone + i /\ At[i] \in (gone + 1) .. n /\ At[i] \in 1 .. n
  BY <1>1, <1>2, <1>6
<1>8. ASSUME NEW i \in 1 .. Len(r)
      PROVE  r[i].id = q[At[i]].id /\ r[i].price = q[At[i]].price
  <2>1. At[i] = gone + i /\ At[i] \in 1 .. n /\ i \in 1 .. (n - gone)
    BY <1>6, <1>7
  <2> HIDE DEF At
  <2>2. r[i] = left[At[i]]
    BY <1>6, <2>1
  <2> QED BY <1>3, <2>1, <2>2
<1>9. Ids(r) = Ids(q) \ FirstIds(q, gone)
  <2>1. DOMAIN r = 1 .. Len(r)
    BY <1>6
  <2>2. ASSUME NEW i \in 1 .. Len(r) PROVE r[i].id \in Ids(q) \ FirstIds(q, gone)
    <3>1. At[i] \in DOMAIN q /\ r[i].id = q[At[i]].id
      BY <1>1, <1>7, <1>8
    <3>2. ASSUME NEW j \in 1 .. gone, q[j].id = r[i].id PROVE FALSE
      <4>1. At[i] \in (gone + 1) .. n /\ gone \in 0 .. n
        BY <1>2, <1>7
      <4> HIDE DEF At
      <4>2. j \in DOMAIN q /\ j # At[i]
        BY <1>1, <4>1
      <4> QED BY <3>1, <3>2, <4>2 DEF IdsApart
    <3> QED BY <3>1, <3>2 DEF Ids, FirstIds
  <2>3. ASSUME NEW j \in DOMAIN q, q[j].id \notin FirstIds(q, gone) PROVE q[j].id \in Ids(r)
    <3>1. j \in 1 .. n /\ j > gone
      BY <1>1, <1>2, <2>3 DEF FirstIds
    <3>2. j - gone \in 1 .. Len(r) /\ gone + (j - gone) = j
      BY <1>1, <1>2, <1>6, <3>1
    <3>3. At[j - gone] = j
      BY <1>7, <3>2
    <3> HIDE DEF At
    <3>4. r[j - gone].id = q[j].id
      BY <1>8, <3>2, <3>3
    <3> QED BY <2>1, <3>2, <3>4 DEF Ids
  <2> QED BY <2>1, <2>2, <2>3 DEF Ids
<1>10. Thins(r, q, FirstIds(q, gone), At)
  <2>1. \A i, j \in 1 .. Len(r) : i < j => At[i] < At[j]
    BY <1>2, <1>7
  <2> HIDE DEF At
  <2> QED BY <1>6, <1>7, <1>8, <1>9, <2>1 DEF Thins, n
<1>11. ASSUME o.type # "FOK", Filled(o, q) < o.quantity, NEW i \in DOMAIN r
       PROVE  ~Marketable(o, r[i].price)
  BY <1>2, <1>6, <1>7, <1>8, <1>11
<1>12. Fills(o, q) = [i \in 1 .. traded |->
                        [maker |-> q[i].id, price |-> q[i].price, qty |-> Taken(o, q, i)]]
  BY DEF Fills, traded, T
<1>13. \A i \in 1 .. traded : /\ i \in 1 .. n /\ Taken(o, q, i) \in Nat /\ Taken(o, q, i) > 0
                              /\ q[i].id \in OrderId /\ q[i].price \in Price
  BY <1>1, <1>2
<1>14. /\ Fills(o, q) \in Seq([maker : OrderId, price : Price, qty : Nat])
       /\ Len(Fills(o, q)) = traded
       /\ \A i \in 1 .. traded : /\ Fills(o, q)[i].maker = q[i].id
                                 /\ Fills(o, q)[i].price = q[i].price
                                 /\ Fills(o, q)[i].qty > 0
  <2>1. traded \in Nat
    BY <1>2
  <2> QED BY <1>12, <1>13, <2>1
<1>15. traded \in {gone, gone + 1}
  BY <1>2
<1> QED BY <1>2, <1>10, <1>11, <1>14, <1>15 DEF n, r

\* An entry joins behind those at least as good.
LEMMA InsertKeeps ==
  ASSUME NEW side \in Side, NEW q \in Seq(Entry), Sorted(side, q), IdsApart(q),
         NEW e \in Entry, e.id \notin Ids(q)
  PROVE  LET r == Insert(side, q, e)
         IN  /\ r \in Seq(Entry) /\ Sorted(side, r) /\ IdsApart(r)
             /\ Ids(r) = Ids(q) \cup {e.id}
             /\ \A i \in DOMAIN r : r[i] = e \/ \E j \in DOMAIN q : r[i] = q[j]
<1> DEFINE S == {i \in DOMAIN q : AsGood(side, q[i].price, e.price)}
           m == Cardinality(S)
           n == Len(q)
           L == SubSeq(q, 1, m)
           R == SubSeq(q, m + 1, n)
           r == Insert(side, q, e)
<1>1. /\ n \in Nat /\ DOMAIN q = 1 .. n
      /\ \A i \in 1 .. n : q[i] \in Entry /\ q[i].price \in Int
  BY EntryFields
<1>2. e.price \in Int
  BY DEF Entry
<1>3. m \in 0 .. n /\ \A i \in 1 .. n : i <= m <=> AsGood(side, q[i].price, e.price)
  <2>1. S \subseteq 1 .. n
    BY <1>1
  <2>2. ASSUME NEW i \in S, NEW j \in 1 .. n, j < i PROVE j \in S
    <3>1. AsGood(side, q[j].price, q[i].price) /\ AsGood(side, q[i].price, e.price)
      BY <1>1, <2>2 DEF Sorted
    <3>2. q[i].price \in Int /\ q[j].price \in Int
      BY <1>1
    <3>3. AsGood(side, q[j].price, e.price)
      BY <1>2, <3>1, <3>2 DEF AsGood
    <3> QED BY <1>1, <3>3
  <2>3. \A i \in 1 .. n : i \in S <=> AsGood(side, q[i].price, e.price)
    BY <1>1
  <2> HIDE DEF S
  <2>4. m \in 0 .. n /\ S = 1 .. m
    BY <1>1, <2>1, <2>2, InitialSegment
  <2> QED BY <2>3, <2>4
<1>4. r = L \o <<e>> \o R
  <2>1. (1 + m) - 1 = m /\ 1 + m = m + 1
    BY <1>3
  <2>2. r = InsertAt(q, 1 + m, e)
    BY DEF Insert
  <2> HIDE DEF m, r
  <2> QED BY <2>1, <2>2 DEF InsertAt
<1> HIDE DEF m, n, r, S
<1>5. /\ L \in Seq(Entry) /\ Len(L) = m
      /\ \A i \in 1 .. m : L[i] = q[i]
  <2>1. \A i \in 1 .. m : q[i] \in Entry
    BY <1>1, <1>3
  <2>2. /\ L \in Seq(Entry) /\ Len(L) = IF 1 <= m THEN m - 1 + 1 ELSE 0
        /\ \A i \in 1 .. m - 1 + 1 : L[i] = q[1 + i - 1]
    BY <1>3, <2>1, SubSeqProperties
  <2> HIDE DEF L
  <2>3. Len(L) = m
    BY <1>3, <2>2
  <2>4. ASSUME NEW i \in 1 .. m PROVE L[i] = q[i]
    <3>1. i \in 1 .. m - 1 + 1 /\ 1 + i - 1 = i
      BY <1>3
    <3> QED BY <2>2, <3>1
  <2> QED BY <2>2, <2>3, <2>4
<1>6. /\ R \in Seq(Entry) /\ Len(R) = n - m
      /\ \A i \in 1 .. (n - m) : R[i] = q[m + i]
  <2>1. \A i \in (m + 1) .. n : q[i] \in Entry
    BY <1>1, <1>3
  <2>2. /\ R \in Seq(Entry) /\ Len(R) = IF m + 1 <= n THEN n - (m + 1) + 1 ELSE 0
        /\ \A i \in 1 .. n - (m + 1) + 1 : R[i] = q[(m + 1) + i - 1]
    BY <1>1, <1>3, <2>1, SubSeqProperties
  <2> HIDE DEF R
  <2>3. Len(R) = n - m
    BY <1>1, <1>3, <2>2
  <2>4. ASSUME NEW i \in 1 .. (n - m) PROVE R[i] = q[m + i]
    <3>1. i \in 1 .. n - (m + 1) + 1 /\ (m + 1) + i - 1 = m + i
      BY <1>1, <1>3
    <3> QED BY <2>2, <3>1
  <2> QED BY <2>2, <2>3, <2>4
<1> HIDE DEF L, R
<1>7. /\ r \in Seq(Entry) /\ Len(r) = n + 1
      /\ \A i \in 1 .. m : r[i] = q[i]
      /\ r[m + 1] = e
      /\ \A i \in (m + 2) .. (n + 1) : r[i] = q[i - 1]
  <2> DEFINE Le == L \o <<e>>
  <2>1. <<e>> \in Seq(Entry) /\ Len(<<e>>) = 1 /\ <<e>>[1] = e
    OBVIOUS
  <2>2. /\ Le \in Seq(Entry) /\ Len(Le) = m + 1
        /\ \A i \in 1 .. m + 1 : Le[i] = IF i <= m THEN L[i] ELSE <<e>>[i - m]
    BY <1>5, <2>1, ConcatProperties
  <2>3. (\A i \in 1 .. m : Le[i] = q[i]) /\ Le[m + 1] = e
    <3>1. \A i \in 1 .. m : Le[i] = q[i]
      BY <1>3, <1>5, <2>2
    <3>2. m + 1 \in 1 .. m + 1 /\ ~(m + 1 <= m) /\ (m + 1) - m = 1
      BY <1>3
    <3>3. Le[m + 1] = <<e>>[(m + 1) - m]
      BY <2>2, <3>2
    <3> QED BY <2>1, <3>1, <3>2, <3>3
  <2> HIDE DEF Le
  <2>4. r = Le \o R
    BY <1>4 DEF Le
  <2>5. /\ r \in Seq(Entry) /\ Len(r) = (m + 1) + (n - m)
        /\ \A i \in 1 .. (m + 1) + (n - m) :
             r[i] = IF i <= m + 1 THEN Le[i] ELSE R[i - (m + 1)]
    <3>1. /\ r \in Seq(Entry) /\ Len(r) = Len(Le) + Len(R)
          /\ \A i \in 1 .. Len(Le) + Len(R) :
               r[i] = IF i <= Len(Le) THEN Le[i] ELSE R[i - Len(Le)]
      BY <1>6, <2>2, <2>4, ConcatProperties
    <3>2. Len(Le) = m + 1 /\ Len(R) = n - m
      BY <1>6, <2>2
    <3> QED BY <3>1, <3>2, Zenon
  <2>6. (m + 1) + (n - m) = n + 1
    BY <1>1, <1>3
  <2>7. ASSUME NEW i \in 1 .. m PROVE r[i] = q[i]
    BY <1>1, <1>3, <2>3, <2>5, <2>6
  <2>8. r[m + 1] = e
    BY <1>1, <1>3, <2>3, <2>5, <2>6
  <2>9. ASSUME NEW i \in (m + 2) .. (n + 1) PROVE r[i] = q[i - 1]
    <3>1. i \in 1 .. (m + 1) + (n - m) /\ ~(i <= m + 1)
      BY <1>1, <1>3
    <3>2. i - (m + 1) \in 1 .. (n - m) /\ m + (i - (m + 1)) = i - 1
      BY <1>1, <1>3
    <3>3. r[i] = R[i - (m + 1)]
      BY <2>5, <3>1
    <3>4. R[i - (m + 1)] = q[m + (i - (m + 1))]
      BY <1>6, <3>2
    <3> QED BY <3>2, <3>3, <3>4
  <2> QED BY <2>5, <2>6, <2>7, <2>8, <2>9
<1>8. DOMAIN r = 1 .. (n + 1)
  BY <1>7
<1>9. \A i \in 1 .. (n + 1) : \/ i \in 1 .. m
                              \/ i = m + 1
                              \/ i \in (m + 2) .. (n + 1) /\ i - 1 \in (m + 1) .. n
  BY <1>1, <1>3
<1>10. m \in Nat /\ 1 .. m \subseteq 1 .. n /\ (m + 1) .. n \subseteq 1 .. n
  BY <1>1, <1>3
<1>11. \A i \in 1 .. (n + 1) : r[i] = e \/ \E j \in 1 .. n : r[i] = q[j]
  BY <1>7, <1>9, <1>10
<1>12. Sorted(side, r)
  <2> SUFFICES ASSUME NEW i \in 1 .. (n + 1), NEW j \in 1 .. (n + 1), i < j
               PROVE  AsGood(side, r[i].price, r[j].price)
    BY <1>8 DEF Sorted
  <2>1. \A k, l \in 1 .. n : k < l => AsGood(side, q[k].price, q[l].price)
    BY <1>1 DEF Sorted
  <2>2. \A k \in (m + 1) .. n : AsGood(side, e.price, q[k].price)
    <3> SUFFICES ASSUME NEW k \in (m + 1) .. n PROVE AsGood(side, e.price, q[k].price)
      OBVIOUS
    <3>1. k \in 1 .. n /\ ~(k <= m)
      BY <1>3, <1>10
    <3>2. ~AsGood(side, q[k].price, e.price) /\ q[k].price \in Int
      BY <1>1, <1>3, <3>1
    <3> QED BY <1>2, <3>2 DEF AsGood
  <2>3. CASE i \in 1 .. m /\ j \in 1 .. m
    BY <1>7, <1>10, <2>1, <2>3
  <2>4. CASE i \in 1 .. m /\ j = m + 1
    BY <1>3, <1>7, <1>10, <2>4
  <2>5. CASE i \in 1 .. m /\ j \in (m + 2) .. (n + 1)
    <3>1. i \in 1 .. n /\ j - 1 \in 1 .. n /\ i < j - 1
      BY <1>1, <1>3, <2>5
    <3>2. r[i] = q[i] /\ r[j] = q[j - 1]
      BY <1>7, <2>5
    <3> QED BY <2>1, <3>1, <3>2
  <2>6. CASE i = m + 1 /\ j \in (m + 2) .. (n + 1)
    BY <1>7, <1>9, <1>10, <2>2, <2>6
  <2>7. CASE i \in (m + 2) .. (n + 1) /\ j \in (m + 2) .. (n + 1)
    <3>1. i - 1 \in 1 .. n /\ j - 1 \in 1 .. n /\ i - 1 < j - 1
      BY <1>1, <1>3, <2>7
    <3>2. r[i] = q[i - 1] /\ r[j] = q[j - 1]
      BY <1>7, <2>7
    <3> QED BY <2>1, <3>1, <3>2
  <2> QED BY <1>9, <1>10, <2>3, <2>4, <2>5, <2>6, <2>7
<1>13. Ids(r) = Ids(q) \cup {e.id}
  <2>1. Ids(r) \subseteq Ids(q) \cup {e.id}
    BY <1>1, <1>8, <1>11 DEF Ids
  <2>2. e.id \in Ids(r)
    <3>1. m + 1 \in DOMAIN r
      BY <1>1, <1>3, <1>8
    <3> QED BY <1>7, <3>1 DEF Ids
  <2>3. ASSUME NEW k \in 1 .. n PROVE q[k].id \in Ids(r)
    <3>1. CASE k <= m
      <4>1. k \in DOMAIN r /\ r[k] = q[k]
        BY <1>1, <1>3, <1>7, <1>8, <3>1
      <4> QED BY <4>1 DEF Ids
    <3>2. CASE ~(k <= m)
      <4>1. k + 1 \in (m + 2) .. (n + 1) /\ k + 1 \in DOMAIN r /\ (k + 1) - 1 = k
        BY <1>1, <1>3, <1>8, <3>2
      <4>2. r[k + 1] = q[k]
        BY <1>7, <4>1
      <4> QED BY <4>1, <4>2 DEF Ids
    <3> QED BY <3>1, <3>2
  <2> QED BY <1>1, <2>1, <2>2, <2>3 DEF Ids
<1>14. IdsApart(r)
  <2> SUFFICES ASSUME NEW i \in 1 .. (n + 1), NEW j \in 1 .. (n + 1), r[i].id = r[j].id
               PROVE  i = j
    BY <1>8 DEF IdsApart
  <2>1. \A k, l \in 1 .. n : q[k].id = q[l].id => k = l
    BY <1>1 DEF IdsApart
  <2>2. \A k \in 1 .. n : q[k].id # e.id
    BY <1>1 DEF Ids
  <2> DEFINE Was(k) == IF k <= m THEN k ELSE k - 1
  <2>3. \A k \in 1 .. (n + 1) : k # m + 1 => Was(k) \in 1 .. n /\ r[k] = q[Was(k)]
    <3> SUFFICES ASSUME NEW k \in 1 .. (n + 1), k # m + 1
                 PROVE  Was(k) \in 1 .. n /\ r[k] = q[Was(k)]
      OBVIOUS
    <3>1. CASE k \in 1 .. m
      BY <1>7, <1>10, <3>1
    <3>2. CASE k \in (m + 2) .. (n + 1) /\ k - 1 \in (m + 1) .. n
      <4>1. Was(k) = k - 1
        BY <1>10, <3>2
      <4> QED BY <1>7, <1>10, <3>2, <4>1
    <3> QED BY <1>9, <3>1, <3>2
  <2>4. CASE i = m + 1 \/ j = m + 1
    BY <1>7, <2>2, <2>3, <2>4
  <2>5. CASE i # m + 1 /\ j # m + 1
    <3>1. Was(i) = Was(j)
      BY <2>1, <2>3, <2>5
    <3> QED BY <1>10, <2>5, <3>1
  <2> QED BY <2>4, <2>5
<1> QED BY <1>1, <1>7, <1>8, <1>11, <1>12, <1>13, <1>14 DEF r

\* The entries of r are entries of q.
Picks(r, q, At) == \A i \in 1 .. Len(r) : r[i] = q[At[i]]

\* A cancel removes the entry with that id.
Without(q, id) == RemoveFirstMatch(q, LAMBDA e : e.id = id)

LEMMA RemoveThins ==
  ASSUME NEW q \in Seq(Entry), IdsApart(q), NEW id
  PROVE  \E At : Thins(Without(q, id), q, {id}, At) /\ Picks(Without(q, id), q, At)
<1> USE DEF Without, Picks
<1> DEFINE n == Len(q)
           r == RemoveFirstMatch(q, LAMBDA e : e.id = id)
<1>1. n \in Nat /\ DOMAIN q = 1 .. n /\ \A i \in 1 .. n : q[i] \in Entry
  BY EntryFields
<1>2. CASE id \notin Ids(q)
  <2>1. ~\E i \in 1 .. Len(q) : q[i].id = id
    BY <1>1, <1>2 DEF Ids
  <2>2. r = q
    BY <2>1 DEF RemoveFirstMatch
  <2> DEFINE At == [i \in 1 .. n |-> i]
  <2>3. Thins(q, q, {id}, At) /\ \A i \in 1 .. Len(q) : q[i] = q[At[i]]
    BY <1>1, <1>2 DEF Thins
  <2> QED BY <2>2, <2>3
<1>3. CASE id \in Ids(q)
  <2>1. PICK k \in 1 .. n : q[k].id = id
    BY <1>1, <1>3 DEF Ids
  <2>2. \A i \in 1 .. n : q[i].id = id <=> i = k
    BY <1>1, <2>1 DEF IdsApart
  <2> DEFINE L == SubSeq(q, 1, k - 1)
             R == SubSeq(q, k + 1, n)
             At == [i \in 1 .. (n - 1) |-> IF i < k THEN i ELSE i + 1]
  <2>3. r = L \o R
    <3>1. {i \in 1 .. n : q[i].id = id} = {k}
      BY <2>2
    <3>2. Min({k}) = k
      BY DEF Min
    <3>3. SelectInSeq(q, LAMBDA e : e.id = id) = k
      BY <3>1, <3>2 DEF SelectInSeq
    <3>4. \E i \in 1 .. Len(q) : q[i].id = id
      BY <2>1
    <3> QED BY <3>3, <3>4 DEF RemoveFirstMatch, RemoveAt
  <2> HIDE DEF n, r
  <2>4. /\ L \in Seq(Entry) /\ Len(L) = k - 1
        /\ \A i \in 1 .. (k - 1) : L[i] = q[i]
    BY <1>1, SubSeqProperties
  <2>5. /\ R \in Seq(Entry) /\ Len(R) = n - k
        /\ \A i \in 1 .. (n - k) : R[i] = q[k + i]
    <3>1. \A i \in (k + 1) .. n : q[i] \in Entry
      BY <1>1
    <3>2. /\ R \in Seq(Entry) /\ Len(R) = IF k + 1 <= n THEN n - (k + 1) + 1 ELSE 0
          /\ \A i \in 1 .. n - (k + 1) + 1 : R[i] = q[(k + 1) + i - 1]
      BY <1>1, <3>1, SubSeqProperties
    <3> HIDE DEF R
    <3>3. Len(R) = n - k
      BY <1>1, <3>2
    <3>4. ASSUME NEW i \in 1 .. (n - k) PROVE R[i] = q[k + i]
      <4>1. i \in 1 .. n - (k + 1) + 1 /\ (k + 1) + i - 1 = k + i
        BY <1>1
      <4> QED BY <3>2, <4>1
    <3> QED BY <3>2, <3>3, <3>4
  <2> HIDE DEF L, R
  <2>6. /\ r \in Seq(Entry) /\ Len(r) = n - 1
        /\ \A i \in 1 .. (n - 1) : r[i] = q[At[i]]
    <3>1. /\ r \in Seq(Entry) /\ Len(r) = (k - 1) + (n - k)
          /\ \A i \in 1 .. (k - 1) + (n - k) :
               r[i] = IF i <= k - 1 THEN L[i] ELSE R[i - (k - 1)]
      <4>1. /\ r \in Seq(Entry) /\ Len(r) = Len(L) + Len(R)
            /\ \A i \in 1 .. Len(L) + Len(R) :
                 r[i] = IF i <= Len(L) THEN L[i] ELSE R[i - Len(L)]
        BY <2>3, <2>4, <2>5, ConcatProperties
      <4>2. Len(L) = k - 1 /\ Len(R) = n - k
        BY <2>4, <2>5
      <4> QED BY <4>1, <4>2, Zenon
    <3>2. (k - 1) + (n - k) = n - 1
      BY <1>1
    <3>3. ASSUME NEW i \in 1 .. (n - 1) PROVE r[i] = q[At[i]]
      <4>1. CASE i < k
        <5>1. i <= k - 1 /\ i \in 1 .. (k - 1)
          BY <4>1
        <5> QED BY <2>4, <3>1, <3>2, <4>1, <5>1
      <4>2. CASE ~(i < k)
        <5>1. ~(i <= k - 1) /\ i - (k - 1) \in 1 .. (n - k) /\ k + (i - (k - 1)) = i + 1
          BY <1>1, <4>2
        <5>2. r[i] = R[i - (k - 1)]
          BY <3>1, <3>2, <5>1
        <5>3. R[i - (k - 1)] = q[i + 1]
          BY <2>5, <5>1
        <5> QED BY <4>2, <5>2, <5>3
      <4> QED BY <4>1, <4>2
    <3> QED BY <3>1, <3>2, <3>3
  <2>7. \A i \in 1 .. (n - 1) : At[i] \in 1 .. n /\ At[i] # k
    BY <1>1
  <2>8. \A i, j \in 1 .. (n - 1) : i < j => At[i] < At[j]
    BY <1>1
  <2>9. \A j \in 1 .. n : j # k => \E i \in 1 .. (n - 1) : At[i] = j
    <3> SUFFICES ASSUME NEW j \in 1 .. n, j # k PROVE \E i \in 1 .. (n - 1) : At[i] = j
      OBVIOUS
    <3>1. CASE j < k
      <4>1. j \in 1 .. (n - 1) /\ At[j] = j
        BY <1>1, <3>1
      <4> QED BY <4>1
    <3>2. CASE ~(j < k)
      <4>1. j - 1 \in 1 .. (n - 1) /\ ~(j - 1 < k) /\ (j - 1) + 1 = j
        BY <1>1, <3>2
      <4>2. At[j - 1] = j
        BY <4>1
      <4> QED BY <4>1, <4>2
    <3> QED BY <3>1, <3>2
  <2> HIDE DEF At
  <2>10. Ids(r) = Ids(q) \ {id}
    <3>1. DOMAIN r = 1 .. (n - 1)
      BY <2>6
    <3>2. ASSUME NEW i \in 1 .. (n - 1) PROVE r[i].id \in Ids(q) \ {id}
      <4>1. At[i] \in 1 .. n /\ At[i] # k /\ r[i] = q[At[i]]
        BY <2>6, <2>7
      <4>2. q[At[i]].id # id
        BY <2>2, <4>1
      <4> QED BY <1>1, <4>1, <4>2 DEF Ids
    <3>3. ASSUME NEW j \in 1 .. n, q[j].id # id PROVE q[j].id \in Ids(r)
      <4>1. j # k
        BY <2>1, <3>3
      <4>2. PICK i \in 1 .. (n - 1) : At[i] = j
        BY <2>9, <4>1
      <4>3. r[i] = q[j]
        BY <2>6, <4>2
      <4> QED BY <3>1, <4>3 DEF Ids
    <3> QED BY <1>1, <3>1, <3>2, <3>3 DEF Ids
  <2>11. Thins(r, q, {id}, At)
    BY <2>6, <2>7, <2>8, <2>10 DEF Thins, n
  <2> QED BY <2>6, <2>11 DEF r
<1> QED BY <1>2, <1>3

------------------------------------------------------------------------------
(***************************************************************************)
(* A book between calls, and what a call makes of it.                      *)
(***************************************************************************)
GoodSide(side, q) ==
  /\ q \in Seq(Entry) /\ Sorted(side, q) /\ IdsApart(q)
  /\ \A i \in DOMAIN q : q[i].price > 0

Uncrossed(b) == \A i \in DOMAIN b["BUY"], j \in DOMAIN b["SELL"] :
                  b["BUY"][i].price < b["SELL"][j].price

GoodBook(b) == /\ b \in [Side -> Seq(Entry)]
               /\ \A side \in Side : GoodSide(side, b[side])
               /\ Ids(b["BUY"]) \cap Ids(b["SELL"]) = {}
               /\ Uncrossed(b)

LEMMA RestingIdsAre ==
  ASSUME NEW b
  PROVE  RestingIds(b) = Ids(b["BUY"]) \cup Ids(b["SELL"])
<1>1. ASSUME NEW q PROVE {e.id : e \in ToSet(q)} = Ids(q)
  BY DEF ToSet, Ids
<1>2. RestingIds(b) = {e.id : e \in ToSet(b["BUY"])} \cup {e.id : e \in ToSet(b["SELL"])}
  BY DEF RestingIds, Side
<1> QED BY <1>1, <1>2

\* Losing entries does no harm.
LEMMA ThinSide ==
  ASSUME NEW side \in Side, NEW q, GoodSide(side, q),
         NEW r, NEW gone, NEW At, Thins(r, q, gone, At)
  PROVE  /\ GoodSide(side, r) /\ Ids(r) = Ids(q) \ gone
         /\ \A i \in DOMAIN r : \E j \in DOMAIN q : r[i].price = q[j].price
<1>1. /\ IdsApart(r) /\ Sorted(side, r)
      /\ \A i \in DOMAIN r : \E j \in DOMAIN q : r[i].price = q[j].price
  BY ThinsKeeps DEF GoodSide
<1>2. r \in Seq(Entry) /\ Ids(r) = Ids(q) \ gone
  BY DEF Thins
<1>3. \A i \in DOMAIN r : r[i].price > 0
  BY <1>1 DEF GoodSide
<1> QED BY <1>1, <1>2, <1>3 DEF GoodSide

LEMMA WithoutStep ==
  ASSUME NEW b, GoodBook(b), NEW id
  PROVE  /\ GoodBook(BookWithout(id, b))
         /\ RestingIds(BookWithout(id, b)) = RestingIds(b) \ {id}
<1> DEFINE c == BookWithout(id, b)
<1>1. ASSUME NEW side \in Side
      PROVE  /\ GoodSide(side, c[side]) /\ Ids(c[side]) = Ids(b[side]) \ {id}
             /\ \A i \in DOMAIN c[side] : \E j \in DOMAIN b[side] :
                  c[side][i].price = b[side][j].price
  <2>1. c[side] = Without(b[side], id)
    BY DEF BookWithout, Without
  <2>2. GoodSide(side, b[side])
    BY DEF GoodBook
  <2>3. PICK At : Thins(c[side], b[side], {id}, At)
    BY <2>1, <2>2, RemoveThins DEF GoodSide
  <2> HIDE DEF c
  <2> QED BY <2>2, <2>3, ThinSide
<1>2. DOMAIN c = Side /\ c = [side \in Side |-> c[side]]
  BY DEF BookWithout
<1> HIDE DEF c
<1>3. c \in [Side -> Seq(Entry)]
  BY <1>1, <1>2 DEF GoodSide
<1>4. "BUY" \in Side /\ "SELL" \in Side
  BY DEF Side
<1>5. Ids(c["BUY"]) \cap Ids(c["SELL"]) = {}
  BY <1>1, <1>4 DEF GoodBook
<1>6. Uncrossed(c)
  <2> SUFFICES ASSUME NEW i \in DOMAIN c["BUY"], NEW j \in DOMAIN c["SELL"]
               PROVE  c["BUY"][i].price < c["SELL"][j].price
    BY DEF Uncrossed
  <2>1. PICK k \in DOMAIN b["BUY"] : c["BUY"][i].price = b["BUY"][k].price
    BY <1>1, <1>4
  <2>2. PICK l \in DOMAIN b["SELL"] : c["SELL"][j].price = b["SELL"][l].price
    BY <1>1, <1>4
  <2> QED BY <2>1, <2>2 DEF GoodBook, Uncrossed
<1>7. RestingIds(c) = RestingIds(b) \ {id}
  BY <1>1, <1>4, RestingIdsAre
<1> QED BY <1>1, <1>3, <1>5, <1>6, <1>7 DEF GoodBook, c

\* Does the rest of o join the book?
Rests(o, b) == o.type = "LIMIT" /\ Filled(o, b[Opposite(o.side)]) < o.quantity

LEMMA AfterStep ==
  ASSUME NEW o \in BookOrder, o.type = "LIMIT" => o.price > 0,
         NEW b, GoodBook(b), o.id \notin RestingIds(b)
  PROVE  LET q      == b[Opposite(o.side)]
             trades == Fills(o, q)
         IN  \E gone \in 0 .. Len(q) :
               /\ GoodBook(BookAfter(o, b))
               /\ RestingIds(BookAfter(o, b)) =
                    (RestingIds(b) \ FirstIds(q, gone)) \cup
                      (IF Rests(o, b) THEN {o.id} ELSE {})
               /\ Len(trades) \in {gone, gone + 1} /\ Len(trades) \in Nat
               /\ Len(trades) = gone + 1 => ~Rests(o, b)
               /\ IsFiniteSet(FirstIds(q, gone)) /\ Cardinality(FirstIds(q, gone)) = gone
               /\ FirstIds(q, gone) \subseteq RestingIds(b)
               /\ FirstIds(q, gone) \subseteq {t.maker : t \in ToSet(trades)}
               /\ \A t \in ToSet(trades) : t.maker \in RestingIds(b) /\ t.price > 0 /\ t.qty > 0
<1> DEFINE opp == Opposite(o.side)
           q == b[opp]
           own == b[o.side]
           trades == Fills(o, q)
           done == Filled(o, q)
           entry == [id |-> o.id, price |-> o.price, open |-> o.quantity - done]
           c == BookAfter(o, b)
<1>1. /\ o.side \in Side /\ opp \in Side /\ opp # o.side /\ o.id \in OrderId
      /\ o.price \in Price /\ o.price \in Int /\ o.quantity \in 1 .. MaxQty
      /\ \A side \in Side : side = opp \/ side = o.side
  BY OrderFields DEF Opposite, Side
<1>2. GoodSide(opp, q) /\ GoodSide(o.side, own) /\ b \in [Side -> Seq(Entry)]
  BY <1>1 DEF GoodBook
<1>3. Ids(q) \cap Ids(own) = {} /\ RestingIds(b) = Ids(q) \cup Ids(own)
  BY <1>1, RestingIdsAre DEF GoodBook, Opposite, Side
<1>4. PICK gone \in 0 .. Len(q) :
        /\ \E At : Thins(Drained(o, q), q, FirstIds(q, gone), At)
        /\ done \in 0 .. o.quantity
        /\ o.type # "FOK" /\ done < o.quantity =>
             \A i \in DOMAIN Drained(o, q) : ~Marketable(o, Drained(o, q)[i].price)
        /\ Len(trades) \in {gone, gone + 1} /\ Len(trades) \in 0 .. Len(q)
        /\ Len(trades) = gone + 1 => done = o.quantity
        /\ trades \in Seq([maker : OrderId, price : Price, qty : Nat])
        /\ \A i \in 1 .. Len(trades) : /\ trades[i].maker = q[i].id
                                       /\ trades[i].price = q[i].price
                                       /\ trades[i].qty > 0
  BY <1>1, <1>2, DrainedThins DEF GoodSide
<1>5. /\ GoodSide(opp, Drained(o, q)) /\ Ids(Drained(o, q)) = Ids(q) \ FirstIds(q, gone)
      /\ \A i \in DOMAIN Drained(o, q) : \E j \in DOMAIN q :
           Drained(o, q)[i].price = q[j].price
  <2>1. PICK At : Thins(Drained(o, q), q, FirstIds(q, gone), At)
    BY <1>4
  <2> QED BY <1>1, <1>2, <2>1, ThinSide
<1>6. /\ IsFiniteSet(FirstIds(q, gone)) /\ Cardinality(FirstIds(q, gone)) = gone
      /\ FirstIds(q, gone) \subseteq Ids(q)
  BY <1>2, FirstIdsCount DEF GoodSide
<1>7. Rests(o, b) <=> o.type = "LIMIT" /\ done < o.quantity
  BY DEF Rests
<1>8. /\ DOMAIN c = Side /\ c[opp] = Drained(o, q)
      /\ c[o.side] = IF Rests(o, b) THEN Insert(o.side, own, entry) ELSE own
  <2>1. DOMAIN b = Side
    BY <1>2
  <2> QED BY <1>1, <2>1 DEF BookAfter, Rests
<1>9. c = [side \in DOMAIN c |-> c[side]]
  BY DEF BookAfter
<1> HIDE DEF c, done, trades
<1>10. /\ GoodSide(o.side, c[o.side])
       /\ Ids(c[o.side]) = Ids(own) \cup (IF Rests(o, b) THEN {o.id} ELSE {})
       /\ \A i \in DOMAIN c[o.side] :
            \/ Rests(o, b) /\ c[o.side][i].price = o.price
            \/ \E j \in DOMAIN own : c[o.side][i].price = own[j].price
  <2>1. CASE ~Rests(o, b)
    BY <1>2, <1>8, <2>1
  <2>2. CASE Rests(o, b)
    <3>1. entry \in Entry /\ entry.id = o.id /\ entry.price = o.price /\ o.price > 0
      <4>1. o.quantity - done \in 1 .. MaxQty
        BY <1>1, <1>4, <1>7, <2>2
      <4> QED BY <1>1, <1>7, <2>2, <4>1 DEF Entry
    <3>2. entry.id \notin Ids(own)
      BY <1>3, <3>1
    <3> HIDE DEF entry
    <3>3. /\ c[o.side] \in Seq(Entry) /\ Sorted(o.side, c[o.side]) /\ IdsApart(c[o.side])
          /\ Ids(c[o.side]) = Ids(own) \cup {entry.id}
          /\ \A i \in DOMAIN c[o.side] :
               c[o.side][i] = entry \/ \E j \in DOMAIN own : c[o.side][i] = own[j]
      BY <1>1, <1>2, <1>8, <2>2, <3>1, <3>2, InsertKeeps DEF GoodSide
    <3>4. \A i \in DOMAIN c[o.side] : c[o.side][i].price > 0
      BY <1>2, <3>1, <3>3 DEF GoodSide
    <3>5. GoodSide(o.side, c[o.side])
      BY <3>3, <3>4 DEF GoodSide
    <3> QED BY <2>2, <3>1, <3>3, <3>5
  <2> QED BY <2>1, <2>2
<1> HIDE DEF entry
<1>11. c \in [Side -> Seq(Entry)] /\ \A side \in Side : GoodSide(side, c[side])
  <2>1. \A side \in Side : GoodSide(side, c[side])
    BY <1>1, <1>5, <1>8, <1>10
  <2> QED BY <1>8, <1>9, <2>1 DEF GoodSide
<1>12. Ids(c[opp]) \cap Ids(c[o.side]) = {}
  BY <1>3, <1>5, <1>8, <1>10
<1>13. RestingIds(c) = (RestingIds(b) \ FirstIds(q, gone)) \cup
                         (IF Rests(o, b) THEN {o.id} ELSE {})
  <2>1. RestingIds(c) = Ids(c[opp]) \cup Ids(c[o.side])
    BY <1>1, RestingIdsAre DEF Opposite, Side
  <2> QED BY <1>3, <1>5, <1>6, <1>8, <1>10, <2>1
<1>14. Uncrossed(c)
  <2>1. ASSUME NEW i \in DOMAIN c[opp], NEW j \in DOMAIN c[o.side]
        PROVE  IF o.side = "BUY" THEN c[o.side][j].price < c[opp][i].price
                                 ELSE c[opp][i].price < c[o.side][j].price
    <3>1. PICK k \in DOMAIN q : c[opp][i].price = q[k].price
      BY <1>5, <1>8
    <3>2. c[opp][i].price \in Int
      BY <1>2, <3>1, EntryFields DEF GoodSide
    <3>3. CASE Rests(o, b) /\ c[o.side][j].price = o.price
      <4>1. ~Marketable(o, c[opp][i].price)
        BY <1>4, <1>7, <1>8, <3>3
      <4> QED BY <1>1, <3>2, <3>3, <4>1 DEF Marketable, AsGood, Opposite, Side
    <3>4. CASE \E l \in DOMAIN own : c[o.side][j].price = own[l].price
      <4>1. PICK l \in DOMAIN own : c[o.side][j].price = own[l].price
        BY <3>4
      <4> QED BY <1>1, <3>1, <4>1 DEF GoodBook, Uncrossed, Opposite, Side
    <3> QED BY <1>10, <3>3, <3>4
  <2> QED BY <1>1, <2>1 DEF Uncrossed, Opposite, Side
<1>15. GoodBook(c)
  <2>1. Ids(c["BUY"]) \cap Ids(c["SELL"]) = {}
    BY <1>1, <1>12 DEF Opposite, Side
  <2> QED BY <1>11, <1>14, <2>1 DEF GoodBook
<1>16. /\ Len(trades) \in Nat /\ DOMAIN trades = 1 .. Len(trades)
       /\ Len(q) \in Nat /\ DOMAIN q = 1 .. Len(q) /\ Len(trades) <= Len(q)
  BY <1>2, <1>4, EntryFields DEF GoodSide
<1>17. FirstIds(q, gone) \subseteq {t.maker : t \in ToSet(trades)}
  <2> SUFFICES ASSUME NEW i \in 1 .. gone
               PROVE  q[i].id \in {t.maker : t \in ToSet(trades)}
    BY DEF FirstIds
  <2>1. gone \in Nat /\ Len(trades) >= gone
    <3>1. gone \in 0 .. Len(q) /\ Len(q) \in Nat /\ Len(trades) \in {gone, gone + 1}
      BY <1>4, <1>16
    <3> HIDE DEF q
    <3> QED BY <3>1
  <2>2. i \in DOMAIN trades
    BY <1>16, <2>1
  <2> QED BY <1>4, <1>16, <2>2 DEF ToSet
<1>18. ASSUME NEW t \in ToSet(trades)
       PROVE  t.maker \in RestingIds(b) /\ t.price > 0 /\ t.qty > 0
  <2>1. PICK i \in 1 .. Len(trades) : t = trades[i]
    BY <1>16 DEF ToSet
  <2>2. i \in DOMAIN q
    BY <1>16
  <2>3. q[i].id \in Ids(q) /\ q[i].price > 0
    BY <1>2, <2>2 DEF Ids, GoodSide
  <2> QED BY <1>3, <1>4, <2>1, <2>3
<1>19. Len(trades) = gone + 1 => ~Rests(o, b)
  <2>1. o.quantity \in Int
    BY <1>1
  <2> QED BY <1>4, <1>7, <2>1
<1> QED BY <1>3, <1>4, <1>6, <1>13, <1>15, <1>16, <1>17, <1>18, <1>19 DEF c, trades

\* The makers are the first entries, each once.
LEMMA TradesOf ==
  ASSUME NEW o \in BookOrder, NEW b, GoodBook(b)
  PROVE  LET q      == b[Opposite(o.side)]
             trades == Fills(o, q)
         IN  /\ Len(trades) \in Nat /\ DOMAIN trades = 1 .. Len(trades)
             /\ \A i \in 1 .. Len(trades) : trades[i].maker = q[i].id
             /\ \A i, j \in 1 .. Len(trades) : q[i].id = q[j].id => i = j
<1> DEFINE opp == Opposite(o.side)
           q == b[opp]
           trades == Fills(o, q)
<1>1. opp \in Side
  BY DEF Opposite, Side
<1>2. /\ q \in Seq(Entry) /\ Sorted(opp, q) /\ IdsApart(q)
  BY <1>1 DEF GoodBook, GoodSide
<1>3. /\ trades \in Seq([maker : OrderId, price : Price, qty : Nat])
      /\ Len(trades) \in 0 .. Len(q)
      /\ \A i \in 1 .. Len(trades) : trades[i].maker = q[i].id
  <2> HIDE DEF q
  <2> QED BY <1>2, DrainedThins
<1> HIDE DEF trades, q
<1>4. /\ Len(q) \in Nat /\ DOMAIN q = 1 .. Len(q)
      /\ Len(trades) \in Nat /\ DOMAIN trades = 1 .. Len(trades)
  BY <1>2, <1>3, EntryFields
<1>5. \A i, j \in 1 .. Len(trades) : q[i].id = q[j].id => i = j
  BY <1>2, <1>3, <1>4 DEF IdsApart
<1> QED BY <1>3, <1>4, <1>5 DEF trades, q

------------------------------------------------------------------------------
(***************************************************************************)
(* The inductive invariant of the engine.  Its last parts count: an order  *)
(* that rests has not been completed, so the ids used cover both the       *)
(* trades and the resting orders.                                          *)
(***************************************************************************)
Apart == \A s, t \in symbols : s # t => Resting(s) \cap Resting(t) = {}

BooksInv ==
  /\ TypeOK /\ TradesPositive /\ Apart
  /\ \A s \in symbols : GoodBook(books[s])
  /\ AllResting \subseteq usedIds /\ IsFiniteSet(usedIds)
  /\ tradesGenerated + Cardinality(AllResting) <= Cardinality(usedIds)

IInv == BooksInv /\ Cardinality(usedIds) <= ordersProcessed

Makers == {t.maker : t \in ToSet(result.trades)}

\* What a step does to the resting ids and the used ones.
Traceable ==
  /\ usedIds \subseteq usedIds'
  /\ AllResting' \subseteq AllResting \cup (usedIds' \ usedIds)
  /\ Makers' \subseteq AllResting
  /\ LET gone == AllResting \ AllResting' IN
       \/ gone \subseteq Makers'
       \/ result'.status = "CANCELLED" /\ Cardinality(gone) = 1

\* The trades are with different makers, of which the first ones are filled and go.
Releases ==
  LET fills == result'.trades IN
    /\ Len(fills) \in Nat /\ DOMAIN fills = 1 .. Len(fills)
    /\ \A i, j \in 1 .. Len(fills) : fills[i].maker = fills[j].maker => i = j
    /\ \E gone \in 0 .. Len(fills) :
         AllResting \ AllResting' = {fills[i].maker : i \in 1 .. gone}

\* A part of the engine the rest does not look at.
Same == UNCHANGED <<books, symbols, usedIds, tradesGenerated>>

\* No trade, no harm.
LEMMA NoTrades ==
  ASSUME NEW st \in OrderStatus, result' = Result(st, <<>>)
  PROVE  /\ TradesPositive' /\ Makers' = {} /\ result'.status = st
         /\ result'.status \in OrderStatus
<1>1. result'.trades = <<>> /\ result'.status = st
  BY DEF Result
<1>2. ToSet(<<>>) = {}
  BY DEF ToSet
<1> QED BY <1>1, <1>2 DEF TradesPositive, Makers

\* A call that changes nothing.
LEMMA SameStep ==
  ASSUME BooksInv, Same, ordersProcessed' \in 0 .. MaxProcessed,
         NEW st \in OrderStatus, result' = Result(st, <<>>)
  PROVE  BooksInv' /\ Traceable /\ UNCHANGED usedIds
<1>1. AllResting' = AllResting /\ Apart'
  BY DEF BooksInv, Same, AllResting, Resting, Apart
<1>2. TradesPositive' /\ Makers' = {} /\ result'.status \in OrderStatus
  BY NoTrades
<1>3. TypeOK'
  BY <1>2 DEF BooksInv, Same, TypeOK
<1> QED BY <1>1, <1>2, <1>3 DEF BooksInv, Same, Traceable

\* The book of one symbol changes: it loses F and gains N.
LEMMA OneBookChanges ==
  ASSUME BooksInv, NEW s \in symbols, UNCHANGED symbols, NEW b,
         books' = [books EXCEPT ![s] = b], GoodBook(b), NEW F, NEW N,
         RestingIds(b) = (Resting(s) \ F) \cup N, F \subseteq Resting(s),
         N \cap AllResting = {}
  PROVE  /\ symbols' = DOMAIN books' /\ Apart'
         /\ \A t \in symbols' : GoodBook(books'[t])
         /\ AllResting' = (AllResting \ F) \cup N
<1>1. symbols = DOMAIN books /\ Apart /\ \A t \in symbols : GoodBook(books[t])
  BY DEF BooksInv, TypeOK
<1>2. books'[s] = b /\ \A t \in symbols : t # s => books'[t] = books[t]
  BY <1>1
<1>3. Resting(s)' = (Resting(s) \ F) \cup N
  BY <1>2 DEF Resting
<1>4. \A t \in symbols : t # s => Resting(t)' = Resting(t) /\ Resting(t) \cap Resting(s) = {}
  BY <1>1, <1>2 DEF Resting, Apart
<1>5. \A t \in symbols : Resting(t) \subseteq AllResting
  BY DEF AllResting
<1>6. Apart'
  <2> SUFFICES ASSUME NEW t \in symbols, NEW u \in symbols, t # u
               PROVE  Resting(t)' \cap Resting(u)' = {}
    BY DEF Apart
  <2>1. CASE t = s
    BY <1>3, <1>4, <1>5, <2>1
  <2>2. CASE u = s
    BY <1>3, <1>4, <1>5, <2>2
  <2>3. CASE t # s /\ u # s
    BY <1>1, <1>4, <2>3 DEF Apart
  <2> QED BY <2>1, <2>2, <2>3
<1>7. AllResting' = UNION {Resting(t)' : t \in symbols}
  BY DEF AllResting
<1>8. AllResting' = (AllResting \ F) \cup N
  <2>1. ASSUME NEW id \in AllResting' PROVE id \in (AllResting \ F) \cup N
    <3>1. PICK t \in symbols : id \in Resting(t)'
      BY <1>7
    <3>2. CASE t = s
      BY <1>3, <1>5, <3>1, <3>2
    <3>3. CASE t # s
      BY <1>4, <1>5, <3>1, <3>3
    <3> QED BY <3>2, <3>3
  <2>2. ASSUME NEW id \in AllResting, id \notin F PROVE id \in AllResting'
    <3>1. PICK t \in symbols : id \in Resting(t)
      BY DEF AllResting
    <3>2. id \in Resting(t)'
      BY <1>3, <1>4, <2>2, <3>1
    <3> QED BY <1>7, <3>2
  <2>3. N \subseteq AllResting'
    BY <1>3, <1>7
  <2> QED BY <2>1, <2>2, <2>3
<1>9. symbols' = DOMAIN books'
  BY <1>1
<1>10. \A t \in symbols' : GoodBook(books'[t])
  BY <1>1, <1>2
<1> QED BY <1>6, <1>8, <1>9, <1>10

\* A book that only loses resting ids.
LEMMA OneBookLoses ==
  ASSUME BooksInv, NEW s \in symbols, UNCHANGED symbols, NEW b,
         books' = [books EXCEPT ![s] = b], GoodBook(b), NEW F,
         RestingIds(b) = Resting(s) \ F, F \subseteq Resting(s)
  PROVE  /\ symbols' = DOMAIN books' /\ Apart'
         /\ \A t \in symbols' : GoodBook(books'[t])
         /\ AllResting' = AllResting \ F
<1>1. symbols = DOMAIN books /\ Apart /\ \A t \in symbols : GoodBook(books[t])
  BY DEF BooksInv, TypeOK
<1>2. books'[s] = b /\ \A t \in symbols : t # s => books'[t] = books[t]
  BY <1>1
<1>3. Resting(s)' = Resting(s) \ F
  BY <1>2 DEF Resting
<1>4. \A t \in symbols : t # s => Resting(t)' = Resting(t) /\ Resting(t) \cap Resting(s) = {}
  BY <1>1, <1>2 DEF Resting, Apart
<1>5. Apart'
  BY <1>1, <1>3, <1>4 DEF Apart
<1>6. AllResting' = UNION {Resting(t)' : t \in symbols}
  BY DEF AllResting
<1>7. AllResting' = AllResting \ F
  <2>1. ASSUME NEW id \in AllResting' PROVE id \in AllResting \ F
    <3>1. PICK t \in symbols : id \in Resting(t)'
      BY <1>6
    <3>2. id \in Resting(t) \ F
      BY <1>3, <1>4, <3>1
    <3> QED BY <3>2 DEF AllResting
  <2>2. ASSUME NEW id \in AllResting, id \notin F PROVE id \in AllResting'
    <3>1. PICK t \in symbols : id \in Resting(t)
      BY DEF AllResting
    <3>2. id \in Resting(t)'
      BY <1>3, <1>4, <2>2, <3>1
    <3> QED BY <1>6, <3>2
  <2> QED BY <2>1, <2>2
<1>8. symbols' = DOMAIN books'
  BY <1>1
<1>9. \A t \in symbols' : GoodBook(books'[t])
  BY <1>1, <1>2
<1> QED BY <1>5, <1>7, <1>8, <1>9

\* registerSymbol(): a symbol gets an empty book, unless it has one.
LEMMA RegisterKeeps ==
  ASSUME BooksInv, NEW s \in Symbol, RegisterSymbol(s)
  PROVE  BooksInv' /\ Traceable /\ UNCHANGED usedIds
<1>1. /\ symbols = DOMAIN books /\ Apart /\ \A t \in symbols : GoodBook(books[t])
      /\ symbols \subseteq Symbol
  BY DEF BooksInv, TypeOK
<1>2. /\ symbols' = symbols \cup {s} /\ symbols' = DOMAIN books'
      /\ \A t \in symbols : books'[t] = books[t]
      /\ s \notin symbols => books'[s] = EmptyBook
      /\ UNCHANGED <<usedIds, ordersProcessed, tradesGenerated>>
  BY <1>1 DEF RegisterSymbol, Emplace
<1>3. GoodBook(EmptyBook) /\ RestingIds(EmptyBook) = {}
  <2>1. /\ EmptyBook \in [Side -> Seq(Entry)]
        /\ \A side \in Side : EmptyBook[side] = <<>>
    BY DEF EmptyBook
  <2>2. DOMAIN <<>> = {} /\ Ids(<<>>) = {}
    BY DEF Ids
  <2>3. "BUY" \in Side /\ "SELL" \in Side
    BY DEF Side
  <2> QED BY <2>1, <2>2, <2>3, RestingIdsAre
          DEF GoodBook, GoodSide, Uncrossed, Sorted, IdsApart
<1>4. \A t \in symbols' : GoodBook(books'[t])
  BY <1>1, <1>2, <1>3
<1>5. \A t \in symbols : Resting(t)' = Resting(t)
  BY <1>2 DEF Resting
<1>6. s \notin symbols => Resting(s)' = {}
  BY <1>2, <1>3 DEF Resting
<1>7. Apart' /\ AllResting' = AllResting
  <2>1. Apart'
    BY <1>1, <1>2, <1>5, <1>6 DEF Apart
  <2>2. AllResting' = UNION {Resting(t)' : t \in symbols \cup {s}}
    BY <1>2 DEF AllResting
  <2>3. AllResting' = AllResting
    BY <1>5, <1>6, <2>2 DEF AllResting
  <2> QED BY <2>1, <2>3
<1>8. TradesPositive' /\ Makers' = {} /\ result'.status \in OrderStatus
  BY NoTrades DEF RegisterSymbol, OrderStatus
<1>9. TypeOK'
  <2>1. \A t \in symbols', side \in Side : books'[t][side] \in Seq(Entry)
    BY <1>4 DEF GoodBook
  <2> QED BY <1>1, <1>2, <1>8, <2>1 DEF BooksInv, TypeOK
<1> QED BY <1>2, <1>4, <1>7, <1>8, <1>9 DEF BooksInv, Traceable

\* A cancel that finds its id takes it and nothing else.
LEMMA CancelTakes ==
  ASSUME BooksInv, NEW s, NEW id, s \in DOMAIN books, id \in Resting(s), Cancel(s, id)
  PROVE  /\ symbols' = DOMAIN books' /\ Apart' /\ s \in symbols
         /\ \A t \in symbols' : GoodBook(books'[t])
         /\ AllResting' = AllResting \ {id}
<1> DEFINE b == BookWithout(id, books[s])
<1>1. books' = [books EXCEPT ![s] = b] /\ UNCHANGED symbols
  BY DEF Cancel
<1>2. s \in symbols /\ GoodBook(books[s])
  BY DEF BooksInv, TypeOK
<1>3. GoodBook(b) /\ RestingIds(b) = Resting(s) \ {id}
  BY <1>2, WithoutStep DEF Resting
<1>4. {id} \subseteq Resting(s)
  OBVIOUS
<1> HIDE DEF b
<1> QED BY <1>1, <1>2, <1>3, <1>4, OneBookLoses

\* cancelOrder(), or submitOrder() of a CANCEL.
LEMMA CancelKeeps ==
  ASSUME BooksInv, NEW s, NEW id, Cancel(s, id), ordersProcessed' \in 0 .. MaxProcessed
  PROVE  BooksInv' /\ Traceable /\ UNCHANGED usedIds
<1>1. CASE ~(s \in DOMAIN books /\ id \in Resting(s))
  <2>1. Same /\ result' = Result("REJECTED", <<>>) /\ "REJECTED" \in OrderStatus
    BY <1>1 DEF Cancel, Same, Rejected, OrderStatus
  <2> QED BY <2>1, SameStep
<1>2. CASE s \in DOMAIN books /\ id \in Resting(s)
  <2>1. /\ result' = Result("CANCELLED", <<>>)
        /\ UNCHANGED <<symbols, usedIds, tradesGenerated>>
    BY <1>2 DEF Cancel
  <2>2. s \in symbols
    BY <1>2, CancelTakes
  <2>4. /\ symbols' = DOMAIN books' /\ Apart'
        /\ \A t \in symbols' : GoodBook(books'[t])
        /\ AllResting' = AllResting \ {id}
    BY <1>2, CancelTakes
  <2>5. /\ TradesPositive' /\ Makers' = {} /\ result'.status = "CANCELLED"
        /\ result'.status \in OrderStatus
    BY <2>1, NoTrades DEF OrderStatus
  <2>6. TypeOK'
    <3>1. \A t \in symbols', side \in Side : books'[t][side] \in Seq(Entry)
      BY <2>4 DEF GoodBook
    <3> QED BY <2>1, <2>4, <2>5, <3>1 DEF BooksInv, TypeOK
  <2>7. /\ id \in AllResting /\ IsFiniteSet(AllResting)
        /\ Cardinality(AllResting) \in Nat
    <3>1. IsFiniteSet(AllResting)
      BY FS_Subset DEF BooksInv
    <3> QED BY <1>2, <2>2, <3>1, FS_CardinalityType DEF AllResting
  <2>8. Cardinality(AllResting') = Cardinality(AllResting) - 1
    <3>1. AllResting' = AllResting \ {id}
      BY <2>4
    <3> QED BY <2>7, <3>1, FS_RemoveElement
  <2>9. tradesGenerated \in Nat /\ Cardinality(usedIds) \in Nat
    BY FS_CardinalityType DEF BooksInv, TypeOK
  <2>10. tradesGenerated' + Cardinality(AllResting') <= Cardinality(usedIds')
    <3>1. tradesGenerated + Cardinality(AllResting) <= Cardinality(usedIds)
      BY DEF BooksInv
    <3> QED BY <2>1, <2>7, <2>8, <2>9, <3>1
  <2>11. AllResting \ AllResting' = {id} /\ Cardinality({id}) = 1
    BY <2>4, <2>7, FS_Singleton
  <2> QED BY <2>1, <2>4, <2>5, <2>6, <2>10, <2>11 DEF BooksInv, Traceable
<1> QED BY <1>1, <1>2

\* A valid order is executed.
LEMMA ExecuteKeeps ==
  ASSUME BooksInv, NEW o \in Input, o.type # "CANCEL", Valid(o), Execute(o),
         ordersProcessed' \in 0 .. MaxProcessed
  PROVE  /\ BooksInv' /\ Traceable
         /\ Cardinality(usedIds') = Cardinality(usedIds) + 1
         /\ AllResting' \subseteq AllResting \cup {o.id}
         /\ \E gone \in 0 .. Len(result'.trades) :
              AllResting \ AllResting' = FirstIds(books[o.symbol][Opposite(o.side)], gone)
<1> DEFINE s == o.symbol
           q == books[s][Opposite(o.side)]
           b == BookAfter(o, books[s])
           trades == Fills(o, q)
           N == IF Rests(o, books[s]) THEN {o.id} ELSE {}
<1>1. /\ s \in symbols /\ symbols = DOMAIN books /\ GoodBook(books[s])
      /\ o.id \notin usedIds /\ AllResting \subseteq usedIds
      /\ o.type = "LIMIT" => o.price > 0
  BY DEF BooksInv, TypeOK, Valid
<1>2. o \in BookOrder
  <2>1. o.type \in OrderType \cup {"CANCEL"}
    BY DEF Input
  <2> QED BY <2>1 DEF BookOrder, Valid
<1>3. /\ books' = [books EXCEPT ![s] = b] /\ usedIds' = usedIds \cup {o.id}
      /\ result' = Result(Outcome(o, q), trades)
      /\ tradesGenerated' = tradesGenerated + Len(trades)
      /\ UNCHANGED symbols
  BY <1>1 DEF Execute, RecordId
<1>4. Resting(s) \subseteq AllResting /\ o.id \notin AllResting
  BY <1>1 DEF AllResting
<1>5. PICK gone \in 0 .. Len(q) :
        /\ GoodBook(b)
        /\ RestingIds(b) = (Resting(s) \ FirstIds(q, gone)) \cup N
        /\ Len(trades) \in {gone, gone + 1} /\ Len(trades) \in Nat
        /\ Len(trades) = gone + 1 => ~Rests(o, books[s])
        /\ IsFiniteSet(FirstIds(q, gone)) /\ Cardinality(FirstIds(q, gone)) = gone
        /\ FirstIds(q, gone) \subseteq Resting(s)
        /\ FirstIds(q, gone) \subseteq {t.maker : t \in ToSet(trades)}
        /\ \A t \in ToSet(trades) : t.maker \in Resting(s) /\ t.price > 0 /\ t.qty > 0
  <2>1. o.id \notin RestingIds(books[s])
    BY <1>4 DEF Resting
  <2> QED BY <1>1, <1>2, <2>1, AfterStep DEF Resting
<1> DEFINE F == FirstIds(q, gone)
<1>6. /\ N \subseteq {o.id} /\ N \cap AllResting = {} /\ F \subseteq Resting(s)
      /\ RestingIds(b) = (Resting(s) \ F) \cup N
  BY <1>4, <1>5
<1> HIDE DEF b, trades, F
<1>7. /\ symbols' = DOMAIN books' /\ Apart'
      /\ \A t \in symbols' : GoodBook(books'[t])
      /\ AllResting' = (AllResting \ F) \cup N
  <2> HIDE DEF N, s
  <2> QED BY <1>1, <1>3, <1>5, <1>6, OneBookChanges
<1>8. Makers' \subseteq AllResting /\ F \subseteq Makers' /\ TradesPositive'
  <2>1. result'.trades = trades
    BY <1>3 DEF Result
  <2> QED BY <1>4, <1>5, <2>1 DEF Makers, TradesPositive, F
<1>9. Outcome(o, q) \in OrderStatus
  <2> DEFINE done == Filled(o, q)
  <2>1. CASE done = o.quantity
    BY <2>1 DEF Outcome, OrderStatus
  <2>2. CASE done # o.quantity /\ (o.type = "MARKET" \/ (done > 0 /\ done < o.quantity))
    BY <2>2 DEF Outcome, OrderStatus
  <2>3. CASE /\ done # o.quantity /\ ~(o.type = "MARKET" \/ (done > 0 /\ done < o.quantity))
             /\ o.type = "LIMIT" /\ done = 0
    BY <2>3 DEF Outcome, OrderStatus
  <2>4. CASE /\ done # o.quantity /\ ~(o.type = "MARKET" \/ (done > 0 /\ done < o.quantity))
             /\ ~(o.type = "LIMIT" /\ done = 0)
    BY <2>4 DEF Outcome, OrderStatus
  <2> QED BY <2>1, <2>2, <2>3, <2>4
<1>10. Len(trades) \in Nat /\ gone \in Nat
  BY <1>5
<1>11. TypeOK'
  <2>1. \A t \in symbols', side \in Side : books'[t][side] \in Seq(Entry)
    BY <1>7 DEF GoodBook
  <2>2. result'.status = Outcome(o, q)
    BY <1>3 DEF Result
  <2>3. o.id \in OrderId
    BY DEF Input
  <2> QED BY <1>3, <1>7, <1>9, <1>10, <2>1, <2>2, <2>3 DEF BooksInv, TypeOK
<1>12. /\ IsFiniteSet(usedIds) /\ IsFiniteSet(usedIds') /\ Cardinality(usedIds) \in Nat
       /\ Cardinality(usedIds') = Cardinality(usedIds) + 1
       /\ IsFiniteSet(AllResting) /\ Cardinality(AllResting) \in Nat
  <2>1. IsFiniteSet(usedIds)
    BY DEF BooksInv
  <2>2. IsFiniteSet(AllResting)
    BY <1>1, <2>1, FS_Subset
  <2> QED BY <1>1, <1>3, <2>1, <2>2, FS_AddElement, FS_CardinalityType
<1>13. Cardinality(AllResting') = Cardinality(AllResting) - gone + Cardinality(N)
  <2>1. F \subseteq AllResting /\ AllResting \cap F = F
    BY <1>4, <1>5 DEF F
  <2>2. /\ IsFiniteSet(AllResting \ F)
        /\ Cardinality(AllResting \ F) = Cardinality(AllResting) - gone
    <3>1. Cardinality(AllResting \ F) = Cardinality(AllResting) - Cardinality(AllResting \cap F)
      BY <1>12, FS_Difference
    <3>2. Cardinality(AllResting \cap F) = gone
      BY <1>5, <2>1 DEF F
    <3> QED BY <1>12, <3>1, <3>2, FS_Difference
  <2>3. CASE N = {}
    <3>1. AllResting' = AllResting \ F /\ Cardinality(N) = 0
      BY <1>7, <2>3, FS_EmptySet
    <3> QED BY <1>10, <1>12, <2>2, <3>1
  <2>4. CASE N = {o.id}
    <3>1. AllResting' = (AllResting \ F) \cup {o.id} /\ o.id \notin AllResting \ F
      BY <1>4, <1>7, <2>4
    <3>2. Cardinality(AllResting') = Cardinality(AllResting \ F) + 1
      BY <2>2, <3>1, FS_AddElement
    <3>3. Cardinality(N) = 1
      BY <2>4, FS_Singleton
    <3> QED BY <1>10, <1>12, <2>2, <3>2, <3>3
  <2> QED BY <2>3, <2>4
<1>14. Len(trades) - gone + Cardinality(N) <= 1 /\ Cardinality(N) \in Nat
  <2>1. CASE Rests(o, books[s])
    <3>1. N = {o.id} /\ Len(trades) = gone
      BY <1>5, <2>1
    <3>2. Cardinality(N) = 1
      BY <3>1, FS_Singleton
    <3> QED BY <1>10, <3>1, <3>2
  <2>2. CASE ~Rests(o, books[s])
    <3>1. N = {}
      BY <2>2
    <3>2. Cardinality(N) = 0
      BY <3>1, FS_EmptySet
    <3> QED BY <1>5, <1>10, <3>2
  <2> QED BY <2>1, <2>2
<1>15. tradesGenerated' + Cardinality(AllResting') <= Cardinality(usedIds')
  <2>1. tradesGenerated \in Nat /\ tradesGenerated + Cardinality(AllResting) <= Cardinality(usedIds)
    BY DEF BooksInv, TypeOK
  <2>2. tradesGenerated' = tradesGenerated + Len(trades)
    BY <1>3
  <2> HIDE DEF N
  <2>3. tradesGenerated' + Cardinality(AllResting')
          = tradesGenerated + Cardinality(AllResting) + (Len(trades) - gone + Cardinality(N))
    BY <1>10, <1>12, <1>13, <1>14, <2>1, <2>2
  <2> QED BY <1>10, <1>12, <1>14, <2>1, <2>3
<1>16. AllResting' \subseteq usedIds'
  BY <1>1, <1>3, <1>6, <1>7
<1>17. Traceable
  <2>1. AllResting' \subseteq AllResting \cup (usedIds' \ usedIds)
    BY <1>1, <1>3, <1>6, <1>7
  <2>2. AllResting \ AllResting' \subseteq Makers'
    BY <1>7, <1>8
  <2> QED BY <1>3, <1>8, <2>1, <2>2 DEF Traceable
<1>18. gone \in 0 .. Len(result'.trades) /\ AllResting \ AllResting' = F
  <2>1. result'.trades = trades
    BY <1>3 DEF Result
  <2>2. gone \in 0 .. Len(trades)
    <3>1. Len(trades) \in {gone, gone + 1}
      BY <1>5
    <3> QED BY <1>10, <3>1
  <2> QED BY <1>4, <1>6, <1>7, <2>1, <2>2
<1>19. AllResting' \subseteq AllResting \cup {o.id}
  BY <1>6, <1>7
<1> QED BY <1>7, <1>8, <1>11, <1>12, <1>15, <1>16, <1>17, <1>18, <1>19 DEF BooksInv, F

\* Every step.
LEMMA NextKeeps ==
  ASSUME IInv, Next
  PROVE  IInv' /\ Traceable
<1>1. /\ BooksInv /\ Cardinality(usedIds) \in Nat /\ ordersProcessed \in 0 .. MaxProcessed
      /\ Cardinality(usedIds) <= ordersProcessed
  BY FS_CardinalityType DEF IInv, BooksInv, TypeOK
<1>2. ASSUME NEW s \in Symbol, RegisterSymbol(s) PROVE IInv' /\ Traceable
  <2>1. UNCHANGED ordersProcessed
    BY <1>2 DEF RegisterSymbol
  <2> QED BY <1>1, <1>2, <2>1, RegisterKeeps DEF IInv
<1>3. ASSUME NEW s \in Symbol, NEW id \in OrderId, CancelOrder(s, id)
      PROVE  IInv' /\ Traceable
  <2>1. Cancel(s, id) /\ UNCHANGED ordersProcessed
    BY <1>3 DEF CancelOrder
  <2> QED BY <1>1, <2>1, CancelKeeps DEF IInv
<1>4. ASSUME NEW o \in Input, SubmitOrder(o) PROVE IInv' /\ Traceable
  <2>1. ordersProcessed' = ordersProcessed + 1 /\ ordersProcessed' \in 0 .. MaxProcessed
    BY <1>1, <1>4 DEF SubmitOrder
  <2>2. CASE o.type = "CANCEL" /\ Cancel(o.symbol, o.id)
    BY <1>1, <2>1, <2>2, CancelKeeps DEF IInv
  <2>3. CASE o.type # "CANCEL" /\ Valid(o) /\ Execute(o)
    BY <1>1, <2>1, <2>3, ExecuteKeeps DEF IInv
  <2>4. CASE o.type # "CANCEL" /\ ~Valid(o) /\ Reject(o)
    <3>1. Same /\ result' = Result("REJECTED", <<>>) /\ "REJECTED" \in OrderStatus
      BY <2>4 DEF Reject, Same, Rejected, OrderStatus
    <3> QED BY <1>1, <2>1, <3>1, SameStep DEF IInv
  <2> QED BY <1>4, <2>2, <2>3, <2>4 DEF SubmitOrder
<1> QED BY <1>2, <1>3, <1>4 DEF Next

\* A valid order takes makers only, the ones it fills.
LEMMA ExecuteReleases ==
  ASSUME BooksInv, NEW o \in Input, o.type # "CANCEL", Valid(o), Execute(o),
         ordersProcessed' \in 0 .. MaxProcessed
  PROVE  Releases
<1> DEFINE b == books[o.symbol]
           q == b[Opposite(o.side)]
           fills == Fills(o, q)
<1>1. o \in BookOrder
  <2>1. o.type \in OrderType \cup {"CANCEL"}
    BY DEF Input
  <2> QED BY <2>1 DEF BookOrder, Valid
<1>2. o.symbol \in DOMAIN books /\ GoodBook(b)
  BY DEF BooksInv, TypeOK, Valid
<1>3. result'.trades = fills
  BY <1>2 DEF Execute, Result
<1>4. PICK gone \in 0 .. Len(fills) : AllResting \ AllResting' = FirstIds(q, gone)
  BY <1>3, ExecuteKeeps
<1>5. /\ Len(fills) \in Nat /\ DOMAIN fills = 1 .. Len(fills)
      /\ \A i \in 1 .. Len(fills) : fills[i].maker = q[i].id
      /\ \A i, j \in 1 .. Len(fills) : q[i].id = q[j].id => i = j
  <2> HIDE DEF b
  <2> QED BY <1>1, <1>2, TradesOf
<1> HIDE DEF fills, q
<1>6. FirstIds(q, gone) = {fills[i].maker : i \in 1 .. gone}
  <2>1. \A i \in 1 .. gone : fills[i].maker = q[i].id
    BY <1>5
  <2> QED BY <2>1 DEF FirstIds
<1>7. \A i, j \in 1 .. Len(fills) : fills[i].maker = fills[j].maker => i = j
  BY <1>5
<1> QED BY <1>3, <1>4, <1>5, <1>6, <1>7 DEF Releases

\* What submitOrder() takes from the books: what a CANCEL names, or makers.
LEMMA SubmitReleases ==
  ASSUME IInv, NEW o \in Input, SubmitOrder(o)
  PROVE  /\ AllResting' \subseteq AllResting \cup {o.id}
         /\ o.type = "CANCEL" => AllResting \ AllResting' \subseteq {o.id}
         /\ o.type # "CANCEL" => Releases
<1>1. BooksInv /\ ordersProcessed' \in 0 .. MaxProcessed
  BY DEF IInv, BooksInv, TypeOK, SubmitOrder
<1>2. CASE o.type = "CANCEL" /\ Cancel(o.symbol, o.id)
  <2>1. CASE o.symbol \in DOMAIN books /\ o.id \in Resting(o.symbol)
    <3>1. AllResting' = AllResting \ {o.id}
      BY <1>1, <1>2, <2>1, CancelTakes
    <3> QED BY <1>2, <3>1
  <2>2. CASE ~(o.symbol \in DOMAIN books /\ o.id \in Resting(o.symbol))
    <3>1. AllResting' = AllResting
      BY <1>2, <2>2 DEF Cancel, AllResting, Resting
    <3> QED BY <1>2, <3>1
  <2> QED BY <2>1, <2>2
<1>3. CASE o.type # "CANCEL" /\ Valid(o) /\ Execute(o)
  BY <1>1, <1>3, ExecuteKeeps, ExecuteReleases
<1>4. CASE o.type # "CANCEL" /\ ~Valid(o) /\ Reject(o)
  <2>1. AllResting' = AllResting
    BY <1>4 DEF Reject, AllResting, Resting
  <2>2. result'.trades = <<>> /\ AllResting \ AllResting' = {}
    BY <1>4, <2>1 DEF Reject, Rejected, Result
  <2>3. Releases
    BY <2>2 DEF Releases
  <2> QED BY <1>4, <2>1, <2>3
<1> QED BY <1>2, <1>3, <1>4 DEF SubmitOrder

LEMMA StutterKeeps == IInv /\ UNCHANGED vars => IInv'
BY DEF IInv, BooksInv, TypeOK, TradesPositive, Apart, AllResting, Resting, vars

LEMMA InitKeeps == Init => IInv
<1> SUFFICES ASSUME Init PROVE IInv
  OBVIOUS
<1>1. /\ symbols = {} /\ DOMAIN books = {} /\ usedIds = {} /\ ordersProcessed = 0
      /\ tradesGenerated = 0 /\ result.trades = <<>> /\ result.status = "PENDING"
  BY DEF Init, Result
<1>2. AllResting = {} /\ IsFiniteSet({}) /\ Cardinality({}) = 0 /\ ToSet(<<>>) = {}
  BY <1>1, FS_EmptySet DEF AllResting, ToSet
<1>3. TypeOK
  BY <1>1 DEF TypeOK, OrderStatus
<1> QED BY <1>1, <1>2, <1>3 DEF IInv, BooksInv, TradesPositive, Apart

LEMMA Invariance == Spec => []IInv
<1>1. IInv /\ [Next]_vars => IInv'
  BY NextKeeps, StutterKeeps
<1> QED BY <1>1, InitKeeps, PTL DEF Spec

(***************************************************************************)
(* The types of the state; the validator knows exactly the symbols that    *)
(* have a book.                                                            *)
(***************************************************************************)
THEOREM TypeCorrect == Spec => []TypeOK
<1>1. IInv => TypeOK
  BY DEF IInv, BooksInv
<1> QED BY <1>1, Invariance, PTL

(***************************************************************************)
(* An id rests at most once in the whole engine, and only after it was     *)
(* recorded as used.                                                       *)
(***************************************************************************)
THEOREM IdsRestOnce == Spec => []IdsUnique
<1>1. IInv => IdsUnique
  <2> SUFFICES ASSUME IInv, NEW s \in symbols, NEW t \in symbols,
                      NEW a \in Side, NEW c \in Side,
                      NEW i \in DOMAIN books[s][a], NEW j \in DOMAIN books[t][c]
               PROVE  /\ books[s][a][i].id \in usedIds
                      /\ books[s][a][i].id = books[t][c][j].id => s = t /\ a = c /\ i = j
    BY DEF IdsUnique
  <2>1. /\ GoodBook(books[s]) /\ GoodBook(books[t]) /\ Apart
        /\ Resting(s) \subseteq usedIds
    BY DEF IInv, BooksInv, AllResting
  <2>2. books[s][a][i].id \in Ids(books[s][a]) /\ books[t][c][j].id \in Ids(books[t][c])
    BY DEF Ids
  <2>3. Ids(books[s][a]) \subseteq Resting(s) /\ Ids(books[t][c]) \subseteq Resting(t)
    BY RestingIdsAre DEF Resting, Side
  <2>4. ASSUME books[s][a][i].id = books[t][c][j].id PROVE s = t /\ a = c /\ i = j
    <3>1. s = t
      BY <2>1, <2>2, <2>3, <2>4 DEF Apart
    <3>2. a = c
      BY <2>1, <2>2, <2>4, <3>1 DEF GoodBook, Side
    <3>3. IdsApart(books[s][a])
      BY <2>1 DEF GoodBook, GoodSide
    <3> QED BY <2>4, <3>1, <3>2, <3>3 DEF IdsApart
  <2> QED BY <2>1, <2>2, <2>3, <2>4
<1> QED BY <1>1, Invariance, PTL

(***************************************************************************)
(* No book is ever crossed: an order takes every entry it may trade with   *)
(* before its rest joins the book.                                         *)
(***************************************************************************)
THEOREM NoBookCrossed == Spec => []BooksUncrossed
<1>1. IInv => BooksUncrossed
  <2> SUFFICES ASSUME IInv, NEW s \in symbols,
                      NEW bid \in ToSet(books[s]["BUY"]), NEW ask \in ToSet(books[s]["SELL"])
               PROVE  bid.price < ask.price
    BY DEF BooksUncrossed
  <2>1. Uncrossed(books[s])
    BY DEF IInv, BooksInv, GoodBook
  <2> QED BY <2>1 DEF Uncrossed, ToSet
<1> QED BY <1>1, Invariance, PTL

(***************************************************************************)
(* Every trade has a positive price and quantity.                          *)
(***************************************************************************)
THEOREM TradesSound == Spec => []TradesPositive
<1>1. IInv => TradesPositive
  BY DEF IInv, BooksInv
<1> QED BY <1>1, Invariance, PTL

(***************************************************************************)
(* Trades <= ids used <= orders processed.                                 *)
(***************************************************************************)
THEOREM TotalsAgree == Spec => []TotalsOrdered
<1>1. IInv => TotalsOrdered
  <2> SUFFICES ASSUME IInv PROVE TotalsOrdered
    OBVIOUS
  <2>1. /\ tradesGenerated \in Nat
        /\ tradesGenerated + Cardinality(AllResting) <= Cardinality(usedIds)
        /\ Cardinality(usedIds) <= ordersProcessed
        /\ IsFiniteSet(usedIds) /\ AllResting \subseteq usedIds
    BY DEF IInv, BooksInv, TypeOK
  <2>2. Cardinality(usedIds) \in Nat /\ Cardinality(AllResting) \in Nat
    BY <2>1, FS_Subset, FS_CardinalityType
  <2> QED BY <2>1, <2>2 DEF TotalsOrdered
<1> QED BY <1>1, Invariance, PTL

(***************************************************************************)
(* An order leaves the engine by a trade or by the one cancel that answers *)
(* CANCELLED.                                                              *)
(***************************************************************************)
THEOREM LeaveOnlyOnce == Spec => LeavesOnce
<1>1. IInv /\ [Next]_vars =>
        [LET gone == AllResting \ AllResting' IN
         \/ gone \subseteq {t.maker : t \in ToSet(result'.trades)}
         \/ result'.status = "CANCELLED" /\ Cardinality(gone) = 1]_vars
  BY NextKeeps DEF Traceable, Makers
<1> QED BY <1>1, Invariance, PTL DEF Spec, LeavesOnce

(***************************************************************************)
(* An id is used up once: what no longer rests never rests or trades again.*)
(***************************************************************************)
THEOREM UsedUpOnce == Spec => GoneForGood
<1>1. IInv /\ [Next]_vars =>
        [/\ usedIds \subseteq usedIds'
         /\ \A id \in usedIds \ AllResting :
              id \notin AllResting' \cup {t.maker : t \in ToSet(result'.trades)}]_vars
  <2> SUFFICES ASSUME IInv, Next
               PROVE  /\ usedIds \subseteq usedIds'
                      /\ \A id \in usedIds \ AllResting :
                           id \notin AllResting' \cup {t.maker : t \in ToSet(result'.trades)}
    OBVIOUS
  <2>1. Traceable
    BY NextKeeps
  <2> QED BY <2>1 DEF Traceable, Makers
<1> QED BY <1>1, Invariance, PTL DEF Spec, GoneForGood

------------------------------------------------------------------------------
\* The validator and the engine know the same symbols: registerSymbol() is
\* the only writer of both.
SymbolsBooked == symbols = DOMAIN books

\* A symbol that gets a book keeps it.
LEMMA EmplaceDomain ==
  ASSUME NEW s
  PROVE  DOMAIN Emplace(s) = DOMAIN books \cup {s}
BY DEF Emplace

\* No call of the book leaves REJECTED on an order.
LEMMA OutcomeNotRejected ==
  ASSUME NEW o, NEW entries
  PROVE  Outcome(o, entries) # "REJECTED"
<1> DEFINE done == Filled(o, entries)
<1>1. CASE done = o.quantity
  BY <1>1 DEF Outcome
<1>2. CASE done # o.quantity /\ (o.type = "MARKET" \/ (done > 0 /\ done < o.quantity))
  BY <1>2 DEF Outcome
<1>3. CASE /\ done # o.quantity /\ ~(o.type = "MARKET" \/ (done > 0 /\ done < o.quantity))
           /\ o.type = "LIMIT" /\ done = 0
  BY <1>3 DEF Outcome
<1>4. CASE /\ done # o.quantity /\ ~(o.type = "MARKET" \/ (done > 0 /\ done < o.quantity))
           /\ ~(o.type = "LIMIT" /\ done = 0)
  BY <1>4 DEF Outcome
<1>5. QED
  BY <1>1, <1>2, <1>3, <1>4

------------------------------------------------------------------------------
\* A cancel, by either path: what is rejected changed nothing.
LEMMA CancelStep ==
  ASSUME NEW s, NEW id, SymbolsBooked, Cancel(s, id)
  PROVE  /\ SymbolsBooked'
         /\ result' = Rejected => UNCHANGED <<books, usedIds, tradesGenerated>>
<1>1. CASE s \in DOMAIN books /\ id \in Resting(s)
  <2>1. result' = Result("CANCELLED", <<>>) /\ UNCHANGED symbols
    BY <1>1 DEF Cancel
  <2>2. result' # Rejected
    BY <2>1 DEF Result, Rejected
  <2>3. DOMAIN books' = DOMAIN books
    BY <1>1 DEF Cancel
  <2>4. QED
    BY <2>1, <2>2, <2>3 DEF SymbolsBooked
<1>2. CASE ~(s \in DOMAIN books /\ id \in Resting(s))
  BY <1>2 DEF Cancel, SymbolsBooked
<1>3. QED
  BY <1>1, <1>2

\* A valid order is executed: its symbol has a book, so it is not rejected.
LEMMA ExecuteStep ==
  ASSUME NEW o, SymbolsBooked, Valid(o), Execute(o)
  PROVE  SymbolsBooked' /\ result' # Rejected
<1> DEFINE opposite == books[o.symbol][Opposite(o.side)]
<1>1. o.symbol \in DOMAIN books
  BY DEF Valid, SymbolsBooked
<1>2. /\ books' = [books EXCEPT ![o.symbol] = BookAfter(o, @)]
      /\ result' = Result(Outcome(o, opposite), Fills(o, opposite))
      /\ UNCHANGED symbols
  BY <1>1 DEF Execute
<1>3. result' # Rejected
  BY <1>2, OutcomeNotRejected DEF Result, Rejected
<1>4. QED
  BY <1>2, <1>3 DEF SymbolsBooked

\* Every step keeps the symbols together, and a step that answers REJECTED
\* changes no book, uses no id and counts no trade.
LEMMA StepLeavesNoTrace ==
  ASSUME SymbolsBooked, [Next]_vars
  PROVE  /\ SymbolsBooked'
         /\ [result' = Rejected => UNCHANGED <<books, usedIds, tradesGenerated>>]_vars
<1>1. ASSUME NEW s \in Symbol, RegisterSymbol(s)
      PROVE  SymbolsBooked' /\ result' # Rejected
  <2>1. DOMAIN books' = DOMAIN books \cup {s}
    BY <1>1, EmplaceDomain DEF RegisterSymbol
  <2>2. result' # Rejected
    BY <1>1 DEF RegisterSymbol, Result, Rejected
  <2>3. QED
    BY <1>1, <2>1, <2>2 DEF RegisterSymbol, SymbolsBooked
<1>2. ASSUME NEW o \in Input, SubmitOrder(o)
      PROVE  /\ SymbolsBooked'
             /\ result' = Rejected => UNCHANGED <<books, usedIds, tradesGenerated>>
  <2>1. CASE o.type = "CANCEL" /\ Cancel(o.symbol, o.id)
    BY <2>1, CancelStep
  <2>2. CASE o.type # "CANCEL" /\ Valid(o) /\ Execute(o)
    BY <2>2, ExecuteStep
  <2>3. CASE o.type # "CANCEL" /\ ~Valid(o) /\ Reject(o)
    BY <2>3 DEF Reject, SymbolsBooked
  <2>4. QED
    BY <1>2, <2>1, <2>2, <2>3 DEF SubmitOrder
<1>3. ASSUME NEW s \in Symbol, NEW id \in OrderId, CancelOrder(s, id)
      PROVE  /\ SymbolsBooked'
             /\ result' = Rejected => UNCHANGED <<books, usedIds, tradesGenerated>>
  BY <1>3, CancelStep DEF CancelOrder
<1>4. CASE UNCHANGED vars
  BY <1>4 DEF vars, SymbolsBooked
<1>5. QED
  BY <1>1, <1>2, <1>3, <1>4 DEF Next

------------------------------------------------------------------------------
(***************************************************************************)
(* A rejected call of submitOrder() or cancelOrder() changes no book, uses *)
(* up no id and counts no trade: the rejection after recordId() is dead.   *)
(***************************************************************************)
THEOREM RejectedNoTrace == Spec => RejectedLeavesNoTrace
<1>1. Init => SymbolsBooked
  BY DEF Init, SymbolsBooked
<1>2. SymbolsBooked /\ [Next]_vars => SymbolsBooked'
  BY StepLeavesNoTrace
<1>3. SymbolsBooked /\ [Next]_vars =>
        [result' = Rejected => UNCHANGED <<books, usedIds, tradesGenerated>>]_vars
  BY StepLeavesNoTrace
<1>4. QED
  BY <1>1, <1>2, <1>3, PTL DEF Spec, RejectedLeavesNoTrace

------------------------------------------------------------------------------
(***************************************************************************)
(* What submitOrder() answers, for those who keep count of the answers.    *)
(***************************************************************************)
Trade == [maker : OrderId, price : Price, qty : Nat]

\* What rests was accepted, or filled in part.
LEMMA RestsAnswered ==
  ASSUME NEW o \in BookOrder, NEW b, GoodBook(b), Rests(o, b)
  PROVE  Outcome(o, b[Opposite(o.side)]) \in {"ACCEPTED", "PARTIALLY_FILLED"}
<1> DEFINE q == b[Opposite(o.side)]
           done == Filled(o, q)
<1>1. q \in Seq(Entry) /\ Sorted(Opposite(o.side), q)
  BY OrderFields DEF GoodBook, GoodSide
<1>2. o.type = "LIMIT" /\ done < o.quantity
  BY DEF Rests
<1>3. o.quantity \in Nat
  BY OrderFields
<1> HIDE DEF q
<1>4. done \in 0 .. o.quantity
  BY <1>1, MatchCounts
<1> HIDE DEF done
<1>5. CASE done = 0
  BY <1>2, <1>3, <1>5 DEF Outcome, done, q
<1>6. CASE done > 0
  BY <1>2, <1>3, <1>4, <1>6 DEF Outcome, done, q
<1> QED BY <1>3, <1>4, <1>5, <1>6

\* An order that is valid.
LEMMA ExecuteAnswers ==
  ASSUME BooksInv, NEW o \in Input, o.type # "CANCEL", Valid(o), Execute(o)
  PROVE  /\ result'.trades \in Seq(Trade)
         /\ tradesGenerated' = tradesGenerated + Len(result'.trades)
         /\ result'.status # "REJECTED"
         /\ usedIds' = usedIds \cup {o.id}
         /\ UNCHANGED symbols /\ o.symbol \in symbols
         /\ \A s \in symbols : s # o.symbol => Resting(s)' = Resting(s)
         /\ Resting(o.symbol)' \subseteq Resting(o.symbol) \cup {o.id}
         /\ o.id \in Resting(o.symbol)' => result'.status \in {"ACCEPTED", "PARTIALLY_FILLED"}
<1> DEFINE s == o.symbol
           b == books[s]
           opp == Opposite(o.side)
           q == b[opp]
           c == BookAfter(o, b)
<1>1. /\ s \in symbols /\ symbols = DOMAIN books /\ GoodBook(b)
      /\ o.id \notin usedIds /\ AllResting \subseteq usedIds
      /\ o.type = "LIMIT" => o.price > 0
  BY DEF BooksInv, TypeOK, Valid
<1>2. o \in BookOrder
  <2>1. o.type \in OrderType \cup {"CANCEL"}
    BY DEF Input
  <2> QED BY <2>1 DEF BookOrder, Valid
<1>3. /\ books' = [books EXCEPT ![s] = c] /\ usedIds' = usedIds \cup {o.id}
      /\ result'.status = Outcome(o, q) /\ result'.trades = Fills(o, q)
      /\ tradesGenerated' = tradesGenerated + Len(result'.trades)
      /\ UNCHANGED symbols
  BY <1>1 DEF Execute, RecordId, Result
<1>4. o.id \notin RestingIds(b)
  BY <1>1 DEF AllResting, Resting
<1> HIDE DEF b
<1>5. Fills(o, q) \in Seq(Trade)
  <2>1. opp \in Side
    BY <1>2, OrderFields
  <2>2. q \in Seq(Entry) /\ Sorted(opp, q) /\ IdsApart(q)
    BY <1>1, <2>1 DEF GoodBook, GoodSide
  <2> HIDE DEF q
  <2> QED BY <1>2, <2>2, DrainedThins DEF Trade
<1>6. PICK F : RestingIds(c) = (RestingIds(b) \ F) \cup (IF Rests(o, b) THEN {o.id} ELSE {})
  BY <1>1, <1>2, <1>4, AfterStep
<1>7. /\ Resting(s)' = RestingIds(c) /\ Resting(s) = RestingIds(b)
      /\ \A t \in symbols : t # s => Resting(t)' = Resting(t)
  BY <1>1, <1>3 DEF Resting, b
<1>8. o.id \in RestingIds(c) => Outcome(o, q) \in {"ACCEPTED", "PARTIALLY_FILLED"}
  BY <1>1, <1>2, <1>4, <1>6, RestsAnswered
<1>9. Outcome(o, q) # "REJECTED"
  BY OutcomeNotRejected
<1> HIDE DEF c, q, s
<1> QED BY <1>1, <1>3, <1>5, <1>6, <1>7, <1>8, <1>9 DEF s

\* A CANCEL.
LEMMA CancelAnswers ==
  ASSUME BooksInv, NEW s, NEW id, Cancel(s, id)
  PROVE  /\ result'.trades = <<>>
         /\ UNCHANGED <<symbols, usedIds, tradesGenerated>>
         /\ result'.status =
              IF s \in symbols /\ id \in Resting(s) THEN "CANCELLED" ELSE "REJECTED"
         /\ \A t \in symbols : Resting(t)' \subseteq Resting(t)
         /\ AllResting' \subseteq AllResting
<1>1. symbols = DOMAIN books
  BY DEF BooksInv, TypeOK
<1>2. CASE s \in symbols /\ id \in Resting(s)
  <2>1. /\ books' = [books EXCEPT ![s] = BookWithout(id, books[s])]
        /\ result' = Result("CANCELLED", <<>>)
        /\ UNCHANGED <<symbols, usedIds, tradesGenerated>>
    BY <1>1, <1>2 DEF Cancel
  <2>2. RestingIds(BookWithout(id, books[s])) = RestingIds(books[s]) \ {id}
    BY <1>2, WithoutStep DEF BooksInv
  <2>3. ASSUME NEW t \in symbols PROVE Resting(t)' \subseteq Resting(t)
    BY <1>1, <1>2, <2>1, <2>2 DEF Resting
  <2> QED BY <1>2, <2>1, <2>3 DEF Result, AllResting
<1>3. CASE ~(s \in symbols /\ id \in Resting(s))
  BY <1>1, <1>3 DEF Cancel, Rejected, Result, Resting, AllResting
<1> QED BY <1>2, <1>3

------------------------------------------------------------------------------
(***************************************************************************)
(* What a call does to the quantities.                                     *)
(***************************************************************************)
\* The quantity that id trades when o comes in.
Share(o, fills, id) ==
  SumFunctionOnSet([i \in DOMAIN fills |-> fills[i].qty],
                   {i \in DOMAIN fills : id \in {fills[i].maker, o.id}})

\* The first entries are taken whole, at most one more in part; together they
\* are all that o takes.
LEMMA FilledIs ==
  ASSUME NEW o \in BookOrder, NEW q \in Seq(Entry), Sorted(Opposite(o.side), q)
  PROVE  \E gone \in 0 .. Len(q), traded \in 0 .. Len(q) :
           /\ traded = Cardinality({i \in DOMAIN q : Taken(o, q, i) > 0})
           /\ \A i \in 1 .. Len(q) : i <= traded <=> Taken(o, q, i) > 0
           /\ \A i \in 1 .. gone : Taken(o, q, i) = q[i].open
           /\ \/ traded = gone /\ Filled(o, q) = Depth(q, gone)
              \/ /\ traded = gone + 1
                 /\ Filled(o, q) = Depth(q, gone) + Taken(o, q, traded)
<1> DEFINE gone == Cardinality({i \in DOMAIN q : q[i].open - Taken(o, q, i) = 0})
           traded == Cardinality({i \in DOMAIN q : Taken(o, q, i) > 0})
           done == Filled(o, q)
           want == o.quantity
           R == Reach(o, q)
           D(n) == Depth(q, n)
<1>1. /\ Len(q) \in Nat /\ R \in 0 .. Len(q) /\ want \in Nat /\ want > 0
      /\ \A i \in 1 .. Len(q) : q[i].open \in Nat /\ Taken(o, q, i) \in 0 .. q[i].open
  BY EntryFields, ReachFirst, OrderFields, TakenOf
<1>2. /\ gone \in 0 .. Len(q) /\ traded \in 0 .. Len(q)
      /\ \A i \in 1 .. Len(q) : i <= gone <=> q[i].open - Taken(o, q, i) = 0
      /\ \A i \in 1 .. Len(q) : i <= traded <=> Taken(o, q, i) > 0
      /\ traded \in {gone, gone + 1} /\ (traded = gone + 1 => done = want)
  <2>1. /\ gone \in 0 .. Len(q) /\ traded \in 0 .. Len(q)
        /\ \A i \in 1 .. Len(q) : i <= gone <=> q[i].open - Taken(o, q, i) = 0
        /\ \A i \in 1 .. Len(q) : i <= traded <=> Taken(o, q, i) > 0
        /\ gone <= traded /\ traded <= gone + 1
        /\ traded = gone + 1 => done = want
    BY MatchCounts
  <2> HIDE DEF gone, traded
  <2> QED BY <1>1, <2>1
<1> HIDE DEF gone, traded
<1>3. \A i \in 1 .. gone : i \in 1 .. Len(q) /\ Taken(o, q, i) = q[i].open
  BY <1>1, <1>2
<1>4. /\ \A i \in 1 .. Len(q) : i <= gone <=> ~Killed(o, q) /\ i <= R /\ D(i) <= want
      /\ \A i \in 1 .. Len(q) : i <= traded <=> ~Killed(o, q) /\ i <= R /\ D(i - 1) < want
  BY <1>2, TakenOf
<1>5. /\ D(0) = 0 /\ \A n \in 0 .. Len(q) : D(n) \in Nat
      /\ \A m, n \in 0 .. Len(q) : m <= n => D(m) <= D(n)
  BY DepthGrows
<1>6. done = IF Killed(o, q) THEN 0 ELSE Lesser(want, D(R))
  BY DEF Filled
<1>7. CASE traded = gone
  <2>1. CASE Killed(o, q)
    <3>1. gone = 0
      <4>1. ~(1 <= gone)
        BY <1>1, <1>2, <1>4, <2>1
      <4> QED BY <1>2, <4>1
    <3>2. done = 0 /\ D(gone) = 0
      BY <1>5, <1>6, <2>1, <3>1
    <3> QED BY <1>2, <1>3, <1>7, <3>2 DEF traded
  <2>2. CASE ~Killed(o, q)
    <3>1. gone <= R /\ D(gone) <= want
      <4>1. CASE gone = 0
        BY <1>1, <1>5, <4>1
      <4>2. CASE gone # 0
        BY <1>2, <1>4, <4>2
      <4> QED BY <4>1, <4>2
    <3>2. CASE gone = R
      <4>1. D(gone) \in Nat
        BY <1>2, <1>5
      <4>2. done = D(gone)
        BY <1>1, <1>6, <2>2, <3>1, <3>2, <4>1 DEF Lesser
      <4> QED BY <1>2, <1>3, <1>7, <4>2 DEF traded
    <3>3. CASE gone # R
      <4>1. gone + 1 \in 1 .. Len(q) /\ gone + 1 <= R /\ (gone + 1) - 1 = gone
        BY <1>1, <1>2, <3>1, <3>3
      <4>2. ~(D(gone + 1) <= want) /\ ~(D(gone) < want)
        BY <1>2, <1>4, <1>7, <2>2, <4>1
      <4>3. D(gone + 1) <= D(R) /\ D(gone) \in Nat /\ D(gone + 1) \in Nat /\ D(R) \in Nat
        BY <1>1, <1>2, <1>5, <4>1
      <4>4. done = D(gone)
        BY <1>1, <1>6, <2>2, <3>1, <4>2, <4>3 DEF Lesser
      <4> QED BY <1>2, <1>3, <1>7, <4>4 DEF traded
    <3> QED BY <3>2, <3>3
  <2> QED BY <2>1, <2>2
<1>8. CASE traded = gone + 1
  <2>1. traded \in 1 .. Len(q) /\ traded - 1 = gone /\ ~(traded <= gone) /\ traded <= traded
    BY <1>2, <1>8
  <2>2. ~Killed(o, q) /\ traded <= R /\ D(gone) < want /\ ~(D(traded) <= want)
    BY <1>4, <2>1
  <2>3. D(traded) = D(gone) + q[traded].open /\ D(gone) \in Nat /\ q[traded].open \in Nat
    BY <1>1, <1>2, <1>5, <2>1, DepthGrows
  <2>4. Taken(o, q, traded) = IF want - D(gone) <= 0 THEN 0
                              ELSE Lesser(want - D(gone), q[traded].open)
    BY <1>1, <2>1, <2>2 DEF Taken
  <2>5. done = want /\ Taken(o, q, traded) = want - D(gone)
    BY <1>1, <1>2, <1>8, <2>2, <2>3, <2>4 DEF Lesser
  <2>6. done = D(gone) + Taken(o, q, traded)
    BY <1>1, <2>3, <2>5
  <2> QED BY <1>2, <1>3, <1>8, <2>6 DEF traded
<1> QED BY <1>2, <1>7, <1>8

\* The trades divide what o takes among the entries.
LEMMA FillsShare ==
  ASSUME NEW o \in BookOrder, NEW q \in Seq(Entry), Sorted(Opposite(o.side), q),
         IdsApart(q), o.id \notin Ids(q)
  PROVE  /\ Share(o, Fills(o, q), o.id) = Filled(o, q)
         /\ \A i \in 1 .. Len(q) : Share(o, Fills(o, q), q[i].id) = Taken(o, q, i)
         /\ \A id : id \notin Ids(q) \cup {o.id} => Share(o, Fills(o, q), id) = 0
<1>1. PICK gone \in 0 .. Len(q), traded \in 0 .. Len(q) :
           /\ traded = Cardinality({i \in DOMAIN q : Taken(o, q, i) > 0})
           /\ \A i \in 1 .. Len(q) : i <= traded <=> Taken(o, q, i) > 0
           /\ \A i \in 1 .. gone : Taken(o, q, i) = q[i].open
           /\ \/ traded = gone /\ Filled(o, q) = Depth(q, gone)
              \/ /\ traded = gone + 1
                 /\ Filled(o, q) = Depth(q, gone) + Taken(o, q, traded)
  BY FilledIs
<1> DEFINE fills == Fills(o, q)
           qtys == [i \in DOMAIN fills |-> fills[i].qty]
           opens == [i \in DOMAIN q |-> q[i].open]
<1>2. /\ Len(q) \in Nat /\ DOMAIN q = 1 .. Len(q) /\ gone \in Nat /\ traded \in Nat
      /\ \A i \in 1 .. Len(q) : /\ q[i].open \in Nat /\ Taken(o, q, i) \in Nat
                                /\ opens[i] = q[i].open
  <2>1. /\ Len(q) \in Nat /\ DOMAIN q = 1 .. Len(q)
        /\ \A i \in 1 .. Len(q) : q[i].open \in Nat /\ Taken(o, q, i) \in 0 .. q[i].open
    BY EntryFields, TakenOf
  <2> QED BY <1>1, <2>1
<1>3. fills = [i \in 1 .. traded |-> [maker |-> q[i].id, price |-> q[i].price,
                                      qty |-> Taken(o, q, i)]]
  BY <1>1 DEF Fills
<1>4. /\ DOMAIN fills = 1 .. traded
      /\ \A i \in 1 .. traded : /\ i \in 1 .. Len(q) /\ fills[i].maker = q[i].id
                                /\ qtys[i] = Taken(o, q, i) /\ qtys[i] \in Nat
  <2>1. DOMAIN fills = 1 .. traded
    BY <1>3
  <2>2. ASSUME NEW i \in 1 .. traded
        PROVE  /\ i \in 1 .. Len(q) /\ fills[i].maker = q[i].id
               /\ fills[i].qty = Taken(o, q, i) /\ Taken(o, q, i) \in Nat
    BY <1>1, <1>2, <1>3
  <2> HIDE DEF fills
  <2> QED BY <2>1, <2>2
<1>5. \A id : Share(o, fills, id) =
                SumFunctionOnSet(qtys, {i \in 1 .. traded : id \in {q[i].id, o.id}})
  <2>1. ASSUME NEW id
        PROVE  {i \in DOMAIN fills : id \in {fills[i].maker, o.id}} =
               {i \in 1 .. traded : id \in {q[i].id, o.id}}
    BY <1>4
  <2> QED BY <2>1 DEF Share
<1> HIDE DEF fills, qtys, opens
<1>6. Share(o, fills, o.id) = Filled(o, q)
  <2>1. {i \in 1 .. traded : o.id \in {q[i].id, o.id}} = 1 .. traded
    OBVIOUS
  <2>2. Share(o, fills, o.id) = SumFunctionOnSet(qtys, 1 .. traded)
    BY <1>5, <2>1
  <2>3. IsFiniteSet(1 .. gone) /\ Depth(q, gone) = SumFunctionOnSet(opens, 1 .. gone)
    BY <1>2, FS_Interval DEF Depth, opens
  <2>4. gone <= traded /\ 1 .. gone \subseteq 1 .. traded
    BY <1>1, <1>2
  <2>5. \A i \in 1 .. gone : qtys[i] = opens[i] /\ qtys[i] \in Int
    BY <1>1, <1>2, <1>4, <2>4
  <2>6. SumFunctionOnSet(qtys, 1 .. gone) = Depth(q, gone)
    BY <2>3, <2>5, SumCongruent
  <2>7. CASE traded = gone
    BY <1>1, <2>2, <2>6, <2>7
  <2>8. CASE traded = gone + 1
    <3>1. 1 .. traded = (1 .. gone) \cup {traded} /\ traded \notin 1 .. gone
          /\ traded \in 1 .. traded
      BY <1>2, <2>8
    <3>2. qtys[traded] = Taken(o, q, traded) /\ qtys[traded] \in Int
      BY <1>4, <3>1
    <3>3. SumFunctionOnSet(qtys, (1 .. gone) \cup {traded}) =
            qtys[traded] + SumFunctionOnSet(qtys, 1 .. gone)
      BY <2>3, <2>5, <3>1, <3>2, SumAdd
    <3>4. Filled(o, q) = Depth(q, gone) + Taken(o, q, traded)
      BY <1>1, <2>8, <1>2
    <3>5. Depth(q, gone) \in Nat
      BY DepthGrows
    <3>6. Share(o, fills, o.id) = Taken(o, q, traded) + Depth(q, gone)
      BY <2>2, <2>6, <3>1, <3>2, <3>3
    <3>7. Taken(o, q, traded) \in Int
      BY <3>2
    <3> QED BY <3>4, <3>5, <3>6, <3>7
  <2> QED BY <1>1, <2>7, <2>8
<1>7. ASSUME NEW i \in 1 .. Len(q) PROVE Share(o, fills, q[i].id) = Taken(o, q, i)
  <2> DEFINE S == {j \in 1 .. traded : q[i].id \in {q[j].id, o.id}}
  <2>1. q[i].id # o.id
    BY <1>2 DEF Ids
  <2>2. \A j \in 1 .. traded : j \in S <=> j = i
    BY <1>2, <1>4, <2>1 DEF IdsApart
  <2>3. Share(o, fills, q[i].id) = SumFunctionOnSet(qtys, S)
    BY <1>5
  <2>4. CASE i \in 1 .. traded
    <3>1. S = {i} /\ S = {} \cup {i} /\ i \notin {}
      BY <2>2, <2>4
    <3>2. qtys[i] = Taken(o, q, i) /\ qtys[i] \in Int
      BY <1>4, <2>4
    <3>3. SumFunctionOnSet(qtys, {} \cup {i}) = qtys[i] + SumFunctionOnSet(qtys, {})
      BY <3>1, <3>2, FS_EmptySet, SumAdd
    <3>4. SumFunctionOnSet(qtys, {}) = 0
      BY SumEmpty
    <3> HIDE DEF S
    <3> QED BY <2>3, <3>1, <3>2, <3>3, <3>4
  <2>5. CASE i \notin 1 .. traded
    <3>1. S = {} /\ ~(i <= traded)
      BY <1>2, <2>2, <2>5
    <3>2. Taken(o, q, i) = 0
      BY <1>1, <1>2, <3>1
    <3> HIDE DEF S
    <3> QED BY <2>3, <3>1, <3>2, SumEmpty
  <2> QED BY <2>4, <2>5
<1>8. ASSUME NEW id, id \notin Ids(q) \cup {o.id} PROVE Share(o, fills, id) = 0
  <2>1. {j \in 1 .. traded : id \in {q[j].id, o.id}} = {}
    BY <1>2, <1>4, <1>8 DEF Ids
  <2> QED BY <1>5, <2>1, SumEmpty
<1> QED BY <1>6, <1>7, <1>8 DEF fills

\* What o leaves of the entries.
LEMMA DrainedEntries ==
  ASSUME NEW o \in BookOrder, NEW q \in Seq(Entry), Sorted(Opposite(o.side), q)
  PROVE  LET r == Drained(o, q) IN
         /\ \A e \in ToSet(r) : \E i \in 1 .. Len(q) :
              e.id = q[i].id /\ e.price = q[i].price /\ e.open = q[i].open - Taken(o, q, i)
         /\ \A i \in 1 .. Len(q) :
              Taken(o, q, i) < q[i].open => \E e \in ToSet(r) : e.id = q[i].id
<1> DEFINE left == [i \in DOMAIN q |-> [q[i] EXCEPT !.open = @ - Taken(o, q, i)]]
           G == {i \in DOMAIN q : q[i].open - Taken(o, q, i) = 0}
           gone == Cardinality(G)
           r == Drained(o, q)
           n == Len(q)
<1>1. /\ n \in Nat /\ DOMAIN q = 1 .. n
      /\ \A i \in 1 .. n : q[i] \in Entry /\ q[i].open \in Nat /\ Taken(o, q, i) \in 0 .. q[i].open
  BY EntryFields, TakenOf
<1>2. gone \in 0 .. n /\ \A i \in 1 .. n : i <= gone <=> q[i].open - Taken(o, q, i) = 0
  BY MatchCounts
<1>3. \A i \in 1 .. n : /\ left[i].id = q[i].id /\ left[i].price = q[i].price
                        /\ left[i].open = q[i].open - Taken(o, q, i)
  BY <1>1 DEF Entry
<1>4. r = SubSeq(left, gone + 1, n)
  <2>1. {i \in DOMAIN q : left[i].open = 0} = G
    BY <1>1, <1>3
  <2> QED BY <2>1 DEF Drained
<1>5. r = [i \in 1 .. (n - gone) |-> left[gone + i]]
  <2>1. n \in Int /\ gone + 1 \in Int /\ n - (gone + 1) + 1 = n - gone /\ gone \in Int
    BY <1>1, <1>2
  <2> HIDE DEF left, gone, r, n
  <2>2. SubSeq(left, gone + 1, n) = [i \in 1 .. (n - (gone + 1) + 1) |-> left[i + (gone + 1) - 1]]
    BY <2>1
  <2>3. \A i \in 1 .. (n - gone) : i + (gone + 1) - 1 = gone + i
    BY <2>1
  <2> QED BY <1>4, <2>1, <2>2, <2>3
<1> HIDE DEF left, gone, r, n, G
<1>6. ASSUME NEW e \in ToSet(r)
      PROVE  \E i \in 1 .. n : /\ e.id = q[i].id /\ e.price = q[i].price
                               /\ e.open = q[i].open - Taken(o, q, i)
  <2>1. PICK k \in 1 .. (n - gone) : e = left[gone + k]
    BY <1>5 DEF ToSet
  <2>2. gone + k \in 1 .. n
    BY <1>1, <1>2
  <2> QED BY <1>3, <2>1, <2>2
<1>7. ASSUME NEW i \in 1 .. n, Taken(o, q, i) < q[i].open
      PROVE  \E e \in ToSet(r) : e.id = q[i].id
  <2>1. ~(i <= gone)
    BY <1>1, <1>2, <1>7
  <2>2. i - gone \in 1 .. (n - gone) /\ gone + (i - gone) = i
    BY <1>1, <1>2, <2>1
  <2>3. r[i - gone] = left[i] /\ r[i - gone] \in ToSet(r)
    BY <1>5, <2>2 DEF ToSet
  <2> QED BY <1>3, <2>3
<1> QED BY <1>6, <1>7 DEF n, r

(***************************************************************************)
(* How the entries of a book b become those of c: fills are taken off the  *)
(* entries they name, which o reaches, and off o; what is not taken rests. *)
(***************************************************************************)
Follows(o, fills, b, c) ==
  /\ \A side \in Side : \A e \in ToSet(c[side]) :
       \/ /\ e.id = o.id /\ e.price = o.price /\ o.type = "LIMIT"
          /\ side = o.side /\ e.open = o.quantity - Share(o, fills, o.id)
       \/ \E d \in ToSet(b[side]) : /\ e.id = d.id /\ e.price = d.price
                                    /\ e.open = d.open - Share(o, fills, d.id)
  /\ \A side \in Side : \A d \in ToSet(b[side]) :
       /\ d.id # o.id /\ d.open \in Nat
       /\ Share(o, fills, d.id) \in 0 .. d.open
       /\ Share(o, fills, d.id) < d.open => d.id \in RestingIds(c)
  /\ \A id : id \notin RestingIds(b) \cup {o.id} => Share(o, fills, id) = 0
  /\ Share(o, fills, o.id) \in 0 .. o.quantity
  /\ o.type = "LIMIT" /\ Share(o, fills, o.id) < o.quantity => o.id \in RestingIds(c)
  /\ \A f \in ToSet(fills) :
       /\ Marketable(o, f.price) /\ f.qty \in Nat
       /\ \E d \in ToSet(b[Opposite(o.side)]) :
            f.maker = d.id /\ f.price = d.price /\ d.price > 0

LEMMA AfterFollows ==
  ASSUME NEW o \in BookOrder, o.type = "LIMIT" => o.price > 0,
         NEW b, GoodBook(b), o.id \notin RestingIds(b)
  PROVE  Follows(o, Fills(o, b[Opposite(o.side)]), b, BookAfter(o, b))
<1> DEFINE opp == Opposite(o.side)
           q == b[opp]
           own == b[o.side]
           fills == Fills(o, q)
           done == Filled(o, q)
           entry == [id |-> o.id, price |-> o.price, open |-> o.quantity - done]
           c == BookAfter(o, b)
<1>1. /\ o.side \in Side /\ opp \in Side /\ opp # o.side /\ o.id \in OrderId
      /\ o.price \in Price /\ o.quantity \in 1 .. MaxQty /\ o.quantity \in Nat
      /\ \A side \in Side : side = opp \/ side = o.side
  BY OrderFields DEF Opposite, Side
<1>2. /\ GoodSide(opp, q) /\ GoodSide(o.side, own) /\ b \in [Side -> Seq(Entry)]
      /\ q \in Seq(Entry) /\ Sorted(opp, q) /\ IdsApart(q)
      /\ own \in Seq(Entry) /\ Sorted(o.side, own) /\ IdsApart(own)
  BY <1>1 DEF GoodBook, GoodSide
<1>3. Ids(q) \cap Ids(own) = {} /\ RestingIds(b) = Ids(q) \cup Ids(own)
  BY <1>1, RestingIdsAre DEF GoodBook, Opposite, Side
<1>4. o.id \notin Ids(q) /\ o.id \notin Ids(own)
  BY <1>3
<1>5. /\ DOMAIN c = Side /\ c[opp] = Drained(o, q)
      /\ c[o.side] = IF Rests(o, b) THEN Insert(o.side, own, entry) ELSE own
  <2>1. DOMAIN b = Side
    BY <1>2
  <2> QED BY <1>1, <2>1 DEF BookAfter, Rests
<1>6. RestingIds(c) = Ids(c[opp]) \cup Ids(c[o.side])
  BY <1>1, RestingIdsAre DEF Opposite, Side
<1>7. done \in 0 .. o.quantity /\ (Rests(o, b) <=> o.type = "LIMIT" /\ done < o.quantity)
  <2>1. done \in 0 .. o.quantity
    <3> HIDE DEF q
    <3> QED BY <1>2, MatchCounts
  <2> QED BY <2>1 DEF Rests
<1> HIDE DEF c, q, own
<1>8. /\ Share(o, fills, o.id) = done
      /\ \A i \in 1 .. Len(q) : Share(o, fills, q[i].id) = Taken(o, q, i)
      /\ \A id : id \notin Ids(q) \cup {o.id} => Share(o, fills, id) = 0
  BY <1>2, <1>4, FillsShare
<1>9. /\ \A e \in ToSet(Drained(o, q)) : \E i \in 1 .. Len(q) :
           e.id = q[i].id /\ e.price = q[i].price /\ e.open = q[i].open - Taken(o, q, i)
      /\ \A i \in 1 .. Len(q) :
           Taken(o, q, i) < q[i].open => \E e \in ToSet(Drained(o, q)) : e.id = q[i].id
  BY <1>2, DrainedEntries
<1>10. Rests(o, b) => /\ Ids(c[o.side]) = Ids(own) \cup {o.id}
                      /\ \A e \in ToSet(c[o.side]) : e = entry \/ e \in ToSet(own)
  <2> SUFFICES ASSUME Rests(o, b)
               PROVE  /\ Ids(c[o.side]) = Ids(own) \cup {o.id}
                      /\ \A e \in ToSet(c[o.side]) : e = entry \/ e \in ToSet(own)
    OBVIOUS
  <2>1. entry \in Entry /\ entry.id = o.id
    <3>1. o.quantity - done \in 1 .. MaxQty
      BY <1>1, <1>7
    <3> QED BY <1>1, <3>1 DEF Entry
  <2>2. entry.id \notin Ids(own)
    BY <1>4, <2>1
  <2> HIDE DEF entry
  <2>3. /\ Ids(c[o.side]) = Ids(own) \cup {entry.id}
        /\ \A i \in DOMAIN c[o.side] :
             c[o.side][i] = entry \/ \E j \in DOMAIN own : c[o.side][i] = own[j]
    BY <1>1, <1>2, <1>5, <2>1, <2>2, InsertKeeps
  <2> QED BY <2>1, <2>3 DEF ToSet
<1>11. ASSUME NEW d \in ToSet(own)
       PROVE  /\ d.id # o.id /\ d.open \in Nat /\ Share(o, fills, d.id) = 0
              /\ d.id \in Ids(own) /\ d.open - Share(o, fills, d.id) = d.open
  <2>1. PICK i \in 1 .. Len(own) : d = own[i] /\ DOMAIN own = 1 .. Len(own)
    BY <1>2, EntryFields DEF ToSet
  <2>2. d.id \in Ids(own) /\ d.open \in Nat
    BY <1>2, <2>1, EntryFields DEF Ids
  <2>3. Share(o, fills, d.id) = 0
    BY <1>3, <1>4, <1>8, <2>2
  <2> QED BY <1>4, <2>2, <2>3
<1>12. ASSUME NEW d \in ToSet(q)
       PROVE  \E i \in 1 .. Len(q) :
                /\ d = q[i] /\ d.id \in Ids(q) /\ d.open \in Nat /\ d.price > 0
                /\ Share(o, fills, d.id) = Taken(o, q, i) /\ Taken(o, q, i) \in 0 .. d.open
  <2>1. PICK i \in 1 .. Len(q) : d = q[i] /\ DOMAIN q = 1 .. Len(q)
    BY <1>2, EntryFields DEF ToSet
  <2>2. d.id \in Ids(q) /\ d.open \in Nat /\ Taken(o, q, i) \in 0 .. d.open /\ d.price > 0
    BY <1>2, <2>1, EntryFields, TakenOf DEF Ids, GoodSide
  <2> QED BY <1>8, <2>1, <2>2
<1> HIDE DEF entry
<1>13. ASSUME NEW side \in Side, NEW e \in ToSet(c[side])
       PROVE  \/ /\ e.id = o.id /\ e.price = o.price /\ o.type = "LIMIT"
                 /\ side = o.side /\ e.open = o.quantity - Share(o, fills, o.id)
              \/ \E d \in ToSet(b[side]) :
                   /\ e.id = d.id /\ e.price = d.price
                   /\ e.open = d.open - Share(o, fills, d.id)
  <2>1. CASE side = opp
    <3>1. PICK i \in 1 .. Len(q) :
            e.id = q[i].id /\ e.price = q[i].price /\ e.open = q[i].open - Taken(o, q, i)
      BY <1>5, <1>9, <2>1
    <3>2. q[i] \in ToSet(q)
      BY <1>2, EntryFields DEF ToSet
    <3> QED BY <1>8, <2>1, <3>1, <3>2 DEF q
  <2>2. CASE side = o.side /\ e \in ToSet(own)
    <3>1. e.open = e.open - Share(o, fills, e.id)
      BY <1>11, <2>2
    <3> QED BY <2>2, <3>1 DEF own
  <2>3. CASE side = o.side /\ e \notin ToSet(own)
    <3>1. Rests(o, b)
      BY <1>5, <2>3
    <3>2. e = entry
      BY <1>10, <2>3, <3>1
    <3>3. e.id = o.id /\ e.price = o.price /\ e.open = o.quantity - done
      BY <3>2 DEF entry
    <3> QED BY <1>7, <1>8, <2>3, <3>1, <3>3
  <2> QED BY <1>1, <2>1, <2>2, <2>3
<1>14. ASSUME NEW side \in Side, NEW d \in ToSet(b[side])
       PROVE  /\ d.id # o.id /\ d.open \in Nat
              /\ Share(o, fills, d.id) \in 0 .. d.open
              /\ Share(o, fills, d.id) < d.open => d.id \in RestingIds(c)
  <2>1. CASE side = opp
    <3>1. PICK i \in 1 .. Len(q) :
            /\ d = q[i] /\ d.id \in Ids(q) /\ d.open \in Nat
            /\ Share(o, fills, d.id) = Taken(o, q, i) /\ Taken(o, q, i) \in 0 .. d.open
      BY <1>12, <2>1 DEF q
    <3>2. ASSUME Taken(o, q, i) < d.open PROVE d.id \in RestingIds(c)
      <4>1. PICK e \in ToSet(c[opp]) : e.id = d.id
        BY <1>5, <1>9, <3>1, <3>2
      <4> QED BY <1>6, <4>1 DEF ToSet, Ids
    <3> QED BY <1>4, <3>1, <3>2
  <2>2. CASE side = o.side
    <3>1. d \in ToSet(own)
      BY <2>2 DEF own
    <3>2. d.id # o.id /\ d.open \in Nat /\ Share(o, fills, d.id) = 0 /\ d.id \in Ids(own)
      BY <1>11, <3>1
    <3>3. d.id \in RestingIds(c)
      BY <1>5, <1>6, <1>10, <3>2
    <3> QED BY <3>2, <3>3
  <2> QED BY <1>1, <2>1, <2>2
<1>15. \A id : id \notin RestingIds(b) \cup {o.id} => Share(o, fills, id) = 0
  BY <1>3, <1>8
<1>16. o.type = "LIMIT" /\ Share(o, fills, o.id) < o.quantity => o.id \in RestingIds(c)
  BY <1>6, <1>7, <1>8, <1>10
<1>17. ASSUME NEW f \in ToSet(fills)
       PROVE  /\ Marketable(o, f.price) /\ f.qty \in Nat
              /\ \E d \in ToSet(q) : f.maker = d.id /\ f.price = d.price /\ d.price > 0
  <2>1. PICK i \in DOMAIN fills : f = fills[i]
    BY DEF ToSet
  <2>2. PICK gone \in 0 .. Len(q), traded \in 0 .. Len(q) :
           /\ traded = Cardinality({j \in DOMAIN q : Taken(o, q, j) > 0})
           /\ \A j \in 1 .. Len(q) : j <= traded <=> Taken(o, q, j) > 0
    BY <1>2, FilledIs
  <2>3. i \in 1 .. traded /\ f = [maker |-> q[i].id, price |-> q[i].price, qty |-> Taken(o, q, i)]
    BY <2>1, <2>2 DEF Fills
  <2>4. i \in 1 .. Len(q) /\ Len(q) \in Nat /\ DOMAIN q = 1 .. Len(q) /\ q[i].open \in Nat
        /\ Taken(o, q, i) > 0 /\ Taken(o, q, i) \in 0 .. q[i].open
    <3>1. i \in 1 .. Len(q) /\ i <= traded /\ Len(q) \in Nat
      BY <1>2, <2>2, <2>3, EntryFields
    <3> QED BY <1>2, <2>2, <3>1, EntryFields, TakenOf
  <2>5. Marketable(o, q[i].price)
    BY <1>2, <2>4, TakenOf, ReachFirst
  <2>6. q[i] \in ToSet(q) /\ q[i].price > 0
    BY <1>2, <2>4 DEF ToSet, GoodSide
  <2>7. f.maker = q[i].id /\ f.price = q[i].price /\ f.qty = Taken(o, q, i)
    BY <2>3
  <2>8. f.qty \in Nat
    BY <2>4, <2>7
  <2> QED BY <2>5, <2>6, <2>7, <2>8
<1>18. Share(o, fills, o.id) \in 0 .. o.quantity
  BY <1>7, <1>8
<1> QED BY <1>13, <1>14, <1>15, <1>16, <1>17, <1>18 DEF c, q, Follows

\* A valid order changes the book of its symbol.
LEMMA ExecuteEntries ==
  ASSUME BooksInv, NEW o \in Input, o.type # "CANCEL", Valid(o), Execute(o)
  PROVE  /\ o.symbol \in symbols
         /\ \A t \in symbols : t # o.symbol => books'[t] = books[t]
         /\ Follows(o, result'.trades, books[o.symbol], books'[o.symbol])
<1> DEFINE s == o.symbol
           b == books[s]
<1>1. /\ s \in symbols /\ symbols = DOMAIN books /\ GoodBook(b)
      /\ o.id \notin usedIds /\ AllResting \subseteq usedIds
      /\ o.type = "LIMIT" => o.price > 0
  BY DEF BooksInv, TypeOK, Valid
<1>2. o \in BookOrder
  <2>1. o.type \in OrderType \cup {"CANCEL"}
    BY DEF Input
  <2> QED BY <2>1 DEF BookOrder, Valid
<1>3. /\ books' = [books EXCEPT ![s] = BookAfter(o, b)]
      /\ result'.trades = Fills(o, b[Opposite(o.side)])
  BY <1>1 DEF Execute, Result
<1>4. o.id \notin RestingIds(b)
  BY <1>1 DEF AllResting, Resting
<1>5. Follows(o, Fills(o, b[Opposite(o.side)]), b, BookAfter(o, b))
  BY <1>1, <1>2, <1>4, AfterFollows
<1> QED BY <1>1, <1>3, <1>5

\* A cancel adds no entry to a side.
LEMMA WithoutEntries ==
  ASSUME NEW b, GoodBook(b), NEW id, NEW side \in Side
  PROVE  ToSet(BookWithout(id, b)[side]) \subseteq ToSet(b[side])
<1> DEFINE q == b[side]
           r == BookWithout(id, b)[side]
<1>1. r = Without(q, id)
  BY DEF BookWithout, Without
<1>2. q \in Seq(Entry) /\ IdsApart(q)
  BY DEF GoodBook, GoodSide
<1> HIDE DEF q, r
<1>3. PICK At : Thins(r, q, {id}, At) /\ Picks(r, q, At)
  BY <1>1, <1>2, RemoveThins
<1>4. r \in Seq(Entry) /\ \A i \in 1 .. Len(r) : At[i] \in 1 .. Len(q)
  BY <1>3 DEF Thins
<1>5. DOMAIN r = 1 .. Len(r) /\ DOMAIN q = 1 .. Len(q)
  BY <1>2, <1>4
<1> QED BY <1>3, <1>4, <1>5 DEF ToSet, Picks, q, r

\* A cancel takes one entry or none.
LEMMA CancelEntries ==
  ASSUME BooksInv, NEW s, NEW id, Cancel(s, id)
  PROVE  /\ result'.trades = <<>>
         /\ \A t \in symbols : \A side \in Side : ToSet(books'[t][side]) \subseteq ToSet(books[t][side])
         /\ \A t \in symbols : t # s => books'[t] = books[t]
         /\ \/ /\ result'.status = "CANCELLED" /\ id \in AllResting
               /\ AllResting' = AllResting \ {id}
            \/ result'.status = "REJECTED" /\ UNCHANGED books
<1>1. symbols = DOMAIN books
  BY DEF BooksInv, TypeOK
<1>2. CASE s \in symbols /\ id \in Resting(s)
  <2>1. /\ books' = [books EXCEPT ![s] = BookWithout(id, books[s])]
        /\ result' = Result("CANCELLED", <<>>)
    BY <1>1, <1>2 DEF Cancel
  <2>2. AllResting' = AllResting \ {id} /\ id \in AllResting
    BY <1>1, <1>2, CancelTakes DEF AllResting
  <2>3. ASSUME NEW side \in Side
        PROVE  ToSet(BookWithout(id, books[s])[side]) \subseteq ToSet(books[s][side])
    BY <1>2, WithoutEntries DEF BooksInv
  <2>4. \A t \in symbols : books'[t] = IF t = s THEN BookWithout(id, books[s]) ELSE books[t]
    BY <1>1, <2>1
  <2> QED BY <2>1, <2>2, <2>3, <2>4 DEF Result
<1>3. CASE ~(s \in symbols /\ id \in Resting(s))
  <2>1. result' = Rejected /\ UNCHANGED books
    BY <1>1, <1>3 DEF Cancel
  <2> QED BY <2>1 DEF Rejected, Result
<1> QED BY <1>2, <1>3
==============================================================================
