---------------------------- MODULE BenchmarkProofs ----------------------------
(***************************************************************************)
(* Theorems about Benchmark, for every stream that the generator can make: *)
(* the stream is well formed, the engine rejects what it should, the       *)
(* report agrees with the engine, and the checks at the end pass.  The     *)
(* engine's part of every step is one MatchingEngineProofs is about.       *)
(***************************************************************************)
EXTENDS Benchmark, Sums, SequenceTheorems

MaxQty == Max(LimitQty \cup TakerQty)

E == INSTANCE MatchingEngineProofs WITH
  OrderId <- 1 .. Count,
  Symbol <- Symbol \cup {Unknown},
  Price <- Price \cup {0},
  MaxQty <- MaxQty,
  MaxProcessed <- Count

------------------------------------------------------------------------------
(***************************************************************************)
(* The parameters.                                                         *)
(***************************************************************************)
LEMMA MaxExists ==
  ASSUME NEW S, IsFiniteSet(S), S # {}, S \subseteq Int
  PROVE  Max(S) \in S /\ \A x \in S : x <= Max(S)
<1>1. \E x \in S : \A y \in S : y <= x
  BY GreatestExists
<1>2. \E x \in S : \A y \in S : x >= y
  BY <1>1
<1>3. Max(S) \in S /\ \A y \in S : Max(S) >= y
  BY <1>2 DEF Max
<1> QED BY <1>3

LEMMA QtyBound ==
  /\ MaxQty \in Nat \ {0}
  /\ LimitQty \cup TakerQty \subseteq 1 .. MaxQty
<1>1. /\ LimitQty \cup TakerQty \subseteq Nat \ {0} /\ LimitQty \cup TakerQty # {}
      /\ IsFiniteSet(LimitQty \cup TakerQty)
  BY BenchmarkAssumption
<1> DEFINE Q == LimitQty \cup TakerQty
<1> HIDE DEF Q
<1>2. Max(Q) \in Q /\ \A x \in Q : x <= Max(Q)
  <2>1. Q \subseteq Int
    BY <1>1 DEF Q
  <2> QED BY <1>1, <2>1, MaxExists DEF Q
<1>3. MaxQty = Max(Q) /\ Q \subseteq Nat \ {0}
  BY <1>1 DEF MaxQty, Q
<1> QED BY <1>2, <1>3 DEF Q

\* They are parameters MatchingEngine is about.
LEMMA EngineParameters == E!BoundsAssumption
<1>1. IsFiniteSet(Price \cup {0}) /\ Price \cup {0} \subseteq Int /\ Count \in Nat
  <2>1. IsFiniteSet(Price) /\ Price \subseteq Nat \ {0} /\ Count \in Nat
    BY BenchmarkAssumption
  <2>2. IsFiniteSet(Price \cup {0})
    BY <2>1, FS_AddElement
  <2> QED BY <2>1, <2>2
<1> QED BY <1>1, QtyBound DEF E!BoundsAssumption, E!IsFiniteSet, IsFiniteSet

------------------------------------------------------------------------------
(***************************************************************************)
(* The engine of Benchmark is that of the theorems.                        *)
(***************************************************************************)
\* What the two instances say of a book is the same.
LEMMA SameMatching ==
  /\ \A S : Engine!Cardinality(S) = E!Cardinality(S)
  /\ \A o, q, i : Engine!Taken(o, q, i) = E!Taken(o, q, i)
  /\ \A o, q : Engine!Filled(o, q) = E!Filled(o, q)
  /\ \A s : Engine!Opposite(s) = E!Opposite(s)
<1>1. \A S : Engine!Cardinality(S) = E!Cardinality(S)
  BY DEF Engine!Cardinality, E!Cardinality
<1>2. \A f, S : Engine!SumFunctionOnSet(f, S) = E!SumFunctionOnSet(f, S)
  BY DEF Engine!SumFunctionOnSet, E!SumFunctionOnSet,
         Engine!FoldFunctionOnSet, E!FoldFunctionOnSet,
         Engine!MapThenFoldSet, E!MapThenFoldSet
<1>3. \A q, n : Engine!Depth(q, n) = E!Depth(q, n)
  BY <1>2 DEF Engine!Depth, E!Depth
<1>4. /\ \A s : Engine!Opposite(s) = E!Opposite(s)
      /\ \A a, b : Engine!Lesser(a, b) = E!Lesser(a, b)
      /\ \A s, p, q : Engine!AsGood(s, p, q) <=> E!AsGood(s, p, q)
  BY DEF Engine!Opposite, E!Opposite, Engine!Lesser, E!Lesser, Engine!AsGood, E!AsGood
<1>5. \A o, p : Engine!Marketable(o, p) <=> E!Marketable(o, p)
  BY <1>4 DEF Engine!Marketable, E!Marketable
<1>6. \A o, q : Engine!Reach(o, q) = E!Reach(o, q)
  BY DEF Engine!Reach, E!Reach, Engine!Cardinality, E!Cardinality,
         Engine!Marketable, E!Marketable, Engine!AsGood, E!AsGood,
         Engine!Opposite, E!Opposite
<1>7. \A o, q : Engine!Killed(o, q) <=> E!Killed(o, q)
  BY <1>3, <1>6 DEF Engine!Killed, E!Killed
<1>8. \A o, q, i : Engine!Taken(o, q, i) = E!Taken(o, q, i)
  BY <1>3, <1>4, <1>6, <1>7 DEF Engine!Taken, E!Taken
<1>9. \A o, q : Engine!Filled(o, q) = E!Filled(o, q)
  BY <1>3, <1>4, <1>6, <1>7 DEF Engine!Filled, E!Filled
<1> QED BY <1>1, <1>4, <1>8, <1>9

LEMMA SameBooks ==
  /\ \A o, q : Engine!Fills(o, q) = E!Fills(o, q)
  /\ \A o, q : Engine!Outcome(o, q) = E!Outcome(o, q)
  /\ \A o, b : Engine!BookAfter(o, b) = E!BookAfter(o, b)
  /\ \A id, b : Engine!BookWithout(id, b) = E!BookWithout(id, b)
  /\ \A b : Engine!RestingIds(b) = E!RestingIds(b)
<1>1. \A o, q : Engine!Fills(o, q) = E!Fills(o, q)
  <2> SUFFICES ASSUME NEW o, NEW q PROVE Engine!Fills(o, q) = E!Fills(o, q)
    OBVIOUS
  <2>1. {j \in DOMAIN q : Engine!Taken(o, q, j) > 0} = {j \in DOMAIN q : E!Taken(o, q, j) > 0}
    BY SameMatching
  <2> QED BY <2>1, SameMatching DEF Engine!Fills, E!Fills
<1>2. \A o, q : Engine!Drained(o, q) = E!Drained(o, q)
  <2> SUFFICES ASSUME NEW o, NEW q PROVE Engine!Drained(o, q) = E!Drained(o, q)
    OBVIOUS
  <2> DEFINE a == [i \in DOMAIN q |-> [q[i] EXCEPT !.open = @ - Engine!Taken(o, q, i)]]
             b == [i \in DOMAIN q |-> [q[i] EXCEPT !.open = @ - E!Taken(o, q, i)]]
  <2>1. a = b
    BY SameMatching
  <2> HIDE DEF a, b
  <2>2. Engine!Drained(o, q) =
          SubSeq(a, Engine!Cardinality({i \in DOMAIN q : a[i].open = 0}) + 1, Len(q))
    BY DEF Engine!Drained, a
  <2>3. E!Drained(o, q) =
          SubSeq(b, E!Cardinality({i \in DOMAIN q : b[i].open = 0}) + 1, Len(q))
    BY DEF E!Drained, b
  <2> QED BY <2>1, <2>2, <2>3, SameMatching
<1>3. \A s, q, e : Engine!Insert(s, q, e) = E!Insert(s, q, e)
  BY DEF Engine!Insert, E!Insert, Engine!InsertAt, E!InsertAt, Engine!Cardinality,
         E!Cardinality, Engine!AsGood, E!AsGood
<1>4. \A o, b : Engine!BookAfter(o, b) = E!BookAfter(o, b)
  BY <1>2, <1>3, SameMatching DEF Engine!BookAfter, E!BookAfter
<1>5. \A o, q : Engine!Outcome(o, q) = E!Outcome(o, q)
  BY SameMatching DEF Engine!Outcome, E!Outcome
<1>6. \A id, b : Engine!BookWithout(id, b) = E!BookWithout(id, b)
  BY DEF Engine!BookWithout, E!BookWithout, Engine!RemoveFirstMatch, E!RemoveFirstMatch,
         Engine!SelectInSeq, E!SelectInSeq, Engine!RemoveAt, E!RemoveAt,
         Engine!Min, E!Min, Engine!Side, E!Side
<1>7. \A b : Engine!RestingIds(b) = E!RestingIds(b)
  BY DEF Engine!RestingIds, E!RestingIds, Engine!ToSet, E!ToSet, Engine!Side, E!Side
<1> QED BY <1>1, <1>4, <1>5, <1>6, <1>7

\* So are its calls.
LEMMA SameEngine ==
  /\ Engine!Init <=> E!Init
  /\ \A s : Engine!RegisterSymbol(s) <=> E!RegisterSymbol(s)
  /\ \A o : Engine!SubmitOrder(o) <=> E!SubmitOrder(o)
  /\ Engine!Input = E!Input
  /\ Engine!AllResting = E!AllResting /\ Engine!AllResting' = E!AllResting'
<1>1. Engine!Init <=> E!Init
  BY DEF Engine!Init, E!Init, Engine!Result, E!Result
<1>2. \A s : Engine!RegisterSymbol(s) <=> E!RegisterSymbol(s)
  BY DEF Engine!RegisterSymbol, E!RegisterSymbol, Engine!Emplace, E!Emplace,
         Engine!EmptyBook, E!EmptyBook, Engine!Result, E!Result, Engine!Side, E!Side
<1>3. \A s, id : Engine!Cancel(s, id) <=> E!Cancel(s, id)
  BY SameBooks DEF Engine!Cancel, E!Cancel, Engine!Resting, E!Resting,
         Engine!Result, E!Result, Engine!Rejected, E!Rejected
<1>4. \A o : Engine!Valid(o) <=> E!Valid(o)
  BY DEF Engine!Valid, E!Valid
<1>5. \A o : Engine!Reject(o) <=> E!Reject(o)
  BY DEF Engine!Reject, E!Reject, Engine!Result, E!Result, Engine!Rejected, E!Rejected
<1>6. \A o : Engine!Execute(o) <=> E!Execute(o)
  BY SameBooks, SameMatching
     DEF Engine!Execute, E!Execute, Engine!RecordId, E!RecordId,
         Engine!Result, E!Result, Engine!Rejected, E!Rejected
<1>7. \A o : Engine!SubmitOrder(o) <=> E!SubmitOrder(o)
  BY <1>3, <1>4, <1>5, <1>6 DEF Engine!SubmitOrder, E!SubmitOrder
<1>8. Engine!Input = E!Input
  BY DEF Engine!Input, E!Input, Engine!Side, E!Side, Engine!OrderType, E!OrderType, MaxQty
<1>9. Engine!AllResting = E!AllResting /\ Engine!AllResting' = E!AllResting'
  BY SameBooks DEF Engine!AllResting, E!AllResting, Engine!Resting, E!Resting
<1> QED BY <1>1, <1>2, <1>7, <1>8, <1>9

------------------------------------------------------------------------------
(***************************************************************************)
(* The stream: the inductive invariant of the generator.                   *)
(***************************************************************************)
\* The new orders among the first n.
News(st, n) == {m \in 1 .. n : st[m].type # "CANCEL"}

\* Position l is a valid LIMIT order of a real symbol, with this id.
Aimed(st, l, s, id) == /\ st[l].type = "LIMIT" /\ s \in Symbol
                       /\ st[l].id = id /\ st[l].symbol = s
                       /\ st[l].price > 0 /\ st[l].quantity > 0

Shape == stream \in Seq(E!Input) /\ Len(stream) <= Count

Numbered == /\ idCounter = Cardinality(News(stream, Len(stream)))
            /\ \A n \in 1 .. Len(stream) :
                 stream[n].type # "CANCEL" => stream[n].id = Cardinality(News(stream, n))

Cancels == \A c \in 1 .. Len(stream) : stream[c].type = "CANCEL" =>
             /\ stream[c].quantity = 1
             /\ \E l \in 1 .. (c - 1) : Aimed(stream, l, stream[c].symbol, stream[c].id)
             /\ \A d \in 1 .. Len(stream) :
                  stream[d].type = "CANCEL" /\ stream[d].id = stream[c].id => d = c

\* A remembered order: one in the stream that no CANCEL names.
Remembered(st, p) == /\ \E l \in 1 .. Len(st) : Aimed(st, l, p[1], p[2])
                     /\ \A c \in 1 .. Len(st) :
                          st[c].type = "CANCEL" => st[c].id # p[2]

List == /\ restingOrders \in Seq(Symbol \X Nat)
        /\ \A i \in 1 .. Len(restingOrders) : Remembered(stream, restingOrders[i])
        /\ \A i, j \in 1 .. Len(restingOrders) :
             restingOrders[i][2] = restingOrders[j][2] => i = j

Bounded == /\ Len(restingOrders) <= TrackLimit
           /\ Len(stream) <= Generator!SeedCount => Len(restingOrders) = Len(stream)

GenInv == Shape /\ Numbered /\ Cancels /\ List /\ Bounded

\* The fields of an order of the stream.
LEMMA StreamFields ==
  ASSUME Shape
  PROVE  /\ Len(stream) \in 0 .. Count /\ Count \in Nat /\ DOMAIN stream = 1 .. Len(stream)
         /\ \A n \in 1 .. Len(stream) :
              /\ stream[n] \in E!Input /\ stream[n].id \in 1 .. Count
              /\ stream[n].symbol \in Symbol \cup {Unknown}
              /\ stream[n].side \in Side
              /\ stream[n].type \in OrderType \cup {"CANCEL"}
              /\ stream[n].price \in Price \cup {0}
              /\ stream[n].quantity \in 0 .. MaxQty
<1>1. Count \in Nat
  BY BenchmarkAssumption
<1>2. /\ Len(stream) \in Nat /\ DOMAIN stream = 1 .. Len(stream)
      /\ \A n \in 1 .. Len(stream) : stream[n] \in E!Input
  BY LenProperties DEF Shape
<1>3. ASSUME NEW o \in E!Input
      PROVE  /\ o.id \in 1 .. Count /\ o.symbol \in Symbol \cup {Unknown} /\ o.side \in Side
             /\ o.type \in OrderType \cup {"CANCEL"} /\ o.price \in Price \cup {0}
             /\ o.quantity \in 0 .. MaxQty
  BY DEF E!Input, E!OrderType, E!Side, OrderType, Side
<1> QED BY <1>1, <1>2, <1>3 DEF Shape

\* An order of the stream, from its fields.
LEMMA IsInput ==
  ASSUME NEW id \in 1 .. Count, NEW s \in Symbol \cup {Unknown}, NEW side \in Side,
         NEW type \in OrderType \cup {"CANCEL"}, NEW p \in Price \cup {0},
         NEW q \in 0 .. MaxQty
  PROVE  Generator!Order(id, s, side, type, p, q) \in E!Input
BY DEF Generator!Order, E!Input, E!OrderType, E!Side, OrderType, Side

\* The new orders are counted up.
LEMMA NewsCounted ==
  ASSUME Shape
  PROVE  /\ \A n \in 0 .. Len(stream) : IsFiniteSet(News(stream, n)) /\ Cardinality(News(stream, n)) \in 0 .. n
         /\ \A m, n \in 0 .. Len(stream) :
              m <= n => Cardinality(News(stream, m)) <= Cardinality(News(stream, n))
         /\ \A m, n \in 0 .. Len(stream) :
              m < n /\ stream[n].type # "CANCEL" => Cardinality(News(stream, m)) < Cardinality(News(stream, n))
<1>1. Len(stream) \in Nat
  BY StreamFields
<1>2. ASSUME NEW n \in 0 .. Len(stream)
      PROVE  IsFiniteSet(News(stream, n)) /\ Cardinality(News(stream, n)) \in 0 .. n
  <2>1. IsFiniteSet(1 .. n) /\ Cardinality(1 .. n) = n
    BY FS_Interval
  <2>2. News(stream, n) \subseteq 1 .. n
    BY DEF News
  <2>3. IsFiniteSet(News(stream, n)) /\ Cardinality(News(stream, n)) <= n
    BY <2>1, <2>2, FS_Subset
  <2> QED BY <2>3, FS_CardinalityType
<1>3. ASSUME NEW m \in 0 .. Len(stream), NEW n \in 0 .. Len(stream), m <= n
      PROVE  Cardinality(News(stream, m)) <= Cardinality(News(stream, n))
  <2>1. News(stream, m) \subseteq News(stream, n)
    BY <1>3 DEF News
  <2> QED BY <1>2, <2>1, FS_Subset
<1>4. ASSUME NEW m \in 0 .. Len(stream), NEW n \in 0 .. Len(stream), m < n,
             stream[n].type # "CANCEL"
      PROVE  Cardinality(News(stream, m)) < Cardinality(News(stream, n))
  <2>1. News(stream, m) \subseteq News(stream, n) /\ n \in News(stream, n) /\ n \notin News(stream, m)
    BY <1>4 DEF News
  <2>2. News(stream, m) \cup {n} \subseteq News(stream, n)
    BY <2>1
  <2>3. Cardinality(News(stream, m) \cup {n}) = Cardinality(News(stream, m)) + 1
    BY <1>2, <2>1, FS_AddElement
  <2>4. Cardinality(News(stream, m) \cup {n}) <= Cardinality(News(stream, n))
    BY <1>2, <2>2, FS_Subset
  <2>5. Cardinality(News(stream, m)) \in Nat /\ Cardinality(News(stream, n)) \in Nat
    BY <1>2
  <2> QED BY <2>3, <2>4, <2>5
<1> QED BY <1>2, <1>3, <1>4

\* No two new orders have one id, and no id is ahead of the counter.
LEMMA IdsOfStream ==
  ASSUME Shape, Numbered, Cancels
  PROVE  /\ \A m, n \in News(stream, Len(stream)) : stream[m].id = stream[n].id => m = n
         /\ \A n \in 1 .. Len(stream) : stream[n].id <= idCounter
         /\ idCounter \in 0 .. Len(stream)
<1>1. Len(stream) \in Nat
  BY StreamFields
<1>2. idCounter \in 0 .. Len(stream)
  BY <1>1, NewsCounted DEF Numbered
<1>3. ASSUME NEW m \in News(stream, Len(stream)), NEW n \in News(stream, Len(stream)), m < n
      PROVE  stream[m].id # stream[n].id
  <2>1. /\ m \in 1 .. Len(stream) /\ n \in 1 .. Len(stream)
        /\ m \in 0 .. Len(stream) /\ n \in 0 .. Len(stream)
        /\ stream[m].type # "CANCEL" /\ stream[n].type # "CANCEL"
    BY <1>1 DEF News
  <2>2. /\ Cardinality(News(stream, m)) < Cardinality(News(stream, n))
        /\ Cardinality(News(stream, m)) \in Nat /\ Cardinality(News(stream, n)) \in Nat
    BY <1>3, <2>1, NewsCounted
  <2> QED BY <2>1, <2>2 DEF Numbered
<1>4. ASSUME NEW n \in 1 .. Len(stream), stream[n].type # "CANCEL"
      PROVE  stream[n].id <= idCounter
  <2>1. n \in 0 .. Len(stream) /\ Len(stream) \in 0 .. Len(stream) /\ n <= Len(stream)
    BY <1>1
  <2> QED BY <1>4, <2>1, NewsCounted DEF Numbered
<1>5. ASSUME NEW c \in 1 .. Len(stream), stream[c].type = "CANCEL"
      PROVE  stream[c].id <= idCounter
  <2>1. PICK l \in 1 .. (c - 1) : Aimed(stream, l, stream[c].symbol, stream[c].id)
    BY <1>5 DEF Cancels
  <2>2. l \in 1 .. Len(stream)
    BY <1>1
  <2> QED BY <1>4, <2>1, <2>2 DEF Aimed
<1>6. \A m, n \in News(stream, Len(stream)) : m \in Int /\ n \in Int
  BY DEF News
<1>7. \A m, n \in News(stream, Len(stream)) : stream[m].id = stream[n].id => m = n
  <2> SUFFICES ASSUME NEW m \in News(stream, Len(stream)), NEW n \in News(stream, Len(stream)),
                      stream[m].id = stream[n].id, m # n
               PROVE  FALSE
    OBVIOUS
  <2>1. m < n \/ n < m
    BY <1>6
  <2> QED BY <1>3, <2>1
<1> QED BY <1>2, <1>4, <1>5, <1>7

LEMMA SeedShort ==
  /\ Generator!SeedCount <= Count /\ Generator!SeedCount <= TrackLimit
  /\ Generator!SeedCount \in Int /\ TrackLimit \in Nat /\ TrackLimit >= 1 /\ Count \in Nat
<1>1. /\ Count \in Nat /\ SeedDivisor \in Nat \ {0} /\ SeedLimit \in Nat
      /\ TrackLimit \in Nat \ {0} /\ Lesser(Count \div SeedDivisor, SeedLimit) <= TrackLimit
  BY BenchmarkAssumption
<1>2. Generator!SeedCount = Lesser(Count \div SeedDivisor, SeedLimit)
  BY DEF Generator!SeedCount, Generator!Lesser, Lesser
<1>3. ASSUME NEW n \in Nat, NEW d \in Nat \ {0} PROVE n \div d \in Nat /\ n \div d <= n
  OBVIOUS
<1>4. Count \div SeedDivisor \in Nat /\ Count \div SeedDivisor <= Count
  BY <1>1, <1>3
<1> QED BY <1>1, <1>2, <1>4 DEF Lesser

LEMMA UpToNext ==
  ASSUME NEW n \in Nat
  PROVE  1 .. (n + 1) = (1 .. n) \cup {n + 1} /\ n + 1 \notin 1 .. n /\ 1 .. n \subseteq 0 .. n
OBVIOUS

\* The stream grows at its end.
Grows(o) == /\ Len(stream) < Count /\ o \in E!Input
            /\ stream' = Append(stream, o)

LEMMA GrowsBy ==
  ASSUME Shape, NEW o, Grows(o)
  PROVE  /\ Shape' /\ Len(stream)' = Len(stream) + 1 /\ stream'[Len(stream) + 1] = o
         /\ \A n \in 1 .. Len(stream) : stream'[n] = stream[n]
         /\ \A n \in 0 .. Len(stream) : News(stream', n) = News(stream, n)
         /\ News(stream', Len(stream')) = News(stream, Len(stream)) \cup
              (IF o.type = "CANCEL" THEN {} ELSE {Len(stream) + 1})
         /\ \A l \in 1 .. Len(stream) : \A s, id : Aimed(stream', l, s, id) <=> Aimed(stream, l, s, id)
<1>1. Len(stream) \in Nat /\ Count \in Nat
  BY StreamFields
<1>2. /\ stream' \in Seq(E!Input) /\ Len(stream)' = Len(stream) + 1
      /\ \A n \in 1 .. Len(stream) : stream'[n] = stream[n]
      /\ stream'[Len(stream) + 1] = o
  BY AppendProperties DEF Grows, Shape
<1>3. Shape'
  BY <1>1, <1>2 DEF Shape, Grows
<1>4. \A n \in 0 .. Len(stream) : News(stream', n) = News(stream, n)
  BY <1>1, <1>2 DEF News
<1>5. News(stream', Len(stream')) = News(stream, Len(stream)) \cup
              (IF o.type = "CANCEL" THEN {} ELSE {Len(stream) + 1})
  <2> DEFINE n == Len(stream)
             N == {m \in 1 .. (n + 1) : stream'[m].type # "CANCEL"}
  <2>1. 1 .. (n + 1) = (1 .. n) \cup {n + 1} /\ n + 1 \notin 1 .. n
    BY <1>1, UpToNext
  <2>2. \A m \in 1 .. n : m \in N <=> m \in News(stream, n)
    BY <1>2, <2>1 DEF News
  <2>3. n + 1 \in N <=> o.type # "CANCEL"
    BY <1>2, <2>1
  <2>4. News(stream, n) \subseteq 1 .. n /\ N \subseteq (1 .. n) \cup {n + 1}
    BY <2>1 DEF News
  <2>5. News(stream', Len(stream')) = N
    BY <1>2 DEF News
  <2> HIDE DEF N, n
  <2>6. CASE o.type = "CANCEL"
    BY <2>1, <2>2, <2>3, <2>4, <2>5, <2>6 DEF n
  <2>7. CASE o.type # "CANCEL"
    BY <2>1, <2>2, <2>3, <2>4, <2>5, <2>7 DEF n
  <2> QED BY <2>6, <2>7
<1>6. \A l \in 1 .. Len(stream) : \A s, id : Aimed(stream', l, s, id) <=> Aimed(stream, l, s, id)
  BY <1>2 DEF Aimed
<1> QED BY <1>2, <1>3, <1>4, <1>5, <1>6

\* A new order has the next id.
IsNew(o) == /\ Grows(o) /\ o.type # "CANCEL" /\ o.id = idCounter + 1
            /\ idCounter' = idCounter + 1

LEMMA NewOrderStep ==
  ASSUME GenInv, NEW o, IsNew(o)
  PROVE  /\ Shape' /\ Numbered' /\ Cancels' /\ o.id \in Nat
         /\ \A p : Remembered(stream, p) => Remembered(stream', p) /\ p[2] # o.id
         /\ o.type = "LIMIT" /\ o.symbol \in Symbol /\ o.price > 0 /\ o.quantity > 0 =>
              Remembered(stream', <<o.symbol, o.id>>)
<1> DEFINE n == Len(stream)
<1>1. /\ n \in Nat /\ Len(stream') = n + 1 /\ stream'[n + 1] = o /\ Shape'
      /\ \A m \in 1 .. n : stream'[m] = stream[m]
      /\ \A m \in 0 .. n : News(stream', m) = News(stream, m)
      /\ News(stream', Len(stream')) = News(stream, n) \cup {n + 1}
      /\ \A l \in 1 .. n : \A s, id : Aimed(stream', l, s, id) <=> Aimed(stream, l, s, id)
      /\ o.type # "CANCEL"
  BY GrowsBy, StreamFields DEF GenInv, IsNew
<1>2. /\ idCounter = Cardinality(News(stream, n)) /\ idCounter \in Nat
      /\ \A m \in 1 .. n : stream[m].id <= idCounter /\ stream[m].id \in Nat
  <2>1. \A m \in 1 .. n : stream[m].id \in Nat
    BY StreamFields DEF GenInv
  <2> QED BY <2>1, IdsOfStream DEF GenInv, Numbered
<1>3. o.id = idCounter + 1 /\ idCounter' = idCounter + 1
  BY DEF IsNew
<1> HIDE DEF n
<1>4. 1 .. (n + 1) = (1 .. n) \cup {n + 1}
  BY <1>1, UpToNext
<1>5. Cardinality(News(stream', Len(stream'))) = idCounter + 1
  <2>1. n + 1 \notin News(stream, n)
    BY <1>1 DEF News
  <2>2. IsFiniteSet(News(stream, n))
    <3>1. n \in 0 .. n
      BY <1>1
    <3> QED BY <3>1, NewsCounted DEF GenInv, n
  <2>3. Cardinality(News(stream, n) \cup {n + 1}) = Cardinality(News(stream, n)) + 1
    BY <2>1, <2>2, FS_AddElement
  <2> QED BY <1>1, <1>2, <2>3
<1>6. Numbered'
  <2>1. ASSUME NEW m \in 1 .. n, stream'[m].type # "CANCEL"
        PROVE  stream'[m].id = Cardinality(News(stream', m))
    <3>1. m \in 0 .. n
      BY <1>1
    <3> QED BY <1>1, <2>1, <3>1 DEF GenInv, Numbered, n
  <2>2. News(stream', n + 1) = News(stream', Len(stream'))
    BY <1>1 DEF News
  <2>3. stream'[n + 1].id = Cardinality(News(stream', n + 1))
    BY <1>1, <1>3, <1>5, <2>2
  <2>4. \A m \in 1 .. (n + 1) : stream'[m].type # "CANCEL" => stream'[m].id = Cardinality(News(stream', m))
    BY <1>4, <2>1, <2>3
  <2> QED BY <1>1, <1>3, <1>5, <2>4 DEF Numbered
<1>7. Cancels'
  <2> SUFFICES ASSUME NEW c \in 1 .. (n + 1), stream'[c].type = "CANCEL"
               PROVE  /\ stream'[c].quantity = 1
                      /\ \E l \in 1 .. (c - 1) : Aimed(stream', l, stream'[c].symbol, stream'[c].id)
                      /\ \A d \in 1 .. (n + 1) :
                           stream'[d].type = "CANCEL" /\ stream'[d].id = stream'[c].id => d = c
    BY <1>1 DEF Cancels
  <2>1. c \in 1 .. n /\ stream'[c] = stream[c]
    BY <1>1, <1>4
  <2>2. PICK l \in 1 .. (c - 1) : Aimed(stream, l, stream[c].symbol, stream[c].id)
    BY <2>1 DEF GenInv, Cancels, n
  <2>3. l \in 1 .. n
    BY <1>1, <2>1
  <2>4. Aimed(stream', l, stream'[c].symbol, stream'[c].id)
    <3>1. \A s, id : Aimed(stream, l, s, id) => Aimed(stream', l, s, id)
      BY <1>1, <2>3
    <3>2. Aimed(stream, l, stream'[c].symbol, stream'[c].id)
      BY <2>1, <2>2
    <3> QED BY <1>1, <2>1, <2>2, <2>3 DEF Aimed
  <2>5. ASSUME NEW d \in 1 .. (n + 1), stream'[d].type = "CANCEL", stream'[d].id = stream'[c].id
        PROVE  d = c
    <3>1. d \in 1 .. n /\ stream'[d] = stream[d]
      BY <1>1, <1>4, <2>5
    <3> QED BY <2>1, <2>5, <3>1 DEF GenInv, Cancels, n
  <2> QED BY <2>1, <2>4, <2>5 DEF GenInv, Cancels, n
<1>8. ASSUME NEW p, Remembered(stream, p) PROVE Remembered(stream', p) /\ p[2] # o.id
  <2>1. PICK l \in 1 .. n : Aimed(stream, l, p[1], p[2])
    BY <1>8 DEF Remembered, n
  <2>2. Aimed(stream', l, p[1], p[2]) /\ l \in 1 .. (n + 1)
    BY <1>1, <1>4, <2>1
  <2>3. p[2] # o.id
    BY <1>2, <1>3, <2>1 DEF Aimed
  <2>4. ASSUME NEW c \in 1 .. (n + 1), stream'[c].type = "CANCEL" PROVE stream'[c].id # p[2]
    <3>1. c \in 1 .. n /\ stream'[c] = stream[c]
      BY <1>1, <1>4, <2>4
    <3> QED BY <1>8, <2>4, <3>1 DEF Remembered, n
  <2> QED BY <1>1, <2>2, <2>3, <2>4 DEF Remembered
<1>9. ASSUME o.type = "LIMIT", o.symbol \in Symbol, o.price > 0, o.quantity > 0
      PROVE  Remembered(stream', <<o.symbol, o.id>>)
  <2>1. Aimed(stream', n + 1, o.symbol, o.id)
    BY <1>1, <1>9 DEF Aimed
  <2>2. ASSUME NEW c \in 1 .. (n + 1), stream'[c].type = "CANCEL" PROVE stream'[c].id # o.id
    <3>1. c \in 1 .. n /\ stream'[c] = stream[c]
      BY <1>1, <1>4, <2>2
    <3> QED BY <1>2, <1>3, <3>1
  <2>3. n + 1 \in 1 .. (n + 1)
    BY <1>1
  <2> QED BY <1>1, <2>1, <2>2, <2>3 DEF Remembered
<1> QED BY <1>1, <1>2, <1>3, <1>6, <1>7, <1>8, <1>9

\* The list does not change.
LEMMA ListStays ==
  ASSUME GenInv, NEW o, IsNew(o), UNCHANGED restingOrders
  PROVE  List'
BY NewOrderStep DEF GenInv, List

\* The order joins the list.
LEMMA ListGrows ==
  ASSUME GenInv, NEW o, IsNew(o), o.type = "LIMIT", o.symbol \in Symbol, o.price > 0,
         o.quantity > 0, restingOrders' = Append(restingOrders, <<o.symbol, o.id>>)
  PROVE  List' /\ Len(restingOrders') = Len(restingOrders) + 1
<1> DEFINE n == Len(restingOrders)
           p == <<o.symbol, o.id>>
<1>1. /\ restingOrders \in Seq(Symbol \X Nat) /\ n \in Nat
      /\ \A i \in 1 .. n : Remembered(stream, restingOrders[i])
      /\ \A i, j \in 1 .. n : restingOrders[i][2] = restingOrders[j][2] => i = j
  BY LenProperties DEF GenInv, List
<1>2. p \in Symbol \X Nat /\ Remembered(stream', p) /\ p[2] = o.id
  BY NewOrderStep
<1>3. /\ restingOrders' \in Seq(Symbol \X Nat) /\ Len(restingOrders') = n + 1
      /\ \A i \in 1 .. n : restingOrders'[i] = restingOrders[i]
      /\ restingOrders'[n + 1] = p
  <2> HIDE DEF p
  <2> QED BY <1>1, <1>2, AppendProperties DEF p
<1> HIDE DEF n, p
<1>4. \A i \in 1 .. n : Remembered(stream', restingOrders[i]) /\ restingOrders[i][2] # p[2]
  BY <1>1, <1>2, NewOrderStep
<1>5. 1 .. (n + 1) = (1 .. n) \cup {n + 1} /\ n + 1 \notin 1 .. n
  <2>1. n \in Nat
    BY <1>1
  <2> QED BY <2>1, UpToNext
<1>6. \A i \in 1 .. (n + 1) : Remembered(stream', restingOrders'[i])
  BY <1>2, <1>3, <1>4, <1>5
<1>7. \A i, j \in 1 .. (n + 1) : restingOrders'[i][2] = restingOrders'[j][2] => i = j
  BY <1>1, <1>3, <1>4, <1>5
<1> QED BY <1>3, <1>6, <1>7 DEF List, n

\* makeCancel(): the order it names leaves the list.
LEMMA CancelStep ==
  ASSUME GenInv, NEW i \in DOMAIN restingOrders, Generator!EmitCancel(i)
  PROVE  GenInv'
<1> DEFINE k == Len(restingOrders)
           n == Len(stream)
           p == restingOrders[i]
           o == Generator!Order(p[2], p[1], "BUY", "CANCEL", 0, 1)
<1>1. /\ Generator!SeedCount <= n /\ n < Count /\ stream' = Append(stream, o)
      /\ UNCHANGED idCounter
      /\ restingOrders' = SubSeq([restingOrders EXCEPT ![i] = restingOrders[k]], 1, k - 1)
  <2>1. restingOrders' = SubSeq([restingOrders EXCEPT ![i] = restingOrders[k]], 1,
                                Len([restingOrders EXCEPT ![i] = restingOrders[k]]) - 1)
    BY DEF Generator!EmitCancel, Generator!Removed, Generator!Front, Generator!Last
  <2>2. Len([restingOrders EXCEPT ![i] = restingOrders[k]]) = k
    <3>1. restingOrders \in Seq(Symbol \X Nat) /\ i \in 1 .. k /\ k \in 1 .. k
      BY LenProperties DEF GenInv, List
    <3>2. restingOrders[k] \in Symbol \X Nat
      BY <3>1, ElementOfSeq
    <3> QED BY <3>1, <3>2, ExceptSeq
  <2>3. Generator!SeedCount <= n /\ n < Count /\ stream' = Append(stream, o) /\ UNCHANGED idCounter
    BY DEF Generator!EmitCancel, Generator!Streaming, Generator!Emit
  <2> QED BY <2>1, <2>2, <2>3
<1>2. /\ restingOrders \in Seq(Symbol \X Nat) /\ k \in Nat /\ i \in 1 .. k
      /\ \A j \in 1 .. k : restingOrders[j] \in Symbol \X Nat
      /\ \A j \in 1 .. k : Remembered(stream, restingOrders[j])
      /\ \A j, l \in 1 .. k : restingOrders[j][2] = restingOrders[l][2] => j = l
  BY LenProperties DEF GenInv, List
<1>3. /\ p[1] \in Symbol /\ Remembered(stream, p)
      /\ o.id = p[2] /\ o.symbol = p[1] /\ o.type = "CANCEL" /\ o.quantity = 1
  BY <1>2 DEF Generator!Order
<1>4. PICK t \in 1 .. n : Aimed(stream, t, p[1], p[2])
  BY <1>3 DEF Remembered
<1>5. n \in Nat /\ Len(stream) = n /\ p[2] \in 1 .. Count
  BY <1>4, StreamFields DEF GenInv, Aimed
<1>6. o \in E!Input
  <2>1. 1 \in 0 .. MaxQty /\ "BUY" \in Side
    BY QtyBound DEF Side
  <2> QED BY <1>3, <1>5, <2>1, IsInput
<1> HIDE DEF o
<1>7. Grows(o)
  BY <1>1, <1>6 DEF Grows
<1>8. /\ Shape' /\ Len(stream') = n + 1 /\ stream'[n + 1] = o
      /\ \A m \in 1 .. n : stream'[m] = stream[m]
      /\ \A m \in 0 .. n : News(stream', m) = News(stream, m)
      /\ News(stream', Len(stream')) = News(stream, n)
      /\ \A l \in 1 .. n : \A s, id : Aimed(stream', l, s, id) <=> Aimed(stream, l, s, id)
  BY <1>3, <1>7, GrowsBy DEF GenInv
<1> HIDE DEF n, k, p
<1>9. 1 .. (n + 1) = (1 .. n) \cup {n + 1} /\ n + 1 \notin 1 .. n /\ 1 .. n \subseteq 0 .. n
  BY <1>5, UpToNext
<1>10. Numbered'
  <2>1. \A m \in 1 .. n : stream'[m].type # "CANCEL" =>
          stream'[m].id = Cardinality(News(stream', m))
    BY <1>8, <1>9 DEF GenInv, Numbered, n
  <2> QED BY <1>1, <1>3, <1>8, <1>9, <2>1 DEF GenInv, Numbered, n
<1>11. Cancels'
  <2> SUFFICES ASSUME NEW c \in 1 .. (n + 1), stream'[c].type = "CANCEL"
               PROVE  /\ stream'[c].quantity = 1
                      /\ \E l \in 1 .. (c - 1) : Aimed(stream', l, stream'[c].symbol, stream'[c].id)
                      /\ \A d \in 1 .. (n + 1) :
                           stream'[d].type = "CANCEL" /\ stream'[d].id = stream'[c].id => d = c
    BY <1>8 DEF Cancels
  <2>1. CASE c = n + 1
    <3>1. stream'[c] = o /\ c - 1 = n
      BY <1>5, <1>8, <2>1
    <3>2. Aimed(stream', t, p[1], p[2])
      BY <1>4, <1>8
    <3>3. ASSUME NEW d \in 1 .. (n + 1), stream'[d].type = "CANCEL", stream'[d].id = p[2]
          PROVE  d = c
      <4>1. CASE d \in 1 .. n
        BY <1>3, <1>8, <3>3, <4>1 DEF Remembered, n
      <4> QED BY <1>9, <2>1, <4>1
    <3> QED BY <1>3, <3>1, <3>2, <3>3
  <2>2. CASE c \in 1 .. n
    <3>1. stream'[c] = stream[c]
      BY <1>8, <2>2
    <3>2. PICK l \in 1 .. (c - 1) : Aimed(stream, l, stream[c].symbol, stream[c].id)
      BY <2>2, <3>1 DEF GenInv, Cancels, n
    <3>3. l \in 1 .. n
      BY <1>5, <2>2
    <3>4. Aimed(stream', l, stream'[c].symbol, stream'[c].id)
      BY <1>8, <3>1, <3>2, <3>3
    <3>5. ASSUME NEW d \in 1 .. (n + 1), stream'[d].type = "CANCEL", stream'[d].id = stream'[c].id
          PROVE  d = c
      <4>1. CASE d \in 1 .. n
        BY <1>8, <2>2, <3>1, <3>5, <4>1 DEF GenInv, Cancels, n
      <4>2. CASE d = n + 1
        <5>1. stream[c].id = p[2]
          BY <1>3, <1>8, <3>1, <3>5, <4>2
        <5> QED BY <1>3, <2>2, <3>1, <5>1 DEF Remembered, n
      <4> QED BY <1>9, <4>1, <4>2
    <3> QED BY <2>2, <3>1, <3>4, <3>5 DEF GenInv, Cancels, n
  <2> QED BY <1>9, <2>1, <2>2
<1> DEFINE At(j) == IF j = i THEN k ELSE j
<1>12. /\ restingOrders' \in Seq(Symbol \X Nat) /\ Len(restingOrders') = k - 1 /\ k >= 1
       /\ \A j \in 1 .. (k - 1) : restingOrders'[j] = restingOrders[At(j)]
                                  /\ At(j) \in 1 .. k /\ At(j) # i
  <2> DEFINE r == [restingOrders EXCEPT ![i] = restingOrders[k]]
  <2>1. k \in 1 .. k /\ restingOrders[k] \in Symbol \X Nat
    BY <1>2
  <2>2. r \in Seq(Symbol \X Nat) /\ \A j \in 1 .. k : r[j] = restingOrders[At(j)]
    <3>1. \A j \in 1 .. k : r[j] = IF j = i THEN restingOrders[k] ELSE restingOrders[j]
      BY <1>2, <2>1, ExceptSeq DEF k
    <3> QED BY <1>2, <2>1, <3>1, ExceptSeq DEF k
  <2>3. restingOrders' = SubSeq(r, 1, k - 1)
    BY <1>1
  <2>4. \A j \in 1 .. (k - 1) : r[j] \in Symbol \X Nat /\ j \in 1 .. k
    BY <1>2, <2>1, <2>2
  <2>5. \A j \in 1 .. (k - 1) : At(j) \in 1 .. k /\ At(j) # i
    BY <1>2
  <2> HIDE DEF r, At
  <2>6. /\ restingOrders' \in Seq(Symbol \X Nat)
        /\ Len(restingOrders') = IF 1 <= k - 1 THEN (k - 1) - 1 + 1 ELSE 0
        /\ \A j \in 1 .. (k - 1) - 1 + 1 : restingOrders'[j] = r[1 + j - 1]
    BY <1>2, <2>3, <2>4, SubSeqProperties
  <2>7. /\ k >= 1 /\ (k - 1) - 1 + 1 = k - 1 /\ \A j \in 1 .. (k - 1) : 1 + j - 1 = j
        /\ Len(restingOrders') = k - 1
    BY <1>2, <2>6
  <2>8. \A j \in 1 .. (k - 1) : restingOrders'[j] = r[j]
    BY <2>6, <2>7
  <2> QED BY <2>2, <2>4, <2>5, <2>6, <2>7, <2>8
<1>13. List'
  <2>1. ASSUME NEW j \in 1 .. (k - 1) PROVE Remembered(stream', restingOrders'[j])
    <3> DEFINE q == restingOrders[At(j)]
    <3>1. /\ restingOrders'[j] = q /\ At(j) \in 1 .. k /\ At(j) # i
          /\ Remembered(stream, q) /\ q[2] # p[2]
      BY <1>2, <1>12 DEF p
    <3> HIDE DEF q
    <3>2. PICK l \in 1 .. n : Aimed(stream, l, q[1], q[2])
      BY <3>1 DEF Remembered, n
    <3>3. Aimed(stream', l, q[1], q[2]) /\ l \in 1 .. (n + 1)
      BY <1>8, <1>9, <3>2
    <3>4. ASSUME NEW c \in 1 .. (n + 1), stream'[c].type = "CANCEL"
          PROVE  stream'[c].id # q[2]
      <4>1. CASE c \in 1 .. n
        BY <1>8, <3>1, <3>4, <4>1 DEF Remembered, n
      <4>2. CASE c = n + 1
        BY <1>3, <1>8, <3>1, <4>2
      <4> QED BY <1>9, <4>1, <4>2
    <3> QED BY <1>8, <3>1, <3>3, <3>4 DEF Remembered
  <2>2. ASSUME NEW j \in 1 .. (k - 1), NEW l \in 1 .. (k - 1),
               restingOrders'[j][2] = restingOrders'[l][2]
        PROVE  j = l
    <3>1. At(j) = At(l)
      <4>1. /\ restingOrders[At(j)][2] = restingOrders[At(l)][2]
            /\ At(j) \in 1 .. k /\ At(l) \in 1 .. k
        BY <1>12, <2>2
      <4> HIDE DEF At
      <4> QED BY <1>2, <4>1
    <3> QED BY <1>2, <3>1
  <2> QED BY <1>12, <2>1, <2>2 DEF List
<1>14. Bounded'
  <2>1. Len(restingOrders') <= TrackLimit
    BY <1>2, <1>12, SeedShort DEF GenInv, Bounded, k
  <2>2. ~(Len(stream') <= Generator!SeedCount)
    BY <1>1, <1>5, <1>8, SeedShort
  <2>3. Generator!SeedCount' = Generator!SeedCount
    BY DEF Generator!SeedCount
  <2> QED BY <2>1, <2>2, <2>3 DEF Bounded
<1> QED BY <1>8, <1>10, <1>11, <1>13, <1>14 DEF GenInv

\* What is drawn for a LIMIT order.
LEMMA LimitDrawn ==
  ASSUME GenInv, Len(stream) < Count, NEW s \in Symbol,
         NEW o \in Generator!Draw(s, "LIMIT", Price, LimitQty)
  PROVE  /\ o \in E!Input /\ o.type = "LIMIT" /\ o.symbol = s
         /\ o.id = idCounter + 1 /\ o.price > 0 /\ o.quantity > 0
<1>1. PICK side \in Generator!Side, p \in Price, q \in LimitQty :
        o = Generator!Order(idCounter + 1, s, side, "LIMIT", p, q)
  BY DEF Generator!Draw, Generator!NextId
<1>2. idCounter + 1 \in 1 .. Count
  BY StreamFields, IdsOfStream DEF GenInv
<1>3. side \in Side /\ "LIMIT" \in OrderType \cup {"CANCEL"}
  BY DEF Generator!Side, Side, OrderType
<1>4. p \in Price \cup {0} /\ q \in 0 .. MaxQty /\ p > 0 /\ q > 0
  <2>1. p > 0
    BY BenchmarkAssumption
  <2>2. q \in 1 .. MaxQty
    BY QtyBound
  <2> QED BY <2>1, <2>2, QtyBound
<1>5. o \in E!Input
  BY <1>1, <1>2, <1>3, <1>4, IsInput
<1> QED BY <1>1, <1>4, <1>5 DEF Generator!Order

\* And for the orders that are not remembered.
LEMMA OtherDrawn ==
  ASSUME GenInv, Len(stream) < Count, NEW s \in Symbol,
         NEW o \in Generator!Draw(s, "MARKET", {0}, TakerQty) \cup Generator!InvalidOrders(s)
                     \cup Generator!DrawAggressive(s, "IOC") \cup Generator!DrawAggressive(s, "FOK")
  PROVE  o \in E!Input /\ o.type # "CANCEL" /\ o.id = idCounter + 1
<1>1. idCounter + 1 \in 1 .. Count
  BY StreamFields, IdsOfStream DEF GenInv
<1>2. PICK t \in Symbol \cup {Unknown}, side \in Side, type \in {"LIMIT", "MARKET", "IOC", "FOK"},
           p \in Price \cup {0}, q \in 0 .. MaxQty :
        o = Generator!Order(idCounter + 1, t, side, type, p, q)
  <2>1. CASE o \in Generator!InvalidOrders(s)
    <3> DEFINE p0 == CHOOSE x \in Price : TRUE
               q0 == CHOOSE x \in LimitQty : TRUE
    <3>1. p0 \in Price /\ q0 \in 0 .. MaxQty
      <4>1. Price # {} /\ LimitQty # {}
        BY BenchmarkAssumption
      <4>2. q0 \in 1 .. MaxQty
        BY <4>1, QtyBound
      <4> QED BY <4>1, <4>2, QtyBound
    <3>2. \/ o = Generator!Order(idCounter + 1, s, "BUY", "LIMIT", p0, 0)
          \/ o = Generator!Order(idCounter + 1, s, "SELL", "LIMIT", 0, q0)
          \/ o = Generator!Order(idCounter + 1, Unknown, "BUY", "LIMIT", p0, q0)
      BY <2>1 DEF Generator!InvalidOrders, Generator!NextId
    <3> HIDE DEF p0, q0
    <3>3. /\ "BUY" \in Side /\ "SELL" \in Side /\ 0 \in 0 .. MaxQty
          /\ p0 \in Price \cup {0} /\ 0 \in Price \cup {0}
          /\ s \in Symbol \cup {Unknown} /\ Unknown \in Symbol \cup {Unknown}
          /\ "LIMIT" \in {"LIMIT", "MARKET", "IOC", "FOK"}
      BY <3>1, QtyBound DEF Side
    <3>4. CASE o = Generator!Order(idCounter + 1, s, "BUY", "LIMIT", p0, 0)
      BY <3>3, <3>4
    <3>5. CASE o = Generator!Order(idCounter + 1, s, "SELL", "LIMIT", 0, q0)
      BY <3>1, <3>3, <3>5
    <3>6. CASE o = Generator!Order(idCounter + 1, Unknown, "BUY", "LIMIT", p0, q0)
      BY <3>1, <3>3, <3>6
    <3> QED BY <3>2, <3>4, <3>5, <3>6
  <2>2. CASE \/ o \in Generator!Draw(s, "MARKET", {0}, TakerQty)
             \/ o \in Generator!Draw(s, "IOC", Price, TakerQty)
             \/ o \in Generator!Draw(s, "FOK", Price, TakerQty)
    <3>1. PICK type \in {"MARKET", "IOC", "FOK"}, side \in Side, p \in Price \cup {0}, q \in TakerQty :
            o = Generator!Order(idCounter + 1, s, side, type, p, q)
      BY <2>2 DEF Generator!Draw, Generator!NextId, Generator!Side, Side
    <3>2. q \in 0 .. MaxQty
      <4>1. q \in 1 .. MaxQty
        BY QtyBound
      <4> QED BY <4>1, QtyBound
    <3>3. type \in {"LIMIT", "MARKET", "IOC", "FOK"} /\ s \in Symbol \cup {Unknown}
      BY <3>1
    <3> QED BY <3>1, <3>2, <3>3
  <2> QED BY <2>1, <2>2 DEF Generator!DrawAggressive
<1>3. type \in OrderType \cup {"CANCEL"} /\ type # "CANCEL"
  BY DEF OrderType
<1>4. o \in E!Input
  BY <1>1, <1>2, <1>3, IsInput
<1> QED BY <1>2, <1>3, <1>4 DEF Generator!Order

\* Every order of generate().
LEMMA GenerateKeeps ==
  ASSUME GenInv, Generator!Next
  PROVE  GenInv' /\ Len(stream) < Count
<1>1. PICK s \in Symbol :
        \/ \E o \in Generator!Draw(s, "LIMIT", Price, LimitQty) :
             Generator!SeedOrder(o) \/ Generator!EmitLimit(o) \/ Generator!EmitInstead(o)
        \/ \E o \in Generator!Draw(s, "MARKET", {0}, TakerQty) \cup Generator!InvalidOrders(s)
                      \cup Generator!DrawAggressive(s, "IOC") \cup Generator!DrawAggressive(s, "FOK") :
             Generator!EmitOther(o)
        \/ \E i \in DOMAIN restingOrders : Generator!EmitCancel(i)
  BY DEF Generator!Next
<1>2. /\ Len(stream) \in Nat /\ Len(restingOrders) \in Nat
      /\ Generator!SeedCount \in Int /\ Generator!SeedCount <= Count
      /\ Generator!SeedCount <= TrackLimit /\ Count \in Nat /\ TrackLimit \in Nat
      /\ Generator!SeedCount' = Generator!SeedCount
      /\ Len(restingOrders) <= TrackLimit
      /\ Len(stream) <= Generator!SeedCount => Len(restingOrders) = Len(stream)
  <2>1. Len(restingOrders) \in Nat
    BY LenProperties DEF GenInv, List
  <2>2. Generator!SeedCount' = Generator!SeedCount
    BY DEF Generator!SeedCount
  <2>3. Len(stream) \in Nat
    BY StreamFields DEF GenInv
  <2> QED BY <2>1, <2>2, <2>3, SeedShort DEF GenInv, Bounded
<1>3. ASSUME NEW o \in Generator!Draw(s, "LIMIT", Price, LimitQty), Len(stream) < Count,
             Generator!EmitNew(o), restingOrders' = Append(restingOrders, <<o.symbol, o.id>>),
             Len(restingOrders) + 1 <= TrackLimit,
             Len(stream) < Generator!SeedCount \/ Generator!SeedCount <= Len(stream)
      PROVE  GenInv'
  <2>1. /\ IsNew(o) /\ o.type = "LIMIT" /\ o.symbol \in Symbol /\ o.price > 0 /\ o.quantity > 0
    BY <1>3, LimitDrawn DEF IsNew, Grows, Generator!EmitNew, Generator!Emit, Generator!NextId
  <2>2. Shape' /\ Numbered' /\ Cancels' /\ Len(stream') = Len(stream) + 1
    BY <2>1, NewOrderStep, GrowsBy DEF IsNew, GenInv
  <2>3. List' /\ Len(restingOrders') = Len(restingOrders) + 1
    BY <1>3, <2>1, ListGrows
  <2>4. Bounded'
    BY <1>2, <1>3, <2>2, <2>3 DEF Bounded
  <2> QED BY <2>2, <2>3, <2>4 DEF GenInv
<1>4. ASSUME NEW o, IsNew(o), UNCHANGED restingOrders, Generator!SeedCount <= Len(stream)
      PROVE  GenInv'
  <2>1. Shape' /\ Numbered' /\ Cancels' /\ Len(stream') = Len(stream) + 1
    BY <1>4, NewOrderStep, GrowsBy DEF IsNew, GenInv
  <2>2. List'
    BY <1>4, ListStays
  <2>3. Bounded'
    BY <1>2, <1>4, <2>1 DEF Bounded
  <2> QED BY <2>1, <2>2, <2>3 DEF GenInv
<1>5. ASSUME NEW o \in Generator!Draw(s, "LIMIT", Price, LimitQty), Generator!SeedOrder(o)
      PROVE  GenInv' /\ Len(stream) < Count
  <2>1. /\ Len(stream) < Generator!SeedCount /\ Generator!EmitNew(o)
        /\ restingOrders' = Append(restingOrders, <<o.symbol, o.id>>)
    BY <1>5 DEF Generator!SeedOrder, Generator!Seeding, Generator!Remember
  <2>2. Len(stream) < Count /\ Len(restingOrders) + 1 <= TrackLimit
    BY <1>2, <2>1
  <2> QED BY <1>3, <2>1, <2>2
<1>6. ASSUME NEW o \in Generator!Draw(s, "LIMIT", Price, LimitQty), Generator!EmitLimit(o)
      PROVE  GenInv' /\ Len(stream) < Count
  <2>1. /\ Generator!SeedCount <= Len(stream) /\ Len(stream) < Count /\ Generator!EmitNew(o)
        /\ restingOrders' = IF Len(restingOrders) < TrackLimit
                            THEN Append(restingOrders, <<o.symbol, o.id>>) ELSE restingOrders
    BY <1>6 DEF Generator!EmitLimit, Generator!Streaming, Generator!Track, Generator!Remember
  <2>2. CASE Len(restingOrders) < TrackLimit
    BY <1>2, <1>3, <2>1, <2>2
  <2>3. CASE ~(Len(restingOrders) < TrackLimit)
    <3>1. IsNew(o)
      BY <2>1, LimitDrawn DEF IsNew, Grows, Generator!EmitNew, Generator!Emit, Generator!NextId
    <3> QED BY <1>4, <2>1, <2>3, <3>1
  <2> QED BY <2>1, <2>2, <2>3
<1>7. ASSUME NEW o \in Generator!Draw(s, "LIMIT", Price, LimitQty), Generator!EmitInstead(o)
      PROVE  GenInv' /\ Len(stream) < Count
  <2>1. /\ Generator!SeedCount <= Len(stream) /\ Len(stream) < Count /\ Generator!EmitNew(o)
        /\ restingOrders' = Append(restingOrders, <<o.symbol, o.id>>) /\ restingOrders = <<>>
    BY <1>7 DEF Generator!EmitInstead, Generator!Streaming, Generator!Remember
  <2>2. Len(restingOrders) + 1 <= TrackLimit
    BY <2>1, SeedShort
  <2> QED BY <1>3, <2>1, <2>2
<1>8. ASSUME NEW o \in Generator!Draw(s, "MARKET", {0}, TakerQty) \cup Generator!InvalidOrders(s)
                      \cup Generator!DrawAggressive(s, "IOC") \cup Generator!DrawAggressive(s, "FOK"),
             Generator!EmitOther(o)
      PROVE  GenInv' /\ Len(stream) < Count
  <2>1. /\ Generator!SeedCount <= Len(stream) /\ Len(stream) < Count /\ Generator!EmitNew(o)
        /\ UNCHANGED restingOrders
    BY <1>8 DEF Generator!EmitOther, Generator!Streaming
  <2>2. IsNew(o)
    BY <2>1, OtherDrawn DEF IsNew, Grows, Generator!EmitNew, Generator!Emit, Generator!NextId
  <2> QED BY <1>4, <2>1, <2>2
<1>9. ASSUME NEW i \in DOMAIN restingOrders, Generator!EmitCancel(i)
      PROVE  GenInv' /\ Len(stream) < Count
  BY <1>9, CancelStep DEF Generator!EmitCancel, Generator!Streaming
<1> QED BY <1>1, <1>5, <1>6, <1>7, <1>8, <1>9

------------------------------------------------------------------------------
(***************************************************************************)
(* The run: what the engine and the report hold, in terms of the stream.   *)
(***************************************************************************)
\* The orders among the first n that the engine executes.
Executed(n) == {m \in News(stream, n) : ~IsInvalid(stream[m])}

Progress == /\ submitted \in 0 .. Len(stream) /\ submitted = ordersProcessed
            /\ symbols \subseteq Symbol
            /\ submitted > 0 => Generated /\ symbols = Symbol

UsedAre == usedIds = {stream[m].id : m \in Executed(submitted)}

RestingAre == \A s \in symbols : \A id \in E!Resting(s) :
                \E m \in News(stream, submitted) : stream[m].id = id /\ stream[m].symbol = s

Accounts == /\ allTrades \in Seq(E!Trade) /\ CheckTrades(allTrades)
            /\ counted \in [accepted : Nat, rejected : Nat, cancels : Nat, trades : Nat]
            /\ acceptedIds \in Seq(1 .. Count) /\ ToSet(acceptedIds) \subseteq usedIds
            /\ CheckUniqueIds(acceptedIds)
            /\ ReportAgrees

RunInv == Progress /\ UsedAre /\ RestingAre /\ Accounts

IInv == GenInv /\ E!IInv /\ RunInv /\ report # "failed"

\* What E!IInv says, without the prefix.
LEMMA EngineFacts ==
  ASSUME E!IInv
  PROVE  /\ E!BooksInv /\ symbols = DOMAIN books
         /\ \A s \in symbols : E!GoodBook(books[s])
         /\ E!AllResting \subseteq usedIds
         /\ \A s \in symbols : E!Resting(s) \subseteq E!AllResting
         /\ tradesGenerated \in Nat /\ ordersProcessed \in Nat
         /\ result.status \in OrderStatus
BY DEF E!IInv, E!BooksInv, E!TypeOK, E!AllResting, E!OrderStatus, OrderStatus

\* One more element, or a sequence more.
LEMMA OneMore ==
  ASSUME NEW S, NEW q \in Seq(S), NEW e \in S
  PROVE  /\ Append(q, e) \in Seq(S) /\ Len(Append(q, e)) = Len(q) + 1
         /\ ToSet(Append(q, e)) = ToSet(q) \cup {e}
<1>1. /\ Append(q, e) \in Seq(S) /\ Len(Append(q, e)) = Len(q) + 1
      /\ \A i \in 1 .. Len(q) : Append(q, e)[i] = q[i]
      /\ Append(q, e)[Len(q) + 1] = e
  BY AppendProperties
<1>2. Len(q) \in Nat /\ DOMAIN q = 1 .. Len(q) /\ DOMAIN Append(q, e) = 1 .. (Len(q) + 1)
  BY <1>1, LenProperties
<1>3. ToSet(Append(q, e)) = ToSet(q) \cup {e}
  BY <1>1, <1>2 DEF ToSet
<1> QED BY <1>1, <1>3

LEMMA ManyMore ==
  ASSUME NEW S, NEW q \in Seq(S), NEW r \in Seq(S)
  PROVE  /\ q \o r \in Seq(S) /\ Len(q \o r) = Len(q) + Len(r)
         /\ ToSet(q \o r) = ToSet(q) \cup ToSet(r)
<1>1. /\ q \o r \in Seq(S) /\ Len(q \o r) = Len(q) + Len(r)
      /\ \A i \in 1 .. (Len(q) + Len(r)) :
           (q \o r)[i] = IF i <= Len(q) THEN q[i] ELSE r[i - Len(q)]
  BY ConcatProperties
<1>2. /\ Len(q) \in Nat /\ DOMAIN q = 1 .. Len(q) /\ Len(r) \in Nat /\ DOMAIN r = 1 .. Len(r)
      /\ DOMAIN (q \o r) = 1 .. (Len(q) + Len(r))
  BY <1>1, LenProperties
<1>3. ToSet(q \o r) \subseteq ToSet(q) \cup ToSet(r)
  <2> SUFFICES ASSUME NEW i \in 1 .. (Len(q) + Len(r))
               PROVE  (q \o r)[i] \in ToSet(q) \cup ToSet(r)
    BY <1>2 DEF ToSet
  <2>1. i <= Len(q) => i \in 1 .. Len(q)
    BY <1>2
  <2>2. ~(i <= Len(q)) => i - Len(q) \in 1 .. Len(r)
    BY <1>2
  <2> QED BY <1>1, <1>2, <2>1, <2>2 DEF ToSet
<1>4. ASSUME NEW i \in 1 .. Len(q) PROVE q[i] \in ToSet(q \o r)
  <2>1. i \in 1 .. (Len(q) + Len(r)) /\ i <= Len(q)
    BY <1>2
  <2> QED BY <1>1, <1>2, <2>1 DEF ToSet
<1>5. ASSUME NEW i \in 1 .. Len(r) PROVE r[i] \in ToSet(q \o r)
  <2>1. /\ Len(q) + i \in 1 .. (Len(q) + Len(r)) /\ ~(Len(q) + i <= Len(q))
        /\ Len(q) + i - Len(q) = i
    BY <1>2
  <2>2. (q \o r)[Len(q) + i] = r[i]
    BY <1>1, <2>1
  <2> QED BY <1>2, <2>1, <2>2 DEF ToSet
<1>6. ToSet(q) \subseteq ToSet(q \o r) /\ ToSet(r) \subseteq ToSet(q \o r)
  BY <1>2, <1>4, <1>5 DEF ToSet
<1> QED BY <1>1, <1>3, <1>6

------------------------------------------------------------------------------
(***************************************************************************)
(* Submit.  The order is new, or a CANCEL of an order executed before.     *)
(***************************************************************************)
LEMMA NextOrder ==
  ASSUME GenInv, E!IInv, RunInv, Submit
  PROVE  LET n == submitted + 1
             o == stream[n]
         IN  /\ n \in 1 .. Len(stream) /\ symbols = Symbol /\ o \in E!Input
             /\ E!SubmitOrder(o) /\ E!IInv' /\ E!Traceable
             /\ ordersProcessed' = n /\ submitted' = n
             /\ acceptedIds' = IF IsListed(result'.status) THEN Append(acceptedIds, o.id)
                               ELSE acceptedIds
             /\ counted' = Counted(result') /\ allTrades' = allTrades \o result'.trades
             /\ UNCHANGED <<stream, restingOrders, idCounter, report>>
<1> DEFINE n == submitted + 1
           o == stream[n]
<1>1. /\ Generated /\ symbols = Symbol /\ submitted < Count /\ Engine!SubmitOrder(o)
      /\ acceptedIds' = IF IsListed(result'.status) THEN Append(acceptedIds, o.id)
                        ELSE acceptedIds
      /\ submitted' = n /\ counted' = Counted(result')
      /\ allTrades' = allTrades \o result'.trades
      /\ UNCHANGED <<stream, restingOrders, idCounter, report>>
  BY DEF Submit, generatorVars
<1>2. submitted \in 0 .. Len(stream) /\ Len(stream) = Count /\ submitted = ordersProcessed
  BY <1>1 DEF RunInv, Progress, Generated
<1>3. n \in 1 .. Len(stream)
  BY <1>1, <1>2, StreamFields DEF GenInv
<1>4. o \in E!Input
  BY <1>3, StreamFields DEF GenInv
<1>5. E!SubmitOrder(o)
  BY <1>1, SameEngine
<1>6. E!IInv' /\ E!Traceable
  BY <1>4, <1>5, E!NextKeeps, EngineParameters DEF E!Next
<1>7. ordersProcessed' = n
  BY <1>2, <1>5 DEF E!SubmitOrder
<1> QED BY <1>1, <1>3, <1>4, <1>5, <1>6, <1>7

\* Which orders of the stream are valid when their turn comes.
LEMMA ValidWhenDue ==
  ASSUME GenInv, RunInv, symbols = Symbol, NEW n, n = submitted + 1, n \in 1 .. Len(stream),
         stream[n].type # "CANCEL"
  PROVE  /\ E!Valid(stream[n]) <=> ~IsInvalid(stream[n])
         /\ stream[n].id \notin usedIds
<1> DEFINE o == stream[n]
<1>1. /\ o.quantity \in Nat /\ o.price \in Nat /\ o.symbol \in Symbol \cup {Unknown}
      /\ Unknown \notin Symbol
  <2>1. o.quantity \in 0 .. MaxQty /\ o.price \in Price \cup {0} /\ o.symbol \in Symbol \cup {Unknown}
    BY StreamFields DEF GenInv
  <2>2. Price \cup {0} \subseteq Nat /\ Unknown \notin Symbol
    BY BenchmarkAssumption
  <2> HIDE DEF o
  <2> QED BY <2>1, <2>2, QtyBound
<1>2. o.id \notin usedIds
  <2>1. SUFFICES ASSUME NEW m \in Executed(submitted), stream[m].id = o.id PROVE FALSE
    BY DEF RunInv, UsedAre
  <2>2. m < n /\ m \in News(stream, Len(stream)) /\ n \in News(stream, Len(stream))
    BY StreamFields DEF Executed, News, RunInv, Progress, GenInv
  <2>3. m # n
    BY <2>2 DEF News
  <2> QED BY <2>1, <2>2, <2>3, IdsOfStream DEF GenInv
<1>3. E!Valid(o) <=> /\ o.quantity > 0 /\ (o.type = "LIMIT" => o.price > 0)
                     /\ o.symbol \in symbols /\ o.id \notin usedIds
  BY DEF E!Valid
<1>4. IsInvalid(o) <=> o.symbol = Unknown \/ (o.type = "LIMIT" /\ o.price = 0) \/ o.quantity = 0
  BY DEF IsInvalid
<1> HIDE DEF o
<1> QED BY <1>1, <1>2, <1>3, <1>4 DEF o

\* What a CANCEL of the stream finds when its turn comes.
LEMMA CancelWhenDue ==
  ASSUME GenInv, E!IInv, RunInv, symbols = Symbol, NEW n, n = submitted + 1,
         n \in 1 .. Len(stream), stream[n].type = "CANCEL"
  PROVE  /\ ~IsInvalid(stream[n]) /\ stream[n].symbol \in symbols
         /\ stream[n].id \in E!Resting(stream[n].symbol) <=> ~TradedOut(stream[n].id)
<1> DEFINE o == stream[n]
<1>1. PICK l \in 1 .. (n - 1) : Aimed(stream, l, o.symbol, o.id)
  BY DEF GenInv, Cancels
<1>2. /\ stream[l].type = "LIMIT" /\ o.symbol \in Symbol /\ stream[l].id = o.id
      /\ stream[l].symbol = o.symbol /\ stream[l].price > 0 /\ stream[l].quantity > 0
  BY <1>1 DEF Aimed
<1>3. o.quantity = 1 /\ Unknown \notin Symbol
  BY BenchmarkAssumption DEF GenInv, Cancels
<1>4. ~IsInvalid(o)
  BY <1>2, <1>3 DEF IsInvalid
<1>5. submitted \in Nat /\ l \in 1 .. submitted /\ l \in 1 .. Len(stream)
  BY StreamFields DEF RunInv, Progress, GenInv
<1>6. l \in Executed(submitted)
  BY <1>2, <1>3, <1>5 DEF Executed, News, IsInvalid
<1>7. o.id \in usedIds
  BY <1>2, <1>6 DEF RunInv, UsedAre
<1>8. o.id \in E!AllResting => o.id \in E!Resting(o.symbol)
  <2> SUFFICES ASSUME NEW t \in symbols, o.id \in E!Resting(t) PROVE t = o.symbol
    BY DEF E!AllResting
  <2>1. PICK m \in News(stream, submitted) : stream[m].id = o.id /\ stream[m].symbol = t
    BY DEF RunInv, RestingAre
  <2>2. m \in News(stream, Len(stream)) /\ l \in News(stream, Len(stream))
    BY <1>2, <1>5, StreamFields DEF News, RunInv, Progress, GenInv
  <2>3. m = l
    BY <1>2, <2>1, <2>2, IdsOfStream DEF GenInv
  <2> QED BY <1>2, <2>1, <2>3
<1>9. o.id \in E!Resting(o.symbol) => o.id \in E!AllResting
  BY <1>2, EngineFacts
<1> QED BY <1>2, <1>4, <1>7, <1>8, <1>9, SameEngine DEF TradedOut

\* One order more of the stream has had its turn.
LEMMA OneMoreExecuted ==
  ASSUME Shape, UNCHANGED stream, NEW n \in 1 .. Len(stream)
  PROVE  /\ News(stream, n) = News(stream, n - 1) \cup
                                (IF stream[n].type = "CANCEL" THEN {} ELSE {n})
         /\ Executed(n) = Executed(n - 1) \cup
              (IF stream[n].type = "CANCEL" \/ IsInvalid(stream[n]) THEN {} ELSE {n})
         /\ Executed(n)' = Executed(n)
<1>1. 1 .. n = (1 .. (n - 1)) \cup {n}
  BY StreamFields
<1>2. News(stream, n) = News(stream, n - 1) \cup
                          (IF stream[n].type = "CANCEL" THEN {} ELSE {n})
  BY <1>1 DEF News
<1>3. Executed(n) = Executed(n - 1) \cup
              (IF stream[n].type = "CANCEL" \/ IsInvalid(stream[n]) THEN {} ELSE {n})
  BY <1>2 DEF Executed
<1>4. Executed(n)' = Executed(n)
  BY DEF Executed, IsInvalid
<1> QED BY <1>2, <1>3, <1>4

\* What the engine answers, and does.
LEMMA SubmitAnswers ==
  ASSUME GenInv, E!IInv, RunInv, Submit
  PROVE  LET o     == stream[submitted + 1]
             fresh == o.type # "CANCEL" /\ ~IsInvalid(o)
             its   == IF fresh THEN {o.id} ELSE {}
         IN  /\ result'.trades \in Seq(E!Trade)
             /\ tradesGenerated' = tradesGenerated + Len(result'.trades)
             /\ UNCHANGED symbols /\ usedIds' = usedIds \cup its
             /\ fresh => o.id \notin usedIds
             /\ \A s \in symbols : E!Resting(s)' \subseteq
                                     E!Resting(s) \cup (IF s = o.symbol THEN its ELSE {})
             /\ E!AllResting' \subseteq
                  E!AllResting \cup (IF IsListed(result'.status) THEN {o.id} ELSE {})
             /\ IsListed(result'.status) => fresh
             /\ result'.status = "REJECTED" <=>
                  IsInvalid(o) \/ (o.type = "CANCEL" /\ TradedOut(o.id))
<1> DEFINE n == submitted + 1
<1>0. PICK o : o = stream[n]
  OBVIOUS
<1> DEFINE fresh == o.type # "CANCEL" /\ ~IsInvalid(o)
           its == IF fresh THEN {o.id} ELSE {}
<1>1. /\ n \in 1 .. Len(stream) /\ symbols = Symbol /\ o \in E!Input /\ E!SubmitOrder(o)
  BY <1>0, NextOrder
<1>2. E!BooksInv /\ tradesGenerated \in Nat /\ \A s \in symbols : E!Resting(s) \subseteq E!AllResting
  BY EngineFacts
<1> HIDE DEF n
<1>3. CASE o.type = "CANCEL" /\ E!Cancel(o.symbol, o.id)
  <2>1. /\ ~IsInvalid(o) /\ o.symbol \in symbols
        /\ o.id \in E!Resting(o.symbol) <=> ~TradedOut(o.id)
    BY <1>0, <1>1, <1>3, CancelWhenDue DEF n
  <2>2. /\ result'.trades = <<>> /\ UNCHANGED <<symbols, usedIds, tradesGenerated>>
        /\ result'.status = IF o.symbol \in symbols /\ o.id \in E!Resting(o.symbol)
                            THEN "CANCELLED" ELSE "REJECTED"
        /\ \A t \in symbols : E!Resting(t)' \subseteq E!Resting(t)
        /\ E!AllResting' \subseteq E!AllResting
    BY <1>2, <1>3, E!CancelAnswers, EngineParameters
  <2>3. result'.trades \in Seq(E!Trade) /\ Len(result'.trades) = 0
    BY <2>2
  <2>4. ~IsListed(result'.status) /\ (result'.status = "REJECTED" <=> TradedOut(o.id))
    BY <2>1, <2>2 DEF IsListed
  <2>5. ~fresh /\ its = {}
    BY <1>3
  <2> HIDE DEF fresh, its
  <2>6. /\ tradesGenerated' = tradesGenerated + Len(result'.trades)
        /\ usedIds' = usedIds \cup its
    BY <1>2, <2>2, <2>3, <2>5
  <2>7. \A s \in symbols : E!Resting(s)' \subseteq
                             E!Resting(s) \cup (IF s = o.symbol THEN its ELSE {})
    BY <2>2
  <2> QED BY <1>0, <1>3, <2>1, <2>2, <2>3, <2>4, <2>5, <2>6, <2>7 DEF n, fresh, its
<1>4. CASE o.type # "CANCEL" /\ E!Valid(o) /\ E!Execute(o)
  <2>1. ~IsInvalid(o) /\ o.id \notin usedIds
    BY <1>0, <1>1, <1>4, ValidWhenDue DEF n
  <2>2. /\ result'.trades \in Seq(E!Trade)
        /\ tradesGenerated' = tradesGenerated + Len(result'.trades)
        /\ result'.status # "REJECTED" /\ usedIds' = usedIds \cup {o.id}
        /\ UNCHANGED symbols /\ o.symbol \in symbols
        /\ \A s \in symbols : s # o.symbol => E!Resting(s)' = E!Resting(s)
        /\ E!Resting(o.symbol)' \subseteq E!Resting(o.symbol) \cup {o.id}
        /\ o.id \in E!Resting(o.symbol)' => result'.status \in {"ACCEPTED", "PARTIALLY_FILLED"}
    BY <1>1, <1>2, <1>4, E!ExecuteAnswers, EngineParameters
  <2>3. fresh /\ its = {o.id}
    BY <1>4, <2>1
  <2> HIDE DEF fresh, its
  <2>4. \A s \in symbols : E!Resting(s)' \subseteq
                             E!Resting(s) \cup (IF s = o.symbol THEN its ELSE {})
    BY <2>2, <2>3
  <2>5. E!AllResting' \subseteq
          E!AllResting \cup (IF IsListed(result'.status) THEN {o.id} ELSE {})
    <3>1. E!AllResting' = UNION {E!Resting(s)' : s \in symbols}
      BY <2>2 DEF E!AllResting
    <3>2. ASSUME NEW s \in symbols, NEW id \in E!Resting(s)'
          PROVE  id \in E!AllResting \cup (IF IsListed(result'.status) THEN {o.id} ELSE {})
      BY <1>2, <2>2, <3>2 DEF IsListed
    <3> QED BY <3>1, <3>2
  <2> QED BY <1>0, <1>4, <2>1, <2>2, <2>3, <2>4, <2>5 DEF n, fresh, its
<1>5. CASE o.type # "CANCEL" /\ ~E!Valid(o) /\ E!Reject(o)
  <2>1. IsInvalid(o)
    BY <1>0, <1>1, <1>5, ValidWhenDue DEF n
  <2>2. /\ result'.trades = <<>> /\ result'.status = "REJECTED"
        /\ UNCHANGED <<books, symbols, usedIds, tradesGenerated>>
    BY <1>5 DEF E!Reject, E!Rejected, E!Result
  <2>3. result'.trades \in Seq(E!Trade) /\ Len(result'.trades) = 0
    BY <2>2
  <2>4. ~fresh /\ its = {} /\ ~IsListed(result'.status)
    BY <2>1, <2>2 DEF IsListed
  <2>5. E!AllResting' = E!AllResting /\ \A s \in symbols : E!Resting(s)' = E!Resting(s)
    BY <2>2 DEF E!AllResting, E!Resting
  <2> HIDE DEF fresh, its
  <2>6. /\ tradesGenerated' = tradesGenerated + Len(result'.trades)
        /\ usedIds' = usedIds \cup its
    BY <1>2, <2>2, <2>3, <2>4
  <2> QED BY <1>0, <1>5, <2>1, <2>2, <2>3, <2>4, <2>5, <2>6 DEF n, fresh, its
<1> QED BY <1>1, <1>3, <1>4, <1>5 DEF E!SubmitOrder

\* The stream is untouched, and so is what is said of it.
LEMMA GenStays == GenInv /\ UNCHANGED <<stream, restingOrders, idCounter>> => GenInv'
BY DEF GenInv, Shape, Numbered, Cancels, List, Bounded, Remembered, Aimed, News,
       Generator!SeedCount

LEMMA SubmitProgress ==
  ASSUME GenInv, E!IInv, RunInv, Submit
  PROVE  Progress' /\ UsedAre' /\ RestingAre'
<1>0. PICK n : n = submitted + 1
  OBVIOUS
<1>1. PICK o : o = stream[n]
  OBVIOUS
<1> DEFINE fresh == o.type # "CANCEL" /\ ~IsInvalid(o)
           its == IF fresh THEN {o.id} ELSE {}
<1>2. /\ n \in 1 .. Len(stream) /\ symbols = Symbol /\ ordersProcessed' = n /\ submitted' = n
      /\ UNCHANGED stream /\ Generated
  BY <1>0, NextOrder DEF Submit
<1>3. /\ UNCHANGED symbols /\ usedIds' = usedIds \cup its
      /\ \A s \in symbols : E!Resting(s)' \subseteq
                              E!Resting(s) \cup (IF s = o.symbol THEN its ELSE {})
  BY <1>0, <1>1, SubmitAnswers
<1>4. /\ News(stream, n) = News(stream, n - 1) \cup (IF o.type = "CANCEL" THEN {} ELSE {n})
      /\ Executed(n) = Executed(n - 1) \cup
           (IF o.type = "CANCEL" \/ IsInvalid(o) THEN {} ELSE {n})
      /\ Executed(n)' = Executed(n)
  BY <1>1, <1>2, OneMoreExecuted DEF GenInv
<1>5. n - 1 = submitted /\ submitted \in Nat
  BY <1>0, StreamFields DEF GenInv, RunInv, Progress
<1>6. Progress'
  <2>1. n \in 0 .. Len(stream) /\ Generated'
    BY <1>2, StreamFields DEF GenInv, Generated
  <2> QED BY <1>2, <1>3, <2>1 DEF Progress
<1>7. UsedAre'
  <2>1. Executed(n) = Executed(submitted) \cup (IF fresh THEN {n} ELSE {})
    BY <1>4, <1>5
  <2>2. {stream[m].id : m \in Executed(n)} = {stream[m].id : m \in Executed(submitted)} \cup its
    BY <1>1, <2>1
  <2>3. UsedAre' <=> usedIds' = {stream[m].id : m \in Executed(n)}
    BY <1>2, <1>4 DEF UsedAre, Executed, IsInvalid
  <2> QED BY <1>3, <2>2, <2>3 DEF RunInv, UsedAre
<1>8. RestingAre'
  <2>1. SUFFICES ASSUME NEW s \in symbols, NEW id \in E!Resting(s)'
                 PROVE  \E m \in News(stream, n) : stream[m].id = id /\ stream[m].symbol = s
    BY <1>2, <1>3 DEF RestingAre, News
  <2>2. CASE id \in E!Resting(s)
    BY <1>4, <1>5, <2>2 DEF RunInv, RestingAre
  <2>3. CASE id \notin E!Resting(s)
    <3>1. s = o.symbol /\ fresh /\ id = o.id
      BY <1>3, <2>3
    <3>2. n \in News(stream, n)
      BY <1>4, <3>1
    <3> QED BY <1>1, <3>1, <3>2
  <2> QED BY <2>2, <2>3
<1> QED BY <1>6, <1>7, <1>8

\* The counters and the two lists.
LEMMA SubmitAccounts ==
  ASSUME GenInv, E!IInv, RunInv, Submit
  PROVE  Accounts'
<1> DEFINE n == submitted + 1
           res == result'
           listed == IsListed(result'.status)
<1>1. PICK o : o = stream[n]
  OBVIOUS
<1>2. /\ n \in 1 .. Len(stream) /\ ordersProcessed' = n /\ submitted' = n
      /\ E!IInv' /\ E!Traceable
      /\ acceptedIds' = IF listed THEN Append(acceptedIds, o.id) ELSE acceptedIds
      /\ counted' = Counted(result') /\ allTrades' = allTrades \o result'.trades
  BY <1>1, NextOrder
<1>3. /\ result'.trades \in Seq(E!Trade)
      /\ tradesGenerated' = tradesGenerated + Len(result'.trades)
      /\ usedIds \subseteq usedIds' /\ (listed => o.id \notin usedIds /\ o.id \in usedIds')
      /\ E!AllResting' \subseteq E!AllResting \cup (IF listed THEN {o.id} ELSE {})
  BY <1>1, SubmitAnswers
<1>4. o.id \in 1 .. Count
  BY <1>1, <1>2, StreamFields DEF GenInv
<1>5. /\ allTrades \in Seq(E!Trade) /\ CheckTrades(allTrades)
      /\ counted \in [accepted : Nat, rejected : Nat, cancels : Nat, trades : Nat]
      /\ acceptedIds \in Seq(1 .. Count) /\ ToSet(acceptedIds) \subseteq usedIds
      /\ CheckUniqueIds(acceptedIds) /\ ReportAgrees /\ submitted = ordersProcessed
      /\ submitted \in Nat
  BY StreamFields DEF RunInv, Accounts, Progress, GenInv
<1> HIDE DEF n
<1>6. /\ allTrades' \in Seq(E!Trade)
      /\ Len(allTrades') = Len(allTrades) + Len(result'.trades)
      /\ ToSet(allTrades') = ToSet(allTrades) \cup ToSet(result'.trades)
  <2>1. ASSUME NEW r, r = result'.trades
        PROVE  /\ allTrades \o r \in Seq(E!Trade)
               /\ Len(allTrades \o r) = Len(allTrades) + Len(r)
               /\ ToSet(allTrades \o r) = ToSet(allTrades) \cup ToSet(r)
    BY <1>3, <1>5, <2>1, ManyMore
  <2> QED BY <1>2, <2>1
<1>7. CheckTrades(allTrades')
  <2>1. \A t \in E!ToSet(result'.trades) : t.price > 0 /\ t.qty > 0
    BY <1>2 DEF E!IInv, E!BooksInv, E!TradesPositive, E!ToSet
  <2>2. \A t \in ToSet(result'.trades) : t.price > 0 /\ t.qty # 0
    <3>1. \A t \in ToSet(result'.trades) : t \in E!ToSet(result'.trades)
      BY DEF ToSet, E!ToSet
    <3>2. \A t \in E!Trade : t.qty \in Nat
      BY DEF E!Trade
    <3>3. \A t \in ToSet(result'.trades) : t \in E!Trade
      BY <1>3 DEF ToSet
    <3> QED BY <2>1, <3>1, <3>2, <3>3
  <2>3. \A t \in ToSet(allTrades) : t.price > 0 /\ t.qty # 0
    BY <1>5 DEF CheckTrades, ToSet
  <2>4. \A t \in ToSet(allTrades') : t.price > 0 /\ t.qty # 0
    BY <1>6, <2>2, <2>3
  <2> QED BY <2>4 DEF CheckTrades, ToSet
<1>8. /\ acceptedIds' \in Seq(1 .. Count)
      /\ Len(acceptedIds') = Len(acceptedIds) + (IF listed THEN 1 ELSE 0)
      /\ ToSet(acceptedIds') = ToSet(acceptedIds) \cup (IF listed THEN {o.id} ELSE {})
  <2>1. Len(acceptedIds) \in Nat
    BY <1>5, LenProperties
  <2>2. CASE listed
    <3>1. acceptedIds' = Append(acceptedIds, o.id)
      BY <1>2, <2>2
    <3>2. /\ Append(acceptedIds, o.id) \in Seq(1 .. Count)
          /\ Len(Append(acceptedIds, o.id)) = Len(acceptedIds) + 1
          /\ ToSet(Append(acceptedIds, o.id)) = ToSet(acceptedIds) \cup {o.id}
      <4>1. PICK S : S = 1 .. Count
        OBVIOUS
      <4>2. acceptedIds \in Seq(S) /\ o.id \in S
        BY <1>4, <1>5, <4>1
      <4>3. /\ Append(acceptedIds, o.id) \in Seq(S)
            /\ Len(Append(acceptedIds, o.id)) = Len(acceptedIds) + 1
            /\ ToSet(Append(acceptedIds, o.id)) = ToSet(acceptedIds) \cup {o.id}
        BY <4>2, OneMore
      <4> QED BY <4>1, <4>3
    <3> QED BY <2>2, <3>1, <3>2
  <2>3. CASE ~listed
    <3>1. acceptedIds' = acceptedIds
      BY <1>2, <2>3
    <3> QED BY <1>5, <2>1, <2>3, <3>1
  <2> QED BY <2>2, <2>3
<1>9. CheckUniqueIds(acceptedIds')
  <2>1. CASE listed
    <3>1. o.id \notin ToSet(acceptedIds)
      BY <1>3, <1>5, <2>1
    <3>2. /\ DOMAIN acceptedIds = 1 .. Len(acceptedIds) /\ Len(acceptedIds) \in Nat
          /\ DOMAIN acceptedIds' = 1 .. (Len(acceptedIds) + 1)
          /\ \A i \in 1 .. Len(acceptedIds) : acceptedIds'[i] = acceptedIds[i]
          /\ acceptedIds'[Len(acceptedIds) + 1] = o.id
      BY <1>2, <1>4, <1>5, <2>1, AppendProperties, LenProperties
    <3> QED BY <1>5, <3>1, <3>2 DEF CheckUniqueIds, ToSet
  <2>2. CASE ~listed
    BY <1>2, <1>5, <2>2
  <2> QED BY <2>1, <2>2
<1>10. /\ counted' \in [accepted : Nat, rejected : Nat, cancels : Nat, trades : Nat]
       /\ counted'.accepted + counted'.rejected = ordersProcessed'
       /\ counted'.accepted = Len(acceptedIds') + counted'.cancels
       /\ counted'.trades = tradesGenerated' /\ counted'.trades = Len(allTrades')
  <2>1. /\ counted.accepted + counted.rejected = ordersProcessed
        /\ counted.accepted = Len(acceptedIds) + counted.cancels
        /\ counted.trades = tradesGenerated /\ counted.trades = Len(allTrades)
    BY <1>5 DEF ReportAgrees
  <2>2. /\ counted.accepted \in Nat /\ counted.rejected \in Nat /\ counted.cancels \in Nat
        /\ counted.trades \in Nat /\ Len(acceptedIds) \in Nat /\ Len(allTrades) \in Nat
        /\ Len(result'.trades) \in Nat
    BY <1>3, <1>5, LenProperties
  <2>3. /\ counted'.accepted = counted.accepted + (IF result'.status # "REJECTED" THEN 1 ELSE 0)
        /\ counted'.rejected = counted.rejected + (IF result'.status = "REJECTED" THEN 1 ELSE 0)
        /\ counted'.cancels = counted.cancels + (IF result'.status = "CANCELLED" THEN 1 ELSE 0)
        /\ counted'.trades = counted.trades + Len(result'.trades)
        /\ counted' = [accepted |-> counted'.accepted, rejected |-> counted'.rejected,
                       cancels |-> counted'.cancels, trades |-> counted'.trades]
    BY <1>2 DEF Counted
  <2>4. /\ counted'.accepted \in Nat /\ counted'.rejected \in Nat /\ counted'.cancels \in Nat
        /\ counted'.trades \in Nat
    <3>1. \A x, y \in Nat : x + y \in Nat
      OBVIOUS
    <3>2. /\ (IF result'.status # "REJECTED" THEN 1 ELSE 0) \in Nat
          /\ (IF result'.status = "REJECTED" THEN 1 ELSE 0) \in Nat
          /\ (IF result'.status = "CANCELLED" THEN 1 ELSE 0) \in Nat
      OBVIOUS
    <3> QED BY <2>2, <2>3, <3>1, <3>2
  <2>5. counted' \in [accepted : Nat, rejected : Nat, cancels : Nat, trades : Nat]
    BY <2>3, <2>4
  <2>6. counted'.accepted + counted'.rejected = ordersProcessed'
    BY <1>2, <1>5, <2>1, <2>2, <2>3 DEF n
  <2>7. counted'.accepted = Len(acceptedIds') + counted'.cancels
    BY <1>8, <2>1, <2>2, <2>3 DEF IsListed
  <2>8. counted'.trades = tradesGenerated' /\ counted'.trades = Len(allTrades')
    BY <1>3, <1>6, <2>1, <2>2, <2>3
  <2> QED BY <2>5, <2>6, <2>7, <2>8
<1>11. Engine!AllResting' \cup {t.maker : t \in ToSet(allTrades')} \subseteq ToSet(acceptedIds')
  <2>1. Engine!AllResting = E!AllResting /\ Engine!AllResting' = E!AllResting'
    BY SameEngine
  <2>2. E!AllResting \cup {t.maker : t \in ToSet(allTrades)} \subseteq ToSet(acceptedIds)
    BY <1>5, <2>1 DEF ReportAgrees
  <2>3. E!Makers' \subseteq E!AllResting
    BY <1>2 DEF E!Traceable
  <2>4. {t.maker : t \in ToSet(result'.trades)} = E!Makers'
    BY DEF E!Makers, E!ToSet, ToSet
  <2>5. {t.maker : t \in ToSet(allTrades')} = {t.maker : t \in ToSet(allTrades)} \cup E!Makers'
    BY <1>6, <2>4
  <2> QED BY <1>3, <1>8, <2>1, <2>2, <2>3, <2>5
<1>12. ToSet(acceptedIds') \subseteq usedIds'
  BY <1>3, <1>5, <1>8
<1>13. ReportAgrees'
  BY <1>10, <1>11 DEF ReportAgrees, ToSet
<1>14. (CheckTrades(allTrades))' /\ (CheckUniqueIds(acceptedIds))' /\ ToSet(acceptedIds)' \subseteq usedIds'
  BY <1>7, <1>9, <1>12 DEF CheckTrades, CheckUniqueIds, ToSet
<1> QED BY <1>6, <1>8, <1>10, <1>13, <1>14 DEF Accounts

------------------------------------------------------------------------------
(***************************************************************************)
(* Finalise: what the checker reads of a good book passes.                 *)
(***************************************************************************)
Prices(q) == {e.price : e \in ToSet(q)}
At(q, p) == {i \in DOMAIN q : q[i].price = p}
Opens(q) == [i \in DOMAIN q |-> q[i].open]

\* The entries of a side.
LEMMA SideFields ==
  ASSUME NEW b, E!GoodBook(b), IsFiniteSet(E!RestingIds(b)),
         Cardinality(E!RestingIds(b)) <= Count, NEW s \in Side
  PROVE  /\ Len(b[s]) \in 0 .. Count /\ DOMAIN b[s] = 1 .. Len(b[s])
         /\ IsFiniteSet(DOMAIN b[s]) /\ Cardinality(DOMAIN b[s]) = Len(b[s])
         /\ \A i \in DOMAIN b[s] : /\ b[s][i].open \in 1 .. MaxQty
                                   /\ b[s][i].price \in Price /\ b[s][i].price \in Int
                                   /\ b[s][i].price > 0
<1>1. s \in E!Side
  BY DEF E!Side, Side
<1>2. E!GoodSide(s, b[s])
  BY <1>1 DEF E!GoodBook
<1>3. b[s] \in Seq(E!Entry) /\ E!IdsApart(b[s]) /\ \A i \in DOMAIN b[s] : b[s][i].price > 0
  BY <1>2 DEF E!GoodSide
<1>4. /\ Len(b[s]) \in Nat /\ DOMAIN b[s] = 1 .. Len(b[s])
      /\ \A i \in 1 .. Len(b[s]) : /\ b[s][i].open \in 1 .. MaxQty
                                   /\ b[s][i].price \in Price \cup {0}
                                   /\ b[s][i].price \in Int
  BY <1>3, E!EntryFields, EngineParameters
<1>5. Len(b[s]) <= Count
  <2>1. \A S : E!IsFiniteSet(S) <=> IsFiniteSet(S)
    BY DEF E!IsFiniteSet, IsFiniteSet
  <2>2. \A S : E!Cardinality(S) = Cardinality(S)
    BY DEF E!Cardinality, Cardinality, E!IsFiniteSet, IsFiniteSet
  <2>3. Len(b[s]) \in 0 .. Len(b[s])
    BY <1>4
  <2>4. /\ IsFiniteSet(E!FirstIds(b[s], Len(b[s])))
        /\ Cardinality(E!FirstIds(b[s], Len(b[s]))) = Len(b[s])
        /\ E!FirstIds(b[s], Len(b[s])) \subseteq E!Ids(b[s])
    BY <1>3, <2>1, <2>2, <2>3, E!FirstIdsCount, EngineParameters
  <2>5. E!Ids(b[s]) \subseteq E!RestingIds(b)
    BY E!RestingIdsAre, EngineParameters DEF Side
  <2>6. Cardinality(E!FirstIds(b[s], Len(b[s]))) <= Cardinality(E!RestingIds(b))
    BY <2>4, <2>5, FS_Subset
  <2>7. Cardinality(E!RestingIds(b)) \in Nat /\ Count \in Nat
    BY FS_CardinalityType, BenchmarkAssumption
  <2> QED BY <1>4, <2>4, <2>6, <2>7
<1>6. IsFiniteSet(1 .. Len(b[s])) /\ Cardinality(1 .. Len(b[s])) = Len(b[s])
  BY <1>4, FS_Interval
<1>7. Count \in Nat
  BY BenchmarkAssumption
<1>8. \A i \in 1 .. Len(b[s]) : b[s][i].price \in Price
  BY <1>3, <1>4
<1> QED BY <1>3, <1>4, <1>5, <1>6, <1>7, <1>8

\* The levels of a side: each has entries, and its total is their sum.
LEMMA LevelFields ==
  ASSUME NEW b, E!GoodBook(b), IsFiniteSet(E!RestingIds(b)),
         Cardinality(E!RestingIds(b)) <= Count, NEW s \in Side
  PROVE  LET q == b[s] IN
         /\ DOMAIN LevelsOf(b)[s] = Prices(q) /\ Prices(q) = {q[i].price : i \in DOMAIN q}
         /\ \A p \in Prices(q) :
              /\ LevelsOf(b)[s][p].open = [i \in At(q, p) |-> q[i].open]
              /\ LevelsOf(b)[s][p].qty = SumFunctionOnSet(Opens(q), At(q, p))
              /\ At(q, p) # {} /\ At(q, p) \subseteq DOMAIN q /\ IsFiniteSet(At(q, p))
<1> DEFINE q == b[s]
           open(p) == [i \in At(q, p) |-> q[i].open]
<1>1. LevelsOf(b)[s] = [p \in Prices(q) |-> [qty |-> SumFunction(open(p)), open |-> open(p)]]
  BY DEF LevelsOf, Prices, At
<1>2. IsFiniteSet(DOMAIN q)
  BY SideFields
<1> HIDE DEF q
<1>3. Prices(q) = {q[i].price : i \in DOMAIN q}
  BY DEF Prices, ToSet
<1>4. ASSUME NEW p \in Prices(q)
      PROVE  /\ At(q, p) # {} /\ At(q, p) \subseteq DOMAIN q /\ IsFiniteSet(At(q, p))
             /\ SumFunction(open(p)) = SumFunctionOnSet(Opens(q), At(q, p))
  <2>1. At(q, p) # {} /\ At(q, p) \subseteq DOMAIN q
    BY <1>3 DEF At
  <2>2. IsFiniteSet(At(q, p))
    BY <1>2, <2>1, FS_Subset
  <2>3. DOMAIN open(p) = At(q, p) /\ \A i \in At(q, p) : open(p)[i] = Opens(q)[i]
    BY <2>1 DEF Opens
  <2> HIDE DEF open
  <2>4. SumFunction(open(p)) = SumFunctionOnSet(open(p), At(q, p))
    BY <2>3 DEF SumFunction
  <2> QED BY <2>1, <2>2, <2>3, <2>4, SumCongruent
<1> QED BY <1>1, <1>3, <1>4 DEF q

\* The total of a side with entries is positive, and below Width.
LEMMA TotalFits ==
  ASSUME NEW b, E!GoodBook(b), IsFiniteSet(E!RestingIds(b)),
         Cardinality(E!RestingIds(b)) <= Count, NEW s \in Side, b[s] # <<>>
  PROVE  TotalQty(LevelsOf(b)[s], Width) # 0
<1> DEFINE q == b[s]
           level == LevelsOf(b)[s]
           P == Prices(q)
           A == [p \in P |-> At(q, p)]
           f == Opens(q)
           T == [p \in DOMAIN level |-> level[p].qty]
           total == SumFunctionOnSet(f, DOMAIN q)
<1>1. /\ Len(q) \in 0 .. Count /\ DOMAIN q = 1 .. Len(q) /\ IsFiniteSet(DOMAIN q)
      /\ Cardinality(DOMAIN q) = Len(q)
      /\ \A i \in DOMAIN q : q[i].open \in 1 .. MaxQty /\ q[i].price \in Price
  BY SideFields
<1>2. /\ DOMAIN level = P /\ P = {q[i].price : i \in DOMAIN q}
      /\ \A p \in P : /\ level[p].open = [i \in At(q, p) |-> q[i].open]
                      /\ level[p].qty = SumFunctionOnSet(f, At(q, p))
                      /\ At(q, p) # {} /\ At(q, p) \subseteq DOMAIN q
                      /\ IsFiniteSet(At(q, p))
  BY LevelFields
<1>3. q # <<>>
  OBVIOUS
<1>4. MaxQty \in Nat \ {0} /\ Count \in Nat
  BY QtyBound, BenchmarkAssumption
<1> HIDE DEF q, level
<1>5. IsFiniteSet(P)
  <2>1. IsFiniteSet(Price) /\ P \subseteq Price
    BY <1>1, <1>2, BenchmarkAssumption
  <2> QED BY <2>1, FS_Subset
<1>6. \A i \in DOMAIN q : f[i] \in Nat /\ f[i] <= MaxQty /\ f[i] > 0
  BY <1>1, <1>4 DEF Opens
<1>7. SumFunctionOnSet(T, P) = total
  <2>1. \A p \in P : IsFiniteSet(A[p]) /\ A[p] \subseteq DOMAIN q
    BY <1>2
  <2>2. \A p, r \in P : p # r => A[p] \cap A[r] = {}
    BY DEF At
  <2>3. \A p \in P : \A i \in A[p] : f[i] \in Int
    BY <1>6, <2>1
  <2>4. \A p \in P : T[p] = SumFunctionOnSet(f, A[p])
    BY <1>2
  <2>5. UNION {A[p] : p \in P} = DOMAIN q
    <3>1. ASSUME NEW i \in DOMAIN q PROVE \E p \in P : i \in A[p]
      <4>1. q[i].price \in P /\ i \in At(q, q[i].price)
        BY <1>2 DEF At
      <4> QED BY <4>1
    <3> HIDE DEF A, P
    <3>2. DOMAIN q \subseteq UNION {A[p] : p \in P}
      BY <3>1
    <3>3. UNION {A[p] : p \in P} \subseteq DOMAIN q
      BY <2>1
    <3> QED BY <3>2, <3>3
  <2> HIDE DEF A, T, P, f
  <2>6. \A p \in P : IsFiniteSet(A[p])
    BY <2>1
  <2>7. SumFunctionOnSet(T, P) = SumFunctionOnSet(f, UNION {A[p] : p \in P})
    BY <1>5, <2>2, <2>3, <2>4, <2>6, SumOfSums
  <2> QED BY <2>5, <2>7
<1>8. DOMAIN q # {} /\ Len(q) # 0
  <2>1. SUFFICES ASSUME Len(q) = 0 PROVE FALSE
    BY <1>1
  <2>2. s \in E!Side
    BY DEF E!Side, Side
  <2>3. E!GoodSide(s, b[s])
    BY <2>2 DEF E!GoodBook
  <2>4. q \in Seq(E!Entry)
    BY <2>3 DEF E!GoodSide, q
  <2> QED BY <1>3, <2>1, <2>4, EmptySeq
<1>9. total \in Nat /\ total # 0 /\ total < Width
  <2> HIDE DEF f
  <2>1. total \in Nat
    BY <1>1, <1>6, SumNat
  <2>2. PICK i \in DOMAIN q : TRUE
    BY <1>8
  <2>3. f[i] <= total
    BY <1>1, <1>6, TermAtMostSum
  <2>4. total <= Len(q) * MaxQty
    <3>1. total <= Cardinality(DOMAIN q) * MaxQty
      BY <1>1, <1>4, <1>6, SumBound
    <3> QED BY <1>1, <3>1
  <2>5. Len(q) * MaxQty <= Count * MaxQty
    <3>1. \A m, n, k \in Nat : m <= n => m * k <= n * k
      <4> SUFFICES ASSUME NEW m \in Nat, NEW n \in Nat, NEW k \in Nat, m <= n
                   PROVE  m * k <= n * k
        OBVIOUS
      <4>1. PICK d \in Nat : n = m + d
        <5>1. n - m \in Nat /\ n = m + (n - m)
          OBVIOUS
        <5> QED BY <5>1
      <4>2. n * k = m * k + d * k /\ d * k \in Nat /\ m * k \in Nat
        BY <4>1
      <4> QED BY <4>2
    <3>2. Len(q) \in Nat /\ Len(q) <= Count
      BY <1>1
    <3> QED BY <1>4, <3>1, <3>2
  <2>6. Len(q) * MaxQty \in Nat /\ Count * MaxQty \in Nat
    BY <1>1, <1>4
  <2>7. Width \in Nat /\ Count * MaxQty < Width
    BY WidthAssumption DEF MaxQty
  <2> HIDE DEF total
  <2> QED BY <1>6, <2>1, <2>2, <2>3, <2>4, <2>5, <2>6, <2>7
<1>10. TotalQty(level, Width) = total % Width
  <2>1. DOMAIN T = P
    BY <1>2
  <2>2. SumFunction(T) = SumFunctionOnSet(T, P)
    BY <2>1 DEF SumFunction
  <2> QED BY <1>7, <2>2 DEF TotalQty
<1> HIDE DEF total
<1>11. Width \in Nat
  BY WidthAssumption
<1>12. total % Width = total
  BY <1>9, <1>11
<1> QED BY <1>9, <1>10, <1>12 DEF level

\* The index has each resting id at the side and a price where it rests.
LEMMA IndexFields ==
  ASSUME NEW b, E!GoodBook(b), IsFiniteSet(E!RestingIds(b)),
         Cardinality(E!RestingIds(b)) <= Count, NEW id \in E!RestingIds(b)
  PROVE  /\ IndexOf(b)[id].side \in Side
         /\ IndexOf(b)[id].price \in Prices(b[IndexOf(b)[id].side])
<1> DEFINE Rests(at) == \E e \in ToSet(b[at.side]) : e.id = id /\ e.price = at.price
           at == CHOOSE x \in [side : Side, price : Price] : Rests(x)
<1>1. RestingIds(b) = E!RestingIds(b)
  BY DEF RestingIds, E!RestingIds, ToSet, E!ToSet, Side, E!Side
<1>2. IndexOf(b)[id] = at
  BY <1>1 DEF IndexOf
<1>3. PICK s \in Side : \E x \in ToSet(b[s]) : x.id = id
  BY <1>1 DEF RestingIds
<1> PICK e \in ToSet(b[s]) : e.id = id
  BY <1>3
<1>4. e.price \in Price
  BY <1>3, SideFields DEF ToSet
<1>5. [side |-> s, price |-> e.price] \in [side : Side, price : Price]
      /\ Rests([side |-> s, price |-> e.price])
  BY <1>3, <1>4
<1>6. at \in [side : Side, price : Price] /\ Rests(at)
  <2> HIDE DEF Rests
  <2> QED BY <1>5
<1> HIDE DEF at
<1>7. at.side \in Side /\ at.price \in Prices(b[at.side])
  BY <1>6 DEF Prices
<1> QED BY <1>2, <1>7

LEMMA BookPasses ==
  ASSUME NEW b, E!GoodBook(b), IsFiniteSet(E!RestingIds(b)),
         Cardinality(E!RestingIds(b)) <= Count
  PROVE  CheckBook(LevelsOf(b), IndexOf(b), Width)
<1> DEFINE levels == LevelsOf(b)
<1>1. \A s \in Side :
        /\ DOMAIN levels[s] = Prices(b[s]) /\ Prices(b[s]) = {b[s][i].price : i \in DOMAIN b[s]}
        /\ \A p \in Prices(b[s]) :
             /\ levels[s][p].open = [i \in At(b[s], p) |-> b[s][i].open]
             /\ levels[s][p].qty = SumFunctionOnSet(Opens(b[s]), At(b[s], p))
             /\ At(b[s], p) # {} /\ At(b[s], p) \subseteq DOMAIN b[s] /\ IsFiniteSet(At(b[s], p))
  BY LevelFields
<1>2. \A s \in Side : \A i \in DOMAIN b[s] : /\ b[s][i].open \in 1 .. MaxQty
                                             /\ b[s][i].price \in Int
  BY SideFields
<1>3. MaxQty \in Nat
  BY QtyBound
<1>4. "BUY" \in Side /\ "SELL" \in Side
  BY DEF Side
<1> HIDE DEF levels
<1>5. ~CrossedBook(levels)
  <2>1. \A i \in DOMAIN b["BUY"], j \in DOMAIN b["SELL"] : b["BUY"][i].price < b["SELL"][j].price
    BY DEF E!GoodBook, E!Uncrossed
  <2> QED BY <1>1, <1>2, <1>4, <2>1 DEF CrossedBook
<1>6. ASSUME NEW s \in Side, NEW p \in DOMAIN levels[s]
      PROVE  /\ levels[s][p].qty # 0 /\ levels[s][p].open # <<>>
             /\ 0 \notin ToSet(levels[s][p].open)
  <2> DEFINE q == b[s]
             A == At(q, p)
             f == Opens(q)
             total == SumFunctionOnSet(f, A)
             open == [i \in A |-> q[i].open]
  <2>1. levels[s][p].open = open /\ levels[s][p].qty = total
        /\ A # {} /\ A \subseteq DOMAIN q /\ IsFiniteSet(A)
    BY <1>1, <1>6
  <2>2. \A i \in A : f[i] \in Nat /\ f[i] > 0 /\ q[i].open > 0
    BY <1>2, <1>3, <2>1 DEF Opens
  <2> HIDE DEF A, f, q
  <2>3. PICK i \in A : TRUE
    BY <2>1
  <2>4. f[i] <= total /\ total \in Nat
    BY <2>1, <2>2, <2>3, SumNat, TermAtMostSum
  <2> HIDE DEF total
  <2>5. total # 0
    BY <2>2, <2>3, <2>4
  <2>6. open # <<>> /\ 0 \notin ToSet(open)
    <3>1. DOMAIN open = A /\ \A j \in A : open[j] > 0
      BY <2>2
    <3>2. DOMAIN <<>> = {}
      OBVIOUS
    <3> HIDE DEF open
    <3> QED BY <2>1, <3>1, <3>2 DEF ToSet
  <2> QED BY <2>1, <2>5, <2>6
<1>7. VolumeNonzero(levels, Width)
  <2>1. SUFFICES ASSUME NEW s \in Side, levels[s] # <<>>
                 PROVE  TotalQty(levels[s], Width) # 0
    BY DEF VolumeNonzero
  <2>2. CASE b[s] = <<>>
    <3>1. Prices(b[s]) = {}
      BY <1>1, <2>2
    <3>2. levels[s] = [p \in {} |-> levels[s][p]]
      <4>1. levels[s] = [p \in Prices(b[s]) |-> levels[s][p]]
        BY DEF levels, LevelsOf, Prices
      <4> QED BY <3>1, <4>1
    <3> QED BY <2>1, <3>2
  <2>3. CASE b[s] # <<>>
    BY <2>3, TotalFits DEF levels
  <2> QED BY <2>2, <2>3
<1>8. ASSUME NEW id \in DOMAIN IndexOf(b)
      PROVE  IndexOf(b)[id].price \in DOMAIN levels[IndexOf(b)[id].side]
  <2>1. id \in E!RestingIds(b)
    BY <1>8 DEF IndexOf, RestingIds, E!RestingIds, ToSet, E!ToSet, Side, E!Side
  <2>2. /\ IndexOf(b)[id].side \in Side
        /\ IndexOf(b)[id].price \in Prices(b[IndexOf(b)[id].side])
    BY <2>1, IndexFields
  <2> QED BY <1>1, <2>2
<1>9. LevelsNonempty(levels)
  BY <1>6 DEF LevelsNonempty
<1>10. CheckInvariants(levels, IndexOf(b))
  BY <1>5, <1>6, <1>8 DEF CheckInvariants
<1> QED BY <1>5, <1>7, <1>9, <1>10 DEF CheckBook, levels

------------------------------------------------------------------------------
(***************************************************************************)
(* The inductive invariant.                                                *)
(***************************************************************************)
LEMMA ChecksPass ==
  ASSUME IInv, symbols = Symbol
  PROVE  Passed
<1>1. ASSUME NEW s \in Symbol PROVE CheckBook(LevelsOf(books[s]), IndexOf(books[s]), Width)
  <2>1. /\ E!GoodBook(books[s]) /\ E!Resting(s) \subseteq usedIds
    BY EngineFacts DEF IInv
  <2>2. /\ usedIds \subseteq 1 .. Count /\ IsFiniteSet(1 .. Count)
        /\ Cardinality(1 .. Count) = Count
    <3>1. usedIds \subseteq 1 .. Count
      BY DEF IInv, E!IInv, E!BooksInv, E!TypeOK
    <3>2. Count \in Nat
      BY BenchmarkAssumption
    <3>3. IsFiniteSet(1 .. Count) /\ Cardinality(1 .. Count) = Count
      BY <3>2, FS_Interval
    <3> QED BY <3>1, <3>3
  <2>3. E!RestingIds(books[s]) \subseteq 1 .. Count
    BY <2>1, <2>2 DEF E!Resting
  <2>4. IsFiniteSet(E!RestingIds(books[s])) /\ Cardinality(E!RestingIds(books[s])) <= Count
    BY <2>2, <2>3, FS_Subset
  <2>5. PICK b : b = books[s]
    OBVIOUS
  <2> QED BY <2>1, <2>4, <2>5, BookPasses
<1> QED BY <1>1 DEF Passed, IInv, RunInv, Accounts

LEMMA InitHolds == Init => IInv
<1> SUFFICES ASSUME Init PROVE IInv
  OBVIOUS
<1>1. /\ stream = <<>> /\ restingOrders = <<>> /\ idCounter = 0
      /\ submitted = 0 /\ allTrades = <<>> /\ acceptedIds = <<>> /\ report = "none"
      /\ counted = [accepted |-> 0, rejected |-> 0, cancels |-> 0, trades |-> 0]
  BY DEF Init, Generator!Init
<1>2. /\ symbols = {} /\ usedIds = {} /\ ordersProcessed = 0 /\ tradesGenerated = 0
      /\ E!IInv
  BY SameEngine, EngineParameters, E!InitKeeps DEF Init, E!Init
<1>3. Len(stream) = 0 /\ Len(restingOrders) = 0 /\ Len(allTrades) = 0 /\ Len(acceptedIds) = 0
  BY <1>1
<1>4. GenInv
  <2>1. Shape
    BY <1>1, <1>3, BenchmarkAssumption DEF Shape
  <2>2. News(stream, 0) = {}
    BY DEF News
  <2>3. Numbered
    BY <1>1, <1>3, <2>2, FS_EmptySet DEF Numbered
  <2>4. Cancels /\ List
    BY <1>1, <1>3 DEF Cancels, List
  <2>5. Bounded
    BY <1>3, SeedShort DEF Bounded
  <2> QED BY <2>1, <2>3, <2>4, <2>5 DEF GenInv
<1>5. Progress /\ UsedAre /\ RestingAre
  <2>1. Executed(0) = {}
    BY DEF Executed, News
  <2> QED BY <1>1, <1>2, <1>3, <2>1 DEF Progress, UsedAre, RestingAre
<1>6. Accounts
  <2>1. ToSet(allTrades) = {} /\ ToSet(acceptedIds) = {}
    BY <1>1 DEF ToSet
  <2>2. Engine!AllResting = {}
    BY <1>2, SameEngine DEF E!AllResting
  <2>3. ReportAgrees
    BY <1>1, <1>2, <1>3, <2>1, <2>2 DEF ReportAgrees
  <2> QED BY <1>1, <2>1, <2>3 DEF Accounts, CheckTrades, CheckUniqueIds
<1> QED BY <1>1, <1>2, <1>4, <1>5, <1>6 DEF IInv, RunInv

\* The engine is left alone.
LEMMA EngineStays ==
  ASSUME E!IInv, UNCHANGED engineVars
  PROVE  /\ E!IInv' /\ Engine!AllResting' = Engine!AllResting
         /\ \A s : E!Resting(s)' = E!Resting(s)
<1>1. UNCHANGED <<books, symbols, usedIds, ordersProcessed, tradesGenerated, result>>
  BY DEF engineVars
<1>2. E!IInv'
  BY <1>1, E!StutterKeeps, EngineParameters DEF E!vars
<1>3. \A s : E!Resting(s)' = E!Resting(s)
  BY <1>1 DEF E!Resting
<1>4. Engine!AllResting' = Engine!AllResting
  BY <1>1 DEF Engine!AllResting, Engine!Resting
<1> QED BY <1>2, <1>3, <1>4

\* So are the lists and the counters.
LEMMA AccountsStay ==
  ASSUME Accounts, UNCHANGED <<allTrades, acceptedIds, counted, ordersProcessed, tradesGenerated>>,
         UNCHANGED usedIds, Engine!AllResting' \subseteq Engine!AllResting
  PROVE  Accounts'
<1>1. (CheckTrades(allTrades))' /\ (CheckUniqueIds(acceptedIds))'
  BY DEF Accounts, CheckTrades, CheckUniqueIds
<1>2. ReportAgrees'
  <2>1. ToSet(allTrades)' = ToSet(allTrades) /\ ToSet(acceptedIds)' = ToSet(acceptedIds)
    BY DEF ToSet
  <2>2. ReportAgrees
    BY DEF Accounts
  <2> QED BY <2>1, <2>2 DEF ReportAgrees
<1> QED BY <1>1, <1>2 DEF Accounts, ToSet

LEMMA GenerateStep ==
  ASSUME IInv, Generate
  PROVE  IInv'
<1>1. GenInv' /\ Len(stream) < Count
  BY GenerateKeeps DEF Generate, IInv
<1>2. /\ UNCHANGED engineVars /\ UNCHANGED <<submitted, counted, allTrades, acceptedIds, report>>
      /\ UNCHANGED <<symbols, usedIds, ordersProcessed, tradesGenerated>>
  BY DEF Generate, reportVars, engineVars
<1>3. Len(stream) \in Nat /\ Len(stream)' \in Nat /\ Count \in Nat
  BY <1>1, StreamFields, LenProperties DEF IInv, GenInv, Shape
<1>4. submitted = 0
  BY <1>1, <1>3 DEF IInv, RunInv, Progress, Generated
<1>5. /\ E!IInv' /\ Engine!AllResting' = Engine!AllResting
      /\ \A s : E!Resting(s)' = E!Resting(s)
  BY <1>2, EngineStays DEF IInv
<1>6. Progress'
  BY <1>2, <1>3, <1>4 DEF IInv, RunInv, Progress
<1>7. UsedAre' /\ RestingAre'
  <2>1. Executed(0) = {} /\ Executed(0)' = {} /\ News(stream, 0) = {} /\ News(stream', 0) = {}
    BY DEF Executed, News
  <2>2. usedIds = {} /\ \A s \in symbols : E!Resting(s) = {}
    BY <1>4, <2>1 DEF IInv, RunInv, UsedAre, RestingAre
  <2>3. submitted' = 0 /\ usedIds' = {} /\ \A s \in symbols' : E!Resting(s)' = {}
    BY <1>2, <1>4, <1>5, <2>2
  <2> QED BY <2>1, <2>3 DEF UsedAre, RestingAre, Executed, News
<1>8. Accounts'
  BY <1>2, <1>5, AccountsStay DEF IInv, RunInv
<1> QED BY <1>1, <1>2, <1>5, <1>6, <1>7, <1>8 DEF IInv, RunInv

LEMMA RegisterStep ==
  ASSUME IInv, Register
  PROVE  IInv'
<1>1. PICK s \in Symbol \ symbols : E!RegisterSymbol(s)
  BY SameEngine DEF Register
<1>2. /\ UNCHANGED <<stream, restingOrders, idCounter, report>> /\ Generated
      /\ UNCHANGED <<submitted, counted, allTrades, acceptedIds>>
  BY DEF Register, generatorVars, reportVars
<1>3. E!IInv' /\ E!Traceable
  <2>1. s \in Symbol \cup {Unknown}
    OBVIOUS
  <2> QED BY <1>1, <2>1, E!NextKeeps, EngineParameters DEF IInv, E!Next
<1>4. /\ UNCHANGED <<usedIds, ordersProcessed, tradesGenerated>>
      /\ symbols' = symbols \cup {s} /\ books' = E!Emplace(s)
  BY <1>1 DEF E!RegisterSymbol
<1>5. E!AllResting' \subseteq E!AllResting
  BY <1>3, <1>4 DEF E!Traceable
<1>6. Progress /\ submitted = 0
  BY <1>1 DEF IInv, RunInv, Progress
<1>7. Progress'
  BY <1>1, <1>2, <1>4, <1>6 DEF Progress, Generated
<1>8. usedIds = {} /\ Executed(submitted) = {} /\ Executed(submitted)' = {}
  <2>1. Executed(submitted) = {} /\ Executed(submitted)' = {}
    BY <1>2, <1>6 DEF Executed, News
  <2> QED BY <2>1 DEF IInv, RunInv, UsedAre
<1>9. UsedAre'
  BY <1>4, <1>8 DEF UsedAre
<1>10. RestingAre'
  <2>1. E!AllResting' \subseteq usedIds' /\ \A t \in symbols' : E!Resting(t)' \subseteq E!AllResting'
    BY <1>3 DEF E!IInv, E!BooksInv, E!AllResting
  <2> QED BY <1>4, <1>8, <2>1 DEF RestingAre
<1>11. Accounts'
  <2>1. Engine!AllResting' \subseteq Engine!AllResting
    BY <1>5, SameEngine
  <2> QED BY <1>2, <1>4, <2>1, AccountsStay DEF IInv, RunInv
<1>12. GenInv'
  BY <1>2, GenStays DEF IInv
<1> QED BY <1>2, <1>3, <1>7, <1>9, <1>10, <1>11, <1>12 DEF IInv, RunInv

LEMMA SubmitKeeps ==
  ASSUME IInv, Submit
  PROVE  IInv'
<1>1. GenInv /\ E!IInv /\ RunInv
  BY DEF IInv
<1>2. E!IInv' /\ UNCHANGED <<stream, restingOrders, idCounter, report>>
  BY <1>1, NextOrder
<1>3. GenInv'
  BY <1>1, <1>2, GenStays
<1>4. Progress' /\ UsedAre' /\ RestingAre' /\ Accounts'
  BY <1>1, SubmitProgress, SubmitAccounts
<1> QED BY <1>2, <1>3, <1>4 DEF IInv, RunInv

\* The engine, the stream and the accounts are left alone.
LEMMA AllStays ==
  ASSUME GenInv, E!IInv, RunInv, UNCHANGED <<generatorVars, engineVars, reportVars>>
  PROVE  GenInv' /\ E!IInv' /\ RunInv'
<1>1. /\ UNCHANGED <<stream, restingOrders, idCounter>> /\ UNCHANGED engineVars
      /\ UNCHANGED <<submitted, counted, allTrades, acceptedIds>>
      /\ UNCHANGED <<symbols, usedIds, ordersProcessed, tradesGenerated>>
  BY DEF generatorVars, reportVars, engineVars
<1>2. GenInv'
  BY <1>1, GenStays
<1>3. /\ E!IInv' /\ Engine!AllResting' = Engine!AllResting
      /\ \A s : E!Resting(s)' = E!Resting(s)
  BY <1>1, EngineStays
<1>4. Accounts'
  BY <1>1, <1>3, AccountsStay DEF RunInv
<1>5. Progress' /\ UsedAre' /\ RestingAre'
  BY <1>1, <1>3 DEF RunInv, Progress, Generated, UsedAre, RestingAre, Executed, IsInvalid, News
<1> QED BY <1>2, <1>3, <1>4, <1>5 DEF RunInv

LEMMA Invariance == Spec => []IInv
<1>1. IInv /\ [Next]_vars => IInv'
  <2> SUFFICES ASSUME IInv, [Next]_vars PROVE IInv'
    OBVIOUS
  <2>1. CASE Generate
    BY <2>1, GenerateStep
  <2>2. CASE Register
    BY <2>2, RegisterStep
  <2>3. CASE Submit
    BY <2>3, SubmitKeeps
  <2>4. CASE Finalise
    <3>1. /\ symbols = Symbol /\ UNCHANGED <<generatorVars, engineVars, reportVars>>
          /\ Passed => report' = "passed"
      BY <2>4 DEF Finalise
    <3>2. report' # "failed"
      BY <3>1, ChecksPass
    <3> QED BY <3>1, <3>2, AllStays DEF IInv
  <2>5. CASE UNCHANGED vars
    <3>1. UNCHANGED <<generatorVars, engineVars, reportVars>> /\ UNCHANGED report
      BY <2>5 DEF vars
    <3> QED BY <3>1, AllStays DEF IInv
  <2> QED BY <2>1, <2>2, <2>3, <2>4, <2>5 DEF Next
<1> QED BY <1>1, InitHolds, PTL DEF Spec

------------------------------------------------------------------------------
(***************************************************************************)
(* Each new order has the next id, and each CANCEL names the id and the    *)
(* symbol of an earlier valid LIMIT order that no other CANCEL names.      *)
(***************************************************************************)
THEOREM StreamIsWellFormed == Spec => []StreamWellFormed
<1>1. ASSUME IInv PROVE StreamWellFormed
  <2>1. Shape /\ Numbered /\ Cancels
    BY <1>1 DEF IInv, GenInv
  <2>2. DOMAIN stream = 1 .. Len(stream)
    BY <2>1, StreamFields
  <2>3. \A n : Generator!Cardinality(Generator!NewUpTo(n)) = Cardinality(News(stream, n))
    BY DEF Generator!NewUpTo, News, Generator!Cardinality, Cardinality,
           Generator!IsFiniteSet, IsFiniteSet
  <2>4. \A l, s, id : Aimed(stream, l, s, id) => Generator!IsTarget(l, s, id)
    BY DEF Aimed, Generator!IsTarget
  <2>5. \A n \in DOMAIN stream : stream[n].type # "CANCEL" =>
          stream[n].id = Generator!Cardinality(Generator!NewUpTo(n))
    BY <2>1, <2>2, <2>3 DEF Numbered
  <2>6. \A c \in DOMAIN stream : stream[c].type = "CANCEL" =>
          /\ \E l \in 1 .. (c - 1) : Generator!IsTarget(l, stream[c].symbol, stream[c].id)
          /\ \A d \in DOMAIN stream :
               stream[d].type = "CANCEL" /\ stream[d].id = stream[c].id => d = c
    BY <2>1, <2>2, <2>4 DEF Cancels
  <2> QED BY <2>5, <2>6 DEF StreamWellFormed, Generator!StreamWellFormed
<1> QED BY <1>1, Invariance, PTL

(***************************************************************************)
(* The list of orders to cancel stays bounded, although only one of the    *)
(* three places that append to it tests the bound.                         *)
(***************************************************************************)
THEOREM TrackedStayBounded == Spec => []TrackedBounded
<1>1. IInv => TrackedBounded
  BY DEF IInv, GenInv, Bounded, TrackedBounded, Generator!TrackedBounded
<1> QED BY <1>1, Invariance, PTL

(***************************************************************************)
(* The checks at the end pass on every stream that the generator can make. *)
(***************************************************************************)
THEOREM ChecksAlwaysPass == Spec => []InvariantsPass
<1>1. IInv => InvariantsPass
  BY DEF IInv, InvariantsPass
<1> QED BY <1>1, Invariance, PTL

(***************************************************************************)
(* The report's totals are the engine's, and what rests or traded as a     *)
(* maker was reported as accepted.                                         *)
(***************************************************************************)
THEOREM ReportIsRight == Spec => []ReportAgrees
<1>1. IInv => ReportAgrees
  BY DEF IInv, RunInv, Accounts
<1> QED BY <1>1, Invariance, PTL

(***************************************************************************)
(* The engine rejects exactly the invalid orders and the CANCELs of orders *)
(* that have traded in full by then.                                       *)
(***************************************************************************)
THEOREM RejectionsAreExplained == Spec => RejectionsExplained
<1>1. ASSUME IInv, [Next]_vars
      PROVE  [\A n \in {submitted'} \ {submitted} :
                result'.status = "REJECTED" <=>
                  IsInvalid(stream[n]) \/ (stream[n].type = "CANCEL" /\ TradedOut(stream[n].id))]_vars
  <2>1. CASE Submit
    <3>1. submitted' = submitted + 1
      BY <2>1 DEF Submit
    <3>2. result'.status = "REJECTED" <=>
            \/ IsInvalid(stream[submitted + 1])
            \/ stream[submitted + 1].type = "CANCEL" /\ TradedOut(stream[submitted + 1].id)
      BY <1>1, <2>1, SubmitAnswers DEF IInv
    <3> QED BY <3>1, <3>2
  <2>2. CASE Generate \/ Register \/ Finalise \/ UNCHANGED vars
    <3>1. UNCHANGED submitted
      BY <2>2 DEF Generate, Register, Finalise, vars, reportVars
    <3> QED BY <3>1
  <2> QED BY <1>1, <2>1, <2>2 DEF Next
<1> QED BY <1>1, Invariance, PTL DEF Spec, RejectionsExplained

(***************************************************************************)
(* A run of the benchmark is a run of its generator and a run of its       *)
(* engine: the loop calls the engine as its interface allows, so what      *)
(* MatchingEngineProofs shows of the engine holds of it here.              *)
(***************************************************************************)
THEOREM PartsRunAlone == Spec => Generator!Spec /\ Engine!Spec
<1>1. Init => Generator!Init /\ Engine!Init
  BY DEF Init
<1>2. ASSUME IInv, [Next]_vars
      PROVE  [Generator!Next]_(Generator!vars) /\ [Engine!Next]_(Engine!vars)
  <2>1. UNCHANGED generatorVars => UNCHANGED Generator!vars
    BY DEF generatorVars, Generator!vars
  <2>2. UNCHANGED engineVars => UNCHANGED Engine!vars
    BY DEF engineVars, Engine!vars
  <2>3. CASE Generate
    BY <2>2, <2>3 DEF Generate
  <2>4. CASE Register
    <3>1. Engine!Next
      BY <2>4 DEF Register, Engine!Next
    <3> QED BY <2>1, <2>4, <3>1 DEF Register
  <2>5. CASE Submit
    <3>1. stream[submitted + 1] \in Engine!Input
      BY <1>2, <2>5, NextOrder, SameEngine DEF IInv
    <3>2. Engine!SubmitOrder(stream[submitted + 1])
      BY <2>5 DEF Submit
    <3>3. Engine!Next
      BY <3>1, <3>2 DEF Engine!Next
    <3> QED BY <2>1, <2>5, <3>3 DEF Submit
  <2>6. CASE Finalise
    BY <2>1, <2>2, <2>6 DEF Finalise
  <2>7. CASE UNCHANGED vars
    BY <2>1, <2>2, <2>7 DEF vars
  <2> QED BY <1>2, <2>3, <2>4, <2>5, <2>6, <2>7 DEF Next
<1> QED BY <1>1, <1>2, Invariance, PTL DEF Spec, Generator!Spec, Engine!Spec
==============================================================================
