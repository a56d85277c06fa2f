---------------------------- MODULE ExchangeProofs ----------------------------
(***************************************************************************)
(* Theorems about Exchange, for every file, session and command line: no   *)
(* line is lost, the lines and the tape explain the books, the statistics  *)
(* agree and the prints are current.  The engine's part of every step is   *)
(* one MatchingEngineProofs is about.                                      *)
(***************************************************************************)
EXTENDS Exchange, Sums, SequenceTheorems, WellFoundedInduction

Texts == UNION {Range(texts) : texts \in TextLists}

E == INSTANCE MatchingEngineProofs WITH
  OrderId <- LineIds,
  Symbol <- {l.symbol : l \in Line} \cup UNION {Range(texts) : texts \in TextLists},
  Price <- {Parser!ToFixedPrice(l.price) : l \in Parsing},
  MaxQty <- Width - 1,
  MaxProcessed <- MaxLines

------------------------------------------------------------------------------
(***************************************************************************)
(* The conversions of the parser, for every number.                        *)
(***************************************************************************)
\* toFixedPrice() on either side of zero: one half unit below it is added to 0.
LEMMA FixedPrice ==
  ASSUME NEW n \in Int
  PROVE  /\ Parser!ToFixedPrice(n) = IF n >= -1 THEN (n + 1) \div 2 ELSE -((-n - 1) \div 2)
         /\ Parser!ToFixedPrice(n) \in Int
BY DEF Parser!ToFixedPrice, Parser!Truncated

(***************************************************************************)
(* toFixedPrice() takes a price of zero or more to the nearest unit, half  *)
(* units up, and a negative whole one a unit too high; so RiskValidator    *)
(* sees a positive price exactly when the text is half a unit or more.     *)
(***************************************************************************)
THEOREM PricesRounded ==
  ASSUME NEW n \in Int
  PROVE  /\ n >= 0 => 2 * Parser!ToFixedPrice(n) - n \in {0, 1}
         /\ n < -1 => 2 * Parser!ToFixedPrice(n) - n \in {1, 2}
         /\ Parser!ToFixedPrice(n) > 0 <=> n > 0
<1>1. CASE n >= 0
  <2>1. Parser!ToFixedPrice(n) = (n + 1) \div 2
    BY <1>1, FixedPrice
  <2> QED BY <1>1, <2>1
<1>2. CASE n = -1
  BY <1>2, FixedPrice
<1>3. CASE n < -1
  <2>1. Parser!ToFixedPrice(n) = -((-n - 1) \div 2)
    BY <1>3, FixedPrice
  <2> QED BY <1>3, <2>1
<1> QED BY <1>1, <1>2, <1>3

\* std::stoull: a number below Width.
LEMMA StoUllBound ==
  ASSUME NEW n \in Int
  PROVE  Parser!StoUll(n) \in 0 .. Width - 1
<1>1. 2 * PriceScale \in Nat \ {0} /\ Width \in Nat \ {0}
  BY ScaleAssumption
<1>2. Parser!Truncated(n, 2 * PriceScale) \in Int
  <2> DEFINE d == 2 * PriceScale
  <2>1. d \in Nat \ {0}
    BY <1>1
  <2> HIDE DEF d
  <2>2. n \div d \in Int /\ -((-n) \div d) \in Int
    BY <2>1
  <2>3. Parser!Truncated(n, d) \in Int
    BY <2>2 DEF Parser!Truncated
  <2> QED BY <2>3 DEF d
<1>3. ASSUME NEW a \in Int PROVE a % Width \in 0 .. Width - 1
  BY <1>1
<1> QED BY <1>2, <1>3 DEF Parser!StoUll

\* How many whole units there are in a number.
LEMMA Units ==
  ASSUME NEW d \in Nat \ {0}, NEW n \in Nat, NEW k \in Nat
  PROVE  d * k <= n /\ n < d * (k + 1) <=> k = n \div d
<1> DEFINE j == n \div d
<1>1. j \in Nat /\ d * j <= n /\ n < d * (j + 1)
  OBVIOUS
<1> HIDE DEF j
<1>2. ASSUME NEW a \in Nat, NEW b \in Nat, a < b PROVE d * (a + 1) <= d * b
  <2>1. PICK c \in Nat : b = (a + 1) + c
    <3>1. b - (a + 1) \in Nat /\ b = (a + 1) + (b - (a + 1))
      BY <1>2
    <3> QED BY <3>1
  <2>2. d * b = d * (a + 1) + d * c /\ d * c \in Nat
    BY <2>1
  <2>3. d * (a + 1) \in Nat
    OBVIOUS
  <2> QED BY <2>2, <2>3
<1>3. ASSUME d * k <= n, n < d * (k + 1) PROVE k = j
  <2>1. ~(k < j)
    BY <1>1, <1>2, <1>3
  <2>2. ~(j < k)
    BY <1>1, <1>2, <1>3
  <2> QED BY <1>1, <2>1, <2>2
<1> QED BY <1>1, <1>3 DEF j

\* std::stoull takes the whole number that the text begins with.
LEMMA WholeIs ==
  ASSUME NEW n \in Int, -(2 * PriceScale * Width) < n, n < 2 * PriceScale * Width
  PROVE  Whole(n) = Parser!StoUll(n)
<1> DEFINE d == 2 * PriceScale
           m == Parser!StoUll(n)
<1>1. d \in Nat \ {0} /\ Width \in Nat \ {0} /\ m \in 0 .. Width - 1
  BY ScaleAssumption, StoUllBound
<1>2. -(d * Width) < n /\ n < d * Width
  OBVIOUS
<1>3. /\ \A q : Reads(n, q) <=>
           IF n >= 0 THEN d * q <= n /\ n < d * (q + 1)
           ELSE LET back == IF q = 0 THEN 0 ELSE Width - q
                IN  d * back <= -n /\ -n < d * (back + 1)
      /\ m = (IF n >= 0 THEN n \div d ELSE -((-n) \div d)) % Width
  BY DEF Reads, Parser!StoUll, Parser!Truncated
<1> HIDE DEF d, m
<1>4. ASSUME NEW a \in Nat, a < d * Width PROVE a \div d \in 0 .. Width - 1
  <2>1. /\ a \div d \in Nat
        /\ ~(Width <= a \div d)
    <3>1. a \div d \in Nat /\ d * (a \div d) <= a
      BY <1>1
    <3>2. PICK k \in Nat : k = a \div d
      BY <3>1
    <3>3. ASSUME Width <= k PROVE FALSE
      <4>1. k - Width \in Nat /\ k = Width + (k - Width)
        BY <1>1, <3>3
      <4>2. d * k = d * Width + d * (k - Width)
        BY <1>1, <4>1
      <4>3. d * (k - Width) \in Nat /\ d * Width \in Nat /\ d * k \in Nat
        BY <1>1, <4>1
      <4>4. d * k <= a
        BY <3>1, <3>2
      <4> HIDE <3>1
      <4> QED BY <1>4, <4>2, <4>3, <4>4
    <3> QED BY <3>1, <3>2, <3>3
  <2> QED BY <1>1, <2>1
<1>5. \A q \in 0 .. Width - 1 : Reads(n, q) <=> q = m
  <2>1. CASE n >= 0
    <3>1. n \div d \in 0 .. Width - 1
      BY <1>2, <1>4, <2>1
    <3>2. m = n \div d
      BY <1>1, <1>3, <2>1, <3>1
    <3>3. \A q \in 0 .. Width - 1 : d * q <= n /\ n < d * (q + 1) <=> q = n \div d
      BY <1>1, <2>1, Units
    <3> QED BY <1>3, <2>1, <3>2, <3>3
  <2>2. CASE n < 0
    <3> DEFINE k == (-n) \div d
    <3>1. -n \in Nat /\ k \in 0 .. Width - 1
      <4>1. -n \in Nat
        BY <2>2
      <4>2. -n < d * Width
        <5>1. d * Width \in Int
          BY <1>1
        <5> QED BY <1>2, <5>1
      <4> QED BY <1>4, <4>1, <4>2
    <3>2. m = (-k) % Width
      BY <1>3, <2>2
    <3>3. m = IF k = 0 THEN 0 ELSE Width - k
      <4> HIDE DEF k
      <4> QED BY <1>1, <3>1, <3>2
    <3>4. ASSUME NEW q \in 0 .. Width - 1 PROVE Reads(n, q) <=> q = m
      <4>1. PICK back \in Nat : back = IF q = 0 THEN 0 ELSE Width - q
        <5>1. CASE q = 0
          BY <5>1
        <5>2. CASE q # 0
          <6>1. Width - q \in Nat
            BY <1>1, <5>2
          <6> QED BY <5>2, <6>1
        <5> QED BY <5>1, <5>2
      <4>2. d * back <= -n /\ -n < d * (back + 1) <=> back = k
        BY <1>1, <3>1, Units
      <4>3. Reads(n, q) <=> back = k
        BY <1>3, <2>2, <4>1, <4>2
      <4> HIDE DEF k
      <4> QED BY <1>1, <3>1, <3>3, <4>1, <4>3
    <3> QED BY <3>4
  <2> QED BY <2>1, <2>2
<1>6. (CHOOSE q \in 0 .. Width - 1 : Reads(n, q)) = m
  BY <1>1, <1>5
<1> QED BY <1>6 DEF Whole, m

\* A line that parses gives the engine an order.
LEMMA OrderParsed ==
  ASSUME NEW line \in Line, Parser!Parses(line)
  PROVE  LET o == Parser!ParsedOrder(line) IN
         /\ line \in Parsing /\ line.price \in Int
         /\ o \in E!Input
         /\ o.id = Whole(line.id) /\ o.symbol = line.symbol /\ o.side = line.side
         /\ o.type = line.type /\ o.price = Parser!ToFixedPrice(line.price)
         /\ o.quantity = Quantity(line) /\ o.quantity \in Nat
         /\ o.side \in Side
<1>1. line.id \in Int /\ line.price \in Int /\ line.quantity \in Int
  <2>1. {line.timestamp, line.id, line.price, line.quantity} \subseteq Int \cup {NotNumber}
    BY LineAssumption
  <2> QED BY <2>1 DEF Parser!Parses
<1>2. line \in Parsing /\ Parser!StoUll(line.id) \in LineIds
  BY DEF Parsing, LineIds
<1>3. Parser!StoUll(line.quantity) \in 0 .. Width - 1
  BY <1>1, StoUllBound
<1>4. line.side \in Side /\ line.side \in E!Side /\ line.type \in E!OrderType \cup {"CANCEL"}
  BY DEF Parser!Parses, Parser!Side, Side, E!Side, Parser!OrderType, E!OrderType
<1>5. Width - 1 \in Nat
  BY ScaleAssumption
<1>6. Parser!StoUll(line.quantity) \in Nat
  BY <1>3, <1>5
<1>7. Whole(line.id) = Parser!StoUll(line.id) /\ Whole(line.quantity) = Parser!StoUll(line.quantity)
  <2>1. \A n \in {line.timestamp, line.id, line.quantity} \ {NotNumber} :
          -(2 * PriceScale * Width) < n /\ n < 2 * PriceScale * Width
    BY LineAssumption
  <2>2. {line.id, line.quantity} \subseteq {line.timestamp, line.id, line.quantity} \ {NotNumber}
    BY DEF Parser!Parses
  <2> QED BY <1>1, <2>1, <2>2, WholeIs
<1> QED BY <1>1, <1>2, <1>3, <1>4, <1>6, <1>7 DEF E!Input, Parser!ParsedOrder, Quantity

\* The parameters are ones the engine's theorems are about.
LEMMA EngineParameters == E!BoundsAssumption
<1> DEFINE prices == {Parser!ToFixedPrice(l.price) : l \in Parsing}
<1>1. prices \subseteq Int
  <2>1. \A l \in Parsing : l.price \in Int
    BY OrderParsed DEF Parsing
  <2> QED BY <2>1, FixedPrice
<1>2. IsFiniteSet(prices)
  <2>1. IsFiniteSet(Parsing)
    BY LineAssumption, FS_Subset DEF Parsing
  <2>2. [l \in Parsing |-> Parser!ToFixedPrice(l.price)] \in Surjection(Parsing, prices)
    BY DEF Surjection
  <2> HIDE DEF prices
  <2> QED BY <2>1, <2>2, FS_Surjection
<1>3. Width - 1 \in Nat /\ MaxLines \in Nat
  BY ScaleAssumption, BoundsAssumption
<1> QED BY <1>1, <1>2, <1>3 DEF E!BoundsAssumption, E!IsFiniteSet, IsFiniteSet
------------------------------------------------------------------------------
(***************************************************************************)
(* The engine of Exchange is that of the theorems.                         *)
(***************************************************************************)
\* What the two instances say of a book is the same.
LEMMA SameMatching ==
  /\ \A S : Engine!Cardinality(S) = E!Cardinality(S)
  /\ \A o, q, i : Engine!Taken(o, q, i) = E!Taken(o, q, i)
  /\ \A o, q : Engine!Filled(o, q) = E!Filled(o, q)
  /\ \A s : Engine!Opposite(s) = E!Opposite(s)
<1>1. \A S : Engine!Cardinality(S) = E!Cardinality(S)
  BY DEF Engine!Cardinality, E!Cardinality
<1>2. \A f, S : Engine!SumFunctionOnSet(f, S) = E!SumFunctionOnSet(f, S)
  BY DEF Engine!SumFunctionOnSet, E!SumFunctionOnSet,
         Engine!FoldFunctionOnSet, E!FoldFunctionOnSet,
         Engine!MapThenFoldSet, E!MapThenFoldSet
<1>3. \A q, n : Engine!Depth(q, n) = E!Depth(q, n)
  BY <1>2 DEF Engine!Depth, E!Depth
<1>4. /\ \A s : Engine!Opposite(s) = E!Opposite(s)
      /\ \A a, b : Engine!Lesser(a, b) = E!Lesser(a, b)
      /\ \A s, p, q : Engine!AsGood(s, p, q) <=> E!AsGood(s, p, q)
  BY DEF Engine!Opposite, E!Opposite, Engine!Lesser, E!Lesser, Engine!AsGood, E!AsGood
<1>5. \A o, p : Engine!Marketable(o, p) <=> E!Marketable(o, p)
  BY <1>4 DEF Engine!Marketable, E!Marketable
<1>6. \A o, q : Engine!Reach(o, q) = E!Reach(o, q)
  BY DEF Engine!Reach, E!Reach, Engine!Cardinality, E!Cardinality,
         Engine!Marketable, E!Marketable, Engine!AsGood, E!AsGood,
         Engine!Opposite, E!Opposite
<1>7. \A o, q : Engine!Killed(o, q) <=> E!Killed(o, q)
  BY <1>3, <1>6 DEF Engine!Killed, E!Killed
<1>8. \A o, q, i : Engine!Taken(o, q, i) = E!Taken(o, q, i)
  BY <1>3, <1>4, <1>6, <1>7 DEF Engine!Taken, E!Taken
<1>9. \A o, q : Engine!Filled(o, q) = E!Filled(o, q)
  BY <1>3, <1>4, <1>6, <1>7 DEF Engine!Filled, E!Filled
<1> QED BY <1>1, <1>4, <1>8, <1>9

LEMMA SameBooks ==
  /\ \A o, q : Engine!Fills(o, q) = E!Fills(o, q)
  /\ \A o, q : Engine!Outcome(o, q) = E!Outcome(o, q)
  /\ \A o, b : Engine!BookAfter(o, b) = E!BookAfter(o, b)
  /\ \A id, b : Engine!BookWithout(id, b) = E!BookWithout(id, b)
  /\ \A b : Engine!RestingIds(b) = E!RestingIds(b)
<1>1. \A o, q : Engine!Fills(o, q) = E!Fills(o, q)
  <2> SUFFICES ASSUME NEW o, NEW q PROVE Engine!Fills(o, q) = E!Fills(o, q)
    OBVIOUS
  <2>1. {j \in DOMAIN q : Engine!Taken(o, q, j) > 0} = {j \in DOMAIN q : E!Taken(o, q, j) > 0}
    BY SameMatching
  <2> QED BY <2>1, SameMatching DEF Engine!Fills, E!Fills
<1>2. \A o, q : Engine!Drained(o, q) = E!Drained(o, q)
  <2> SUFFICES ASSUME NEW o, NEW q PROVE Engine!Drained(o, q) = E!Drained(o, q)
    OBVIOUS
  <2> DEFINE a == [i \in DOMAIN q |-> [q[i] EXCEPT !.open = @ - Engine!Taken(o, q, i)]]
             b == [i \in DOMAIN q |-> [q[i] EXCEPT !.open = @ - E!Taken(o, q, i)]]
  <2>1. a = b
    BY SameMatching
  <2> HIDE DEF a, b
  <2>2. Engine!Drained(o, q) =
          SubSeq(a, Engine!Cardinality({i \in DOMAIN q : a[i].open = 0}) + 1, Len(q))
    BY DEF Engine!Drained, a
  <2>3. E!Drained(o, q) =
          SubSeq(b, E!Cardinality({i \in DOMAIN q : b[i].open = 0}) + 1, Len(q))
    BY DEF E!Drained, b
  <2> QED BY <2>1, <2>2, <2>3, SameMatching
<1>3. \A s, q, e : Engine!Insert(s, q, e) = E!Insert(s, q, e)
  BY DEF Engine!Insert, E!Insert, Engine!InsertAt, E!InsertAt, Engine!Cardinality,
         E!Cardinality, Engine!AsGood, E!AsGood
<1>4. \A o, b : Engine!BookAfter(o, b) = E!BookAfter(o, b)
  BY <1>2, <1>3, SameMatching DEF Engine!BookAfter, E!BookAfter
<1>5. \A o, q : Engine!Outcome(o, q) = E!Outcome(o, q)
  BY SameMatching DEF Engine!Outcome, E!Outcome
<1>6. \A id, b : Engine!BookWithout(id, b) = E!BookWithout(id, b)
  BY DEF Engine!BookWithout, E!BookWithout, Engine!RemoveFirstMatch, E!RemoveFirstMatch,
         Engine!SelectInSeq, E!SelectInSeq, Engine!RemoveAt, E!RemoveAt,
         Engine!Min, E!Min, Engine!Side, E!Side
<1>7. \A b : Engine!RestingIds(b) = E!RestingIds(b)
  BY DEF Engine!RestingIds, E!RestingIds, Engine!ToSet, E!ToSet, Engine!Side, E!Side
<1> QED BY <1>1, <1>4, <1>5, <1>6, <1>7

\* What they say of a rest, too.
LEMMA SameShares ==
  /\ \A o, p : E!Marketable(o, p) <=> Marketable(o, p)
  /\ \A s, p, q : E!AsGood(s, p, q) <=> AsGood(s, p, q)
  /\ \A s : E!Opposite(s) = Opposite(s)
  /\ \A s : E!ToSet(s) = ToSet(s)
  /\ \A f, S : E!SumFunctionOnSet(f, S) = SumFunctionOnSet(f, S)
  /\ \A S : E!Cardinality(S) = Cardinality(S)
  /\ \A o, trades, id : E!Share(o, trades, id) =
       SumFunctionOnSet([i \in DOMAIN trades |-> trades[i].qty],
                        {i \in DOMAIN trades : id \in {trades[i].maker, o.id}})
  /\ E!Side = Side /\ E!EmptyBook = EmptyBook /\ E!Rejected = [status |-> "REJECTED", trades |-> <<>>]
<1>1. \A f, S : E!SumFunctionOnSet(f, S) = SumFunctionOnSet(f, S)
  BY DEF E!SumFunctionOnSet, SumFunctionOnSet, E!FoldFunctionOnSet, FoldFunctionOnSet,
         E!MapThenFoldSet, MapThenFoldSet
<1>2. /\ \A s : E!Opposite(s) = Opposite(s)
      /\ \A s, p, q : E!AsGood(s, p, q) <=> AsGood(s, p, q)
  BY DEF E!Opposite, Opposite, E!AsGood, AsGood
<1>3. \A o, p : E!Marketable(o, p) <=> Marketable(o, p)
  BY <1>2 DEF E!Marketable, Marketable
<1>4. \A s : E!ToSet(s) = ToSet(s)
  BY DEF E!ToSet, ToSet
<1>5. \A S : E!Cardinality(S) = Cardinality(S)
  BY DEF E!Cardinality, Cardinality
<1>6. E!Side = Side /\ E!EmptyBook = EmptyBook /\ E!Rejected = [status |-> "REJECTED", trades |-> <<>>]
  BY DEF E!Side, Side, E!EmptyBook, EmptyBook, E!Rejected, E!Result
<1> QED BY <1>1, <1>2, <1>3, <1>4, <1>5, <1>6 DEF E!Share

\* So are its calls.
LEMMA SameEngine ==
  /\ Engine!Init <=> E!Init
  /\ \A s : Engine!RegisterSymbol(s) <=> E!RegisterSymbol(s)
  /\ \A o : Engine!SubmitOrder(o) <=> E!SubmitOrder(o)
  /\ Engine!Input = E!Input
  /\ Engine!AllResting = E!AllResting /\ Engine!AllResting' = E!AllResting'
<1>1. Engine!Init <=> E!Init
  BY DEF Engine!Init, E!Init, Engine!Result, E!Result
<1>2. \A s : Engine!RegisterSymbol(s) <=> E!RegisterSymbol(s)
  BY DEF Engine!RegisterSymbol, E!RegisterSymbol, Engine!Emplace, E!Emplace,
         Engine!EmptyBook, E!EmptyBook, Engine!Result, E!Result, Engine!Side, E!Side
<1>3. \A s, id : Engine!Cancel(s, id) <=> E!Cancel(s, id)
  BY SameBooks DEF Engine!Cancel, E!Cancel, Engine!Resting, E!Resting,
         Engine!Result, E!Result, Engine!Rejected, E!Rejected
<1>4. \A o : Engine!Valid(o) <=> E!Valid(o)
  BY DEF Engine!Valid, E!Valid
<1>5. \A o : Engine!Reject(o) <=> E!Reject(o)
  BY DEF Engine!Reject, E!Reject, Engine!Result, E!Result, Engine!Rejected, E!Rejected
<1>6. \A o : Engine!Execute(o) <=> E!Execute(o)
  BY SameBooks, SameMatching
     DEF Engine!Execute, E!Execute, Engine!RecordId, E!RecordId,
         Engine!Result, E!Result, Engine!Rejected, E!Rejected
<1>7. \A o : Engine!SubmitOrder(o) <=> E!SubmitOrder(o)
  BY <1>3, <1>4, <1>5, <1>6 DEF Engine!SubmitOrder, E!SubmitOrder
<1>8. Engine!Input = E!Input
  BY DEF Engine!Input, E!Input, Engine!Side, E!Side, Engine!OrderType, E!OrderType
<1>9. Engine!AllResting = E!AllResting /\ Engine!AllResting' = E!AllResting'
  BY SameBooks DEF Engine!AllResting, E!AllResting, Engine!Resting, E!Resting
<1> QED BY <1>1, <1>2, <1>7, <1>8, <1>9

------------------------------------------------------------------------------
(***************************************************************************)
(* Sets of line numbers: the place of a line in a set, and the first line  *)
(* with a key.                                                             *)
(***************************************************************************)
\* The places in a set are those of a sequence: in order, and none is missing.
LEMMA PlaceOrder ==
  ASSUME NEW S, IsFiniteSet(S), S \subseteq Nat
  PROVE  /\ Cardinality(S) \in Nat
         /\ \A n \in S : Place(n, S) \in 1 .. Cardinality(S)
         /\ \A m, n \in S : m < n => Place(m, S) < Place(n, S)
         /\ \A k \in 1 .. Cardinality(S) : \E n \in S : Place(n, S) = k
<1> DEFINE Upto(n) == {m \in S : m <= n}
           At == [n \in S |-> Place(n, S)]
<1>1. Cardinality(S) \in Nat
  BY FS_CardinalityType
<1>2. ASSUME NEW n \in S
      PROVE  Place(n, S) \in 1 .. Cardinality(S) /\ IsFiniteSet(Upto(n))
  <2>1. Upto(n) \subseteq S /\ IsFiniteSet(Upto(n)) /\ n \in Upto(n)
    BY FS_Subset
  <2> HIDE DEF Upto
  <2>2. Cardinality(Upto(n)) \in Nat /\ Cardinality(Upto(n)) <= Cardinality(S)
    BY <2>1, FS_Subset, FS_CardinalityType
  <2>3. Cardinality(Upto(n)) # 0
    BY <2>1, FS_EmptySet
  <2>4. Place(n, S) = Cardinality(Upto(n))
    BY DEF Place, Upto
  <2> QED BY <1>1, <2>1, <2>2, <2>3, <2>4
<1>3. ASSUME NEW m \in S, NEW n \in S, m < n PROVE Place(m, S) < Place(n, S)
  <2>1. /\ Upto(m) \subseteq Upto(n) /\ n \in Upto(n) /\ n \notin Upto(m)
        /\ IsFiniteSet(Upto(n))
    <3>1. m \in Nat /\ n \in Nat
      OBVIOUS
    <3>2. Upto(m) \subseteq Upto(n)
      <4>1. ASSUME NEW l \in S, l <= m PROVE l <= n
        <5>1. l \in Nat
          OBVIOUS
        <5> QED BY <1>3, <3>1, <4>1, <5>1
      <4> QED BY <4>1
    <3>3. n \in Upto(n) /\ n \notin Upto(m)
      BY <1>3, <3>1
    <3> QED BY <1>2, <3>2, <3>3
  <2> HIDE DEF Upto
  <2>2. Upto(m) # Upto(n)
    BY <2>1
  <2>3. Cardinality(Upto(m)) < Cardinality(Upto(n))
    <3>1. /\ Cardinality(Upto(m)) <= Cardinality(Upto(n))
          /\ Cardinality(Upto(m)) = Cardinality(Upto(n)) => Upto(m) = Upto(n)
      BY <2>1, FS_Subset
    <3>2. Cardinality(Upto(m)) \in Nat /\ Cardinality(Upto(n)) \in Nat
      BY <1>2, FS_CardinalityType
    <3> QED BY <2>2, <3>1, <3>2
  <2> QED BY <2>3 DEF Place, Upto
<1>4. ASSUME NEW k \in 1 .. Cardinality(S) PROVE \E n \in S : Place(n, S) = k
  <2> DEFINE T == 1 .. Cardinality(S)
  <2>1. IsFiniteSet(T) /\ Cardinality(T) = Cardinality(S)
    BY <1>1, FS_Interval
  <2>2. At \in [S -> T]
    BY <1>2
  <2>3. ASSUME NEW m \in S, NEW n \in S, At[m] = At[n] PROVE m = n
    <3>1. Place(m, S) = Place(n, S) /\ m \in Nat /\ n \in Nat
      BY <2>3
    <3>2. Place(m, S) \in Int
      <4>1. Place(m, S) \in 1 .. Cardinality(S)
        BY <1>2
      <4> QED BY <4>1
    <3>3. ~(m < n) /\ ~(n < m)
      BY <1>3, <3>1, <3>2
    <3> QED BY <3>1, <3>3
  <2>4. At \in Injection(S, T)
    <3> HIDE DEF T, At
    <3> QED BY <2>2, <2>3 DEF Injection, IsInjective
  <2> HIDE DEF T, At
  <2>5. At \in Surjection(S, T)
    BY <2>1, <2>4, FS_Injection
  <2>6. PICK n \in S : At[n] = k
    BY <2>5 DEF Surjection, T
  <2> QED BY <2>6 DEF At
<1> QED BY <1>1, <1>2, <1>3, <1>4

\* A later line takes the next place.
LEMMA PlaceAdd ==
  ASSUME NEW S, IsFiniteSet(S), S \subseteq Nat, NEW n \in Nat, \A m \in S : m < n
  PROVE  /\ n \notin S /\ IsFiniteSet(S \cup {n})
         /\ Cardinality(S \cup {n}) = Cardinality(S) + 1
         /\ Place(n, S \cup {n}) = Cardinality(S) + 1
         /\ \A m \in S : Place(m, S \cup {n}) = Place(m, S)
<1>1. n \notin S
  OBVIOUS
<1>2. IsFiniteSet(S \cup {n}) /\ Cardinality(S \cup {n}) = Cardinality(S) + 1
  BY <1>1, FS_AddElement
<1>3. {m \in S \cup {n} : m <= n} = S \cup {n}
  <2>1. \A m \in S \cup {n} : m <= n
    OBVIOUS
  <2> QED BY <2>1
<1>4. ASSUME NEW m \in S PROVE {l \in S \cup {n} : l <= m} = {l \in S : l <= m}
  <2>1. ~(n <= m) /\ m \in Nat
    BY <1>4
  <2> QED BY <2>1
<1> QED BY <1>1, <1>2, <1>3, <1>4 DEF Place

\* The least of a set of line numbers.
LEMMA MinIs ==
  ASSUME NEW S, S \subseteq Nat, S # {}
  PROVE  Min(S) \in S /\ \A n \in S : Min(S) <= n
<1>1. \E m \in S : \A n \in S : m <= n
  <2>1. IsWellFoundedOn(OpToRel(<, Nat), Nat)
    BY NatLessThanWellFounded
  <2>2. PICK m \in S : \A n \in S : ~(<<n, m>> \in OpToRel(<, Nat))
    BY <2>1, WFMin
  <2>3. \A n \in S : ~(n < m)
    BY <2>2 DEF OpToRel
  <2> QED BY <2>3
<1> QED BY <1>1 DEF Min

\* For each key the first line in C that has it.
FirstOf(C, key) == [k \in {key[n] : n \in C} |-> Min({n \in C : key[n] = k})]

LEMMA FirstOfIs ==
  ASSUME NEW C, C \subseteq Nat, NEW key, NEW k \in DOMAIN FirstOf(C, key)
  PROVE  /\ FirstOf(C, key)[k] \in C /\ key[FirstOf(C, key)[k]] = k
         /\ \A n \in C : key[n] = k => FirstOf(C, key)[k] <= n
<1> DEFINE S == {n \in C : key[n] = k}
<1>1. S \subseteq Nat /\ S # {} /\ FirstOf(C, key)[k] = Min(S)
  BY DEF FirstOf
<1>2. Min(S) \in S /\ \A n \in S : Min(S) <= n
  BY <1>1, MinIs
<1> QED BY <1>1, <1>2

\* A later line n with a known key changes nothing, with a new key it is the first.
Joins(n, key, old, now) ==
  /\ key \in DOMAIN old => now = old
  /\ key \notin DOMAIN old => /\ DOMAIN now = DOMAIN old \cup {key} /\ now[key] = n
                             /\ \A k \in DOMAIN old : now[k] = old[k]

LEMMA FirstOfAdd ==
  ASSUME NEW C, C \subseteq Nat, NEW n \in Nat, \A m \in C : m < n,
         NEW key, NEW new, \A m \in C : new[m] = key[m]
  PROVE  Joins(n, new[n], FirstOf(C, key), FirstOf(C \cup {n}, new))
<1> DEFINE old == FirstOf(C, key)
           now == FirstOf(C \cup {n}, new)
<1>1. DOMAIN old = {key[m] : m \in C} /\ DOMAIN now = DOMAIN old \cup {new[n]}
  BY DEF FirstOf
<1>2. ASSUME NEW k \in DOMAIN old PROVE now[k] = old[k] /\ k \in DOMAIN now
  <2>1. /\ old[k] \in C /\ key[old[k]] = k
        /\ \A m \in C : key[m] = k => old[k] <= m
    BY FirstOfIs
  <2>2. C \cup {n} \subseteq Nat /\ k \in DOMAIN now
    BY <1>1
  <2>3. /\ now[k] \in C \cup {n} /\ new[now[k]] = k
        /\ \A m \in C \cup {n} : new[m] = k => now[k] <= m
    BY <2>2, FirstOfIs
  <2> HIDE DEF old, now
  <2>4. now[k] <= old[k] /\ old[k] \in Nat /\ now[k] \in Nat /\ old[k] < n
    BY <2>1, <2>2, <2>3
  <2>5. now[k] \in C
    BY <2>3, <2>4
  <2>6. old[k] <= now[k]
    BY <2>1, <2>3, <2>5
  <2> QED BY <2>2, <2>4, <2>6
<1>3. ASSUME new[n] \notin DOMAIN old PROVE now[new[n]] = n
  <2>1. C \cup {n} \subseteq Nat /\ new[n] \in DOMAIN now
    BY <1>1
  <2>2. PICK k : k = new[n]
    OBVIOUS
  <2>3. k \in DOMAIN now
    BY <1>1, <2>2
  <2>4. /\ now[k] \in C \cup {n} /\ new[now[k]] = k
        /\ \A m \in C \cup {n} : new[m] = k => now[k] <= m
    BY <2>1, <2>3, FirstOfIs
  <2>5. k \notin {key[m] : m \in C}
    BY <1>1, <1>3, <2>2
  <2> HIDE DEF old, now
  <2>6. now[k] \notin C
    <3> SUFFICES ASSUME now[k] \in C PROVE FALSE
      OBVIOUS
    <3>1. key[now[k]] = k
      BY <2>4
    <3> QED BY <2>5, <3>1
  <2> QED BY <2>2, <2>4, <2>6
<1>4. ASSUME new[n] \in DOMAIN old PROVE now = old
  <2>1. DOMAIN now = DOMAIN old
    BY <1>1, <1>4
  <2>2. now = [k \in DOMAIN now |-> now[k]] /\ old = [k \in DOMAIN old |-> old[k]]
    BY DEF FirstOf
  <2> QED BY <1>2, <2>1, <2>2
<1> QED BY <1>1, <1>2, <1>3, <1>4 DEF Joins

------------------------------------------------------------------------------
(***************************************************************************)
(* The lines: the inductive invariant of the command line and the parser.  *)
(***************************************************************************)
NoStats == [submitted |-> 0, accepted |-> 0, rejected |-> 0, trades |-> 0]

\* No order has been given to the engine.
Untouched == /\ usedIds = {} /\ ordersProcessed = 0 /\ tradesGenerated = 0
             /\ \A s \in symbols : books[s] = EmptyBook
             /\ tape = <<>> /\ published = <<>> /\ warned = <<>>
             /\ stats = NoStats

\* Nothing has been read.
Blank == /\ Untouched
         /\ lines = <<>> /\ lineNum = 0 /\ headerSkipped = FALSE
         /\ orders = <<>> /\ errors = <<>>

Options == [replay : BOOLEAN, interactive : BOOLEAN, symbols : Seq(Texts),
            trades : BOOLEAN, book : BOOLEAN]

CommandOK == /\ phase \in {"usage", "options", "register", "parse", "replay", "prompt", "exit"}
             /\ args \in Seq(Texts)
             /\ opts \in Options
             /\ lines \in Seq(Line)
             /\ phase \in {"options", "register"} => opts.symbols # <<>>
             /\ phase \in {"usage", "options", "register"} => Blank
             /\ phase = "parse" => Untouched
             /\ phase \in {"parse", "replay"} => opts.replay
             /\ phase = "prompt" => ~opts.replay

HeaderSeen == \E n \in DOMAIN lines : lines[n].columns > 0

\* Every line that parsed is an order, every other data line an error.
Parsed ==
  /\ orders \in Seq(E!Input)
  /\ Len(orders) = Cardinality(Good)
  /\ \A n \in Good : orders[Place(n, Good)] = Parser!ParsedOrder(lines[n])

Reported ==
  /\ errors \in Seq(Nat)
  /\ Len(errors) = Cardinality(Bad)
  /\ \A n \in Bad : errors[Place(n, Bad)] = n

LinesOK ==
  /\ opts.replay =>
       /\ Parsed
       /\ \/ phase # "parse" /\ errors = <<0>>
          \/ /\ Reported
             /\ lineNum = Len(lines) /\ (headerSkipped <=> HeaderSeen)
       /\ warned = IF phase \in {"replay", "exit"} /\ orders = <<>> THEN errors ELSE <<>>
       /\ ordersProcessed <= Len(orders)
  /\ ~opts.replay =>
       /\ ordersProcessed = Cardinality(Good)
       /\ warned \in Seq(Nat) /\ Len(warned) = Cardinality(Bad)

\* The sets of line numbers are finite.
LEMMA LineSets ==
  ASSUME lines \in Seq(Line)
  PROVE  /\ Len(lines) \in Nat /\ DOMAIN lines = 1 .. Len(lines) /\ DOMAIN lines \subseteq Nat
         /\ \A n \in DOMAIN lines : lines[n] \in Line /\ lines[n].columns \in Nat
         /\ DataLines \subseteq DOMAIN lines
         /\ Good \subseteq DOMAIN lines /\ IsFiniteSet(Good) /\ Good \subseteq Nat
         /\ Bad \subseteq DOMAIN lines /\ IsFiniteSet(Bad) /\ Bad \subseteq Nat
         /\ Good \cap Bad = {}
<1>1. /\ Len(lines) \in Nat /\ DOMAIN lines = 1 .. Len(lines)
      /\ \A n \in DOMAIN lines : lines[n] \in Line
  OBVIOUS
<1>2. \A n \in DOMAIN lines : lines[n].columns \in Nat
  BY <1>1, LineAssumption
<1>3. DataLines \subseteq DOMAIN lines
  BY DEF DataLines
<1>4. Good \subseteq DOMAIN lines /\ Bad \subseteq DOMAIN lines /\ Good \cap Bad = {}
  BY <1>3 DEF Good, Bad
<1>5. IsFiniteSet(DOMAIN lines) /\ DOMAIN lines \subseteq Nat
  BY <1>1, FS_Interval
<1>6. IsFiniteSet(Good) /\ IsFiniteSet(Bad)
  BY <1>4, <1>5, FS_Subset
<1> QED BY <1>1, <1>2, <1>3, <1>4, <1>5, <1>6

\* Is the next line, after those read, a data line?
IsData(line) == ~opts.replay \/ (line.columns > 0 /\ HeaderSeen)

\* One more line.
LEMMA LineAdded ==
  ASSUME lines \in Seq(Line), NEW line \in Line, lines' = Append(lines, line), UNCHANGED opts
  PROVE  LET n == Len(lines) + 1 IN
         /\ lines' \in Seq(Line) /\ Len(lines') = n /\ n \in DOMAIN lines' /\ lines'[n] = line
         /\ \A m \in DOMAIN lines : m \in DOMAIN lines' /\ lines'[m] = lines[m] /\ m < n
         /\ HeaderSeen' <=> HeaderSeen \/ line.columns > 0
         /\ Good' = IF IsData(line) /\ Parser!Parses(line) THEN Good \cup {n} ELSE Good
         /\ Bad' = IF IsData(line) /\ ~Parser!Parses(line) THEN Bad \cup {n} ELSE Bad
<1> DEFINE n == Len(lines) + 1
<1>1. /\ Len(lines) \in Nat /\ DOMAIN lines = 1 .. Len(lines) /\ DOMAIN lines \subseteq Nat
      /\ DataLines \subseteq DOMAIN lines
  BY LineSets
<1>2. /\ lines' \in Seq(Line) /\ DOMAIN lines' = DOMAIN lines \cup {n} /\ lines'[n] = line
      /\ Len(lines') = n
      /\ n \notin DOMAIN lines
      /\ \A m \in DOMAIN lines : lines'[m] = lines[m] /\ m < n
  BY <1>1
<1> HIDE DEF n
<1>3. HeaderSeen' <=> HeaderSeen \/ line.columns > 0
  BY <1>2 DEF HeaderSeen
<1>4. \A m \in DOMAIN lines : m \in DataLines' <=> m \in DataLines
  <2>1. CASE ~opts.replay
    BY <1>2, <2>1 DEF DataLines
  <2>2. CASE opts.replay
    <3> SUFFICES ASSUME NEW m \in DOMAIN lines PROVE m \in DataLines' <=> m \in DataLines
      OBVIOUS
    <3>1. m \in DataLines <=> /\ lines[m].columns > 0
                              /\ \E l \in DOMAIN lines : lines[l].columns > 0 /\ l < m
      BY <2>2 DEF DataLines
    <3>2. m \in DataLines' <=> /\ lines'[m].columns > 0
                               /\ \E l \in DOMAIN lines' : lines'[l].columns > 0 /\ l < m
      BY <1>2, <2>2 DEF DataLines
    <3>3. ~(n < m)
      BY <1>1, <1>2
    <3> QED BY <1>2, <3>1, <3>2, <3>3
  <2> QED BY <2>1, <2>2
<1>5. n \in DataLines' <=> IsData(line)
  <2>1. CASE ~opts.replay
    BY <1>2, <2>1 DEF DataLines, IsData
  <2>2. CASE opts.replay
    <3>1. n \in DataLines' <=> /\ lines'[n].columns > 0
                               /\ \E l \in DOMAIN lines' : lines'[l].columns > 0 /\ l < n
      BY <1>2, <2>2 DEF DataLines
    <3>2. ~(n < n)
      BY <1>1 DEF n
    <3> QED BY <1>2, <2>2, <3>1, <3>2 DEF IsData, HeaderSeen
  <2> QED BY <2>1, <2>2
<1>6. DataLines' \subseteq DOMAIN lines'
  BY DEF DataLines
<1>7. DataLines' = DataLines \cup (IF IsData(line) THEN {n} ELSE {})
  BY <1>1, <1>2, <1>4, <1>5, <1>6
<1>8. /\ Good' = {m \in DataLines' : Parser!Parses(lines'[m])}
      /\ Bad' = {m \in DataLines' : ~Parser!Parses(lines'[m])}
  BY DEF Good, Bad
<1>9. \A m \in DataLines : lines'[m] = lines[m] /\ m # n
  BY <1>1, <1>2
<1>10. /\ Good' = IF IsData(line) /\ Parser!Parses(line) THEN Good \cup {n} ELSE Good
       /\ Bad' = IF IsData(line) /\ ~Parser!Parses(line) THEN Bad \cup {n} ELSE Bad
  <2>1. \A m : m \in Good' <=> m \in Good \/ (m = n /\ IsData(line) /\ Parser!Parses(line))
    BY <1>2, <1>7, <1>8, <1>9 DEF Good
  <2>2. \A m : m \in Bad' <=> m \in Bad \/ (m = n /\ IsData(line) /\ ~Parser!Parses(line))
    BY <1>2, <1>7, <1>8, <1>9 DEF Bad
  <2> QED BY <2>1, <2>2
<1>11. \A m \in DOMAIN lines : m \in DOMAIN lines'
  BY <1>2
<1>12. n \in DOMAIN lines'
  BY <1>2
<1>13. \A m \in DOMAIN lines : m \in DOMAIN lines' /\ lines'[m] = lines[m] /\ m < n
  BY <1>2, <1>11
<1>14. lines' \in Seq(Line) /\ Len(lines') = n /\ n \in DOMAIN lines' /\ lines'[n] = line
  BY <1>2, <1>12
<1> QED BY <1>3, <1>10, <1>13, <1>14 DEF n

\* A list with an entry for each line of a set gets one for a later line.
Longer(list, S, new, n, e) ==
  /\ Len(new) = Cardinality(S \cup {n}) /\ new[Place(n, S \cup {n})] = e
  /\ \A m \in S : new[Place(m, S \cup {n})] = list[Place(m, S)]

LEMMA ListAdd ==
  ASSUME NEW S, IsFiniteSet(S), S \subseteq Nat, NEW n \in Nat, \A m \in S : m < n,
         NEW T, NEW list \in Seq(T), Len(list) = Cardinality(S), NEW e \in T
  PROVE  Append(list, e) \in Seq(T) /\ Longer(list, S, Append(list, e), n, e)
<1>1. /\ Cardinality(S \cup {n}) = Cardinality(S) + 1
      /\ Place(n, S \cup {n}) = Cardinality(S) + 1
      /\ \A m \in S : Place(m, S \cup {n}) = Place(m, S)
  BY PlaceAdd
<1>2. \A m \in S : Place(m, S) \in 1 .. Cardinality(S)
  BY PlaceOrder
<1>3. /\ Append(list, e) \in Seq(T) /\ Len(Append(list, e)) = Len(list) + 1
      /\ Append(list, e)[Len(list) + 1] = e
      /\ \A i \in 1 .. Len(list) : Append(list, e)[i] = list[i]
  OBVIOUS
<1> QED BY <1>1, <1>2, <1>3 DEF Longer

\* The same lines have the same numbers.
LEMMA LinesSame ==
  ASSUME UNCHANGED <<lines, opts>>
  PROVE  Good' = Good /\ Bad' = Bad /\ HeaderSeen' = HeaderSeen
BY DEF Good, Bad, DataLines, HeaderSeen

\* Before the first line.
LEMMA BlankLines ==
  Blank /\ phase \notin {"replay", "exit"} => LinesOK
<1> SUFFICES ASSUME Blank, phase \notin {"replay", "exit"} PROVE LinesOK
  OBVIOUS
<1>1. /\ lines = <<>> /\ lineNum = 0 /\ headerSkipped = FALSE /\ orders = <<>> /\ errors = <<>>
      /\ warned = <<>> /\ ordersProcessed = 0
  BY DEF Blank, Untouched
<1>2. Good = {} /\ Bad = {} /\ ~HeaderSeen
  BY <1>1 DEF Good, Bad, DataLines, HeaderSeen
<1>3. Cardinality({}) = 0
  BY FS_EmptySet
<1>4. /\ orders \in Seq(E!Input) /\ errors \in Seq(Nat) /\ warned \in Seq(Nat)
      /\ Len(orders) = 0 /\ Len(errors) = 0 /\ Len(warned) = 0 /\ Len(lines) = 0
  BY <1>1
<1>5. Parsed /\ Reported
  BY <1>2, <1>3, <1>4 DEF Parsed, Reported
<1> QED BY <1>1, <1>2, <1>3, <1>4, <1>5 DEF LinesOK

\* A list of texts that main() handles.
LEMMA TextsListed ==
  ASSUME NEW texts \in TextLists
  PROVE  texts \in Seq(Texts)
<1>1. texts \in Seq(Range(texts)) /\ Range(texts) \subseteq Texts
  BY TextAssumption DEF Texts
<1> QED BY <1>1

LEMMA CommandStarts == Init => CommandOK
<1> SUFFICES ASSUME Init PROVE CommandOK
  OBVIOUS
<1>1. args \in Seq(Texts)
  BY TextsListed DEF Init, TextLists
<1>2. opts \in Options /\ opts.symbols # <<>>
  <2>1. DefaultSymbols \in Seq(Texts) /\ DefaultSymbols # <<>>
    BY TextsListed, TextAssumption DEF TextLists
  <2> QED BY <2>1 DEF Init, NoOptions, Options
<1>3. phase \in {"usage", "options"} /\ lines = <<>>
  BY DEF Init
<1>4. Blank
  BY DEF Init, Blank, Untouched, NoStats, Parser!Init, Engine!Init, Feed!Init
<1> QED BY <1>1, <1>2, <1>3, <1>4 DEF CommandOK

\* Every step of the program leaves the command line in order.
LEMMA OptionRead ==
  ASSUME CommandOK, ReadOption
  PROVE  args' \in Seq(Texts) /\ opts' \in Options /\ opts'.symbols # <<>>
<1> DEFINE a == Head(args)
           hasValue == a \in {"--replay", "--symbols"} /\ Len(args) > 1
<1>1. /\ args \in Seq(Texts) /\ args # <<>> /\ opts \in Options /\ opts.symbols # <<>>
  BY DEF CommandOK, ReadOption
<1>2. args' \in Seq(Texts)
  <2>1. args' = SubSeq(args, IF hasValue THEN 3 ELSE 2, Len(args))
    BY DEF ReadOption
  <2>2. Len(args) \in Nat /\ Len(args) > 0
    BY <1>1
  <2>3. SubSeq(args, 3, Len(args)) \in Seq(Texts) /\ SubSeq(args, 2, Len(args)) \in Seq(Texts)
    BY <1>1, <2>2
  <2> QED BY <2>1, <2>3
<1>3. hasValue => SplitComma(args[2]) \in Seq(Texts) /\ SplitComma(args[2]) # <<>>
  <2> SUFFICES ASSUME hasValue PROVE SplitComma(args[2]) \in Seq(Texts) /\ SplitComma(args[2]) # <<>>
    OBVIOUS
  <2>1. args[2] \in Texts
    BY <1>1
  <2>2. CASE args[2] \in DOMAIN Lists
    <3>1. Lists[args[2]] \in TextLists /\ Lists[args[2]] # <<>>
      BY <2>2, TextAssumption DEF TextLists
    <3> QED BY <2>2, <3>1, TextsListed DEF SplitComma
  <2>3. CASE args[2] \notin DOMAIN Lists
    <3>1. <<args[2]>> \in Seq(Texts) /\ <<args[2]>> # <<>>
      BY <2>1
    <3> QED BY <2>3, <3>1 DEF SplitComma
  <2> QED BY <2>2, <2>3
<1>4. opts' = [opts EXCEPT
                 !.replay      = @ \/ (a = "--replay" /\ hasValue),
                 !.interactive = @ \/ a = "--interactive",
                 !.symbols     = IF a = "--symbols" /\ hasValue THEN SplitComma(args[2]) ELSE @,
                 !.trades      = @ \/ a = "--trades",
                 !.book        = @ \/ a = "--book"]
  BY DEF ReadOption
<1> HIDE DEF a, hasValue
<1>5. PICK list : list = IF a = "--symbols" /\ hasValue THEN SplitComma(args[2]) ELSE opts.symbols
  OBVIOUS
<1>6. list \in Seq(Texts) /\ list # <<>>
  BY <1>1, <1>3, <1>5 DEF Options
<1>7. opts' = [opts EXCEPT
                 !.replay      = @ \/ (a = "--replay" /\ hasValue),
                 !.interactive = @ \/ a = "--interactive",
                 !.symbols     = list,
                 !.trades      = @ \/ a = "--trades",
                 !.book        = @ \/ a = "--book"]
  BY <1>1, <1>4, <1>5 DEF Options
<1>8. opts' \in Options /\ opts'.symbols = list
  BY <1>1, <1>6, <1>7 DEF Options
<1> QED BY <1>2, <1>6, <1>8

\* The symbols named are registered in turn.
LEMMA SymbolNamed ==
  ASSUME CommandOK, phase = "register"
  PROVE  /\ Head(opts.symbols) \in Texts
         /\ opts.symbols \in Seq(Texts) /\ opts.symbols # <<>>
         /\ Tail(opts.symbols) \in Seq(Texts)
         /\ Len(opts.symbols) > 1 => Tail(opts.symbols) # <<>>
<1>1. opts.symbols \in Seq(Texts) /\ opts.symbols # <<>>
  BY DEF CommandOK, Options
<1>2. ASSUME NEW list \in Seq(Texts), list # <<>>
      PROVE  /\ Head(list) \in Texts /\ Tail(list) \in Seq(Texts)
             /\ Len(Tail(list)) = Len(list) - 1
  BY <1>2
<1>3. Len(<<>>) = 0
  OBVIOUS
<1> QED BY <1>1, <1>2, <1>3

LEMMA SymbolTaken ==
  ASSUME CommandOK, E!IInv, RegisterSymbol
  PROVE  /\ opts' \in Options /\ opts'.replay = opts.replay
         /\ phase' = "register" => opts'.symbols # <<>>
         /\ Blank' /\ phase' \in {"register", "parse", "prompt"}
         /\ phase' = "parse" => opts.replay
         /\ phase' = "prompt" => ~opts.replay
<1>1. phase = "register" /\ Blank /\ opts \in Options
  BY DEF CommandOK, RegisterSymbol
<1>2. opts' = [opts EXCEPT !.symbols = Tail(opts.symbols)]
  BY DEF RegisterSymbol
<1>3. opts' \in Options /\ opts'.replay = opts.replay /\ opts'.symbols = Tail(opts.symbols)
  BY <1>1, <1>2, SymbolNamed DEF Options
<1>4. symbols = DOMAIN books
  BY DEF E!IInv, E!BooksInv, E!TypeOK
<1>5. /\ books' = Engine!Emplace(Head(opts.symbols))
      /\ symbols' = symbols \cup {Head(opts.symbols)}
      /\ UNCHANGED <<usedIds, ordersProcessed, tradesGenerated>>
  BY DEF RegisterSymbol, Engine!RegisterSymbol
<1>6. \A s \in symbols' : books'[s] = EmptyBook
  <2>1. \A s \in symbols' : books'[s] = IF s \in symbols THEN books[s] ELSE Engine!EmptyBook
    BY <1>4, <1>5 DEF Engine!Emplace
  <2>2. Engine!EmptyBook = EmptyBook
    BY DEF Engine!EmptyBook, EmptyBook, Engine!Side, Side
  <2>3. \A s \in symbols : books[s] = EmptyBook
    BY <1>1 DEF Blank, Untouched
  <2> QED BY <2>1, <2>2, <2>3
<1>7. UNCHANGED <<lines, parserVars, outputVars>>
  BY DEF RegisterSymbol
<1>8. Blank'
  BY <1>1, <1>5, <1>6, <1>7 DEF Blank, Untouched, parserVars, outputVars
<1>9. phase' = IF Len(opts.symbols) > 1 THEN phase ELSE IF opts.replay THEN "parse" ELSE "prompt"
  BY DEF RegisterSymbol
<1> QED BY <1>1, <1>3, <1>8, <1>9, SymbolNamed

LEMMA CommandKeeps ==
  ASSUME CommandOK, E!IInv, Next
  PROVE  CommandOK'
<1>1. /\ args \in Seq(Texts) /\ opts \in Options /\ lines \in Seq(Line)
  BY DEF CommandOK
<1>2. ASSUME ReadOption PROVE CommandOK'
  <2>1. /\ UNCHANGED <<phase, lines, parserVars, engineVars, outputVars>> /\ phase = "options"
    BY <1>2 DEF ReadOption
  <2>2. Blank'
    BY <2>1 DEF CommandOK, Blank, Untouched, parserVars, engineVars, outputVars
  <2> QED BY <1>1, <1>2, <2>1, <2>2, OptionRead DEF CommandOK
<1>3. ASSUME ChooseMode PROVE CommandOK'
  <2>1. /\ UNCHANGED <<args, opts, lines, parserVars, engineVars, outputVars>>
        /\ phase = "options" /\ phase' \in {"register", "usage"}
    BY <1>3 DEF ChooseMode
  <2>2. Blank'
    BY <2>1 DEF CommandOK, Blank, Untouched, parserVars, engineVars, outputVars
  <2> QED BY <1>1, <2>1, <2>2 DEF CommandOK
<1>4. ASSUME RegisterSymbol PROVE CommandOK'
  <2>1. UNCHANGED <<args, lines>>
    BY <1>4 DEF RegisterSymbol
  <2>2. Untouched' /\ phase' # "options"
    BY <1>4, SymbolTaken DEF Blank
  <2> QED BY <1>1, <1>4, <2>1, <2>2, SymbolTaken DEF CommandOK
<1>5. ASSUME NEW line \in Line, ReadLine(line) PROVE CommandOK'
  <2>1. /\ UNCHANGED <<args, opts, phase, engineVars, outputVars>> /\ phase = "parse"
        /\ lines' = Append(lines, line)
    BY <1>5 DEF ReadLine
  <2>2. lines' \in Seq(Line)
    BY <1>1, <2>1
  <2>3. Untouched'
    BY <2>1 DEF CommandOK, Untouched, engineVars, outputVars
  <2> QED BY <1>1, <2>1, <2>2, <2>3 DEF CommandOK
<1>6. ASSUME NEW line \in Line, Enter(line) PROVE CommandOK'
  <2>1. /\ UNCHANGED <<args, opts, phase>> /\ phase = "prompt" /\ lines' = Append(lines, line)
    BY <1>6 DEF Enter
  <2>2. lines' \in Seq(Line)
    BY <1>1, <2>1
  <2> QED BY <1>1, <2>1, <2>2 DEF CommandOK
<1>7. ASSUME EndOfFile \/ CannotOpen PROVE CommandOK'
  <2>1. /\ UNCHANGED <<args, opts, lines>> /\ phase = "parse" /\ phase' = "replay"
    BY <1>7 DEF EndOfFile, CannotOpen, StartReplay
  <2> QED BY <1>1, <2>1 DEF CommandOK
<1>8. ASSUME SubmitNext PROVE CommandOK'
  <2>1. UNCHANGED <<args, opts, phase, lines>> /\ phase = "replay"
    BY <1>8 DEF SubmitNext
  <2> QED BY <1>1, <2>1 DEF CommandOK
<1>9. ASSUME EndReplay \/ Quit PROVE CommandOK'
  <2>1. UNCHANGED <<args, opts, lines>> /\ phase' = "exit"
    BY <1>9 DEF EndReplay, Quit
  <2> QED BY <1>1, <2>1 DEF CommandOK
<1> QED BY <1>2, <1>3, <1>4, <1>5, <1>6, <1>7, <1>8, <1>9 DEF Next

\* parseFile() puts the next line where it belongs.
LEMMA FileLineKeeps ==
  ASSUME CommandOK, LinesOK, NEW line \in Line, ReadLine(line)
  PROVE  LinesOK'
<1> DEFINE n == Len(lines) + 1
<1>1. /\ phase = "parse" /\ phase' = "parse" /\ opts.replay /\ lines \in Seq(Line)
      /\ lines' = Append(lines, line) /\ Parser!ParseFileLine(line)
      /\ UNCHANGED <<opts, warned, ordersProcessed>>
      /\ ordersProcessed = 0 /\ warned = <<>>
  BY DEF ReadLine, CommandOK, Untouched, engineVars, outputVars
<1>2. /\ Len(lines') = n /\ lines'[n] = line
      /\ \A m \in DOMAIN lines : lines'[m] = lines[m] /\ m < n
      /\ HeaderSeen' <=> HeaderSeen \/ line.columns > 0
      /\ Good' = IF IsData(line) /\ Parser!Parses(line) THEN Good \cup {n} ELSE Good
      /\ Bad' = IF IsData(line) /\ ~Parser!Parses(line) THEN Bad \cup {n} ELSE Bad
  BY <1>1, LineAdded
<1>3. /\ Len(lines) \in Nat
      /\ Good \subseteq DOMAIN lines /\ IsFiniteSet(Good) /\ Good \subseteq Nat
      /\ Bad \subseteq DOMAIN lines /\ IsFiniteSet(Bad) /\ Bad \subseteq Nat
  BY <1>1, LineSets
<1>4. Parsed /\ Reported /\ lineNum = Len(lines) /\ (headerSkipped <=> HeaderSeen)
  BY <1>1 DEF LinesOK
<1>5. line.columns \in Nat /\ n \in Nat
  BY <1>3, LineAssumption
<1> HIDE DEF n
<1>6. lineNum' = n /\ (headerSkipped' <=> HeaderSeen')
  BY <1>1, <1>2, <1>4 DEF Parser!ParseFileLine, Parser!NextLine, n
<1>7. IsData(line) <=> line.columns # 0 /\ headerSkipped
  BY <1>1, <1>4, <1>5 DEF IsData
<1>8. CASE IsData(line) /\ Parser!Parses(line)
  <2>1. orders' = Append(orders, Parser!ParsedOrder(line)) /\ UNCHANGED errors
    BY <1>1, <1>7, <1>8 DEF Parser!ParseFileLine
  <2>2. Good' = Good \cup {n} /\ Bad' = Bad
    BY <1>2, <1>8
  <2>3. PICK e : e = Parser!ParsedOrder(line)
    OBVIOUS
  <2>4. e \in E!Input
    BY <1>8, <2>3, OrderParsed
  <2>5. orders \in Seq(E!Input) /\ Len(orders) = Cardinality(Good)
    BY <1>4 DEF Parsed
  <2>6. \A m \in Good : m < n
    BY <1>2, <1>3
  <2>7. orders' \in Seq(E!Input) /\ Longer(orders, Good, orders', n, e)
    BY <1>3, <1>5, <2>1, <2>3, <2>4, <2>5, <2>6, ListAdd
  <2>8. \A m \in Good : orders[Place(m, Good)] = Parser!ParsedOrder(lines'[m])
    BY <1>2, <1>3, <1>4 DEF Parsed
  <2>9. Parsed'
    BY <1>2, <2>1, <2>2, <2>3, <2>7, <2>8 DEF Parsed, Longer
  <2>10. Reported'
    BY <1>4, <2>1, <2>2 DEF Reported
  <2>11. ordersProcessed' <= Len(orders')
    BY <1>1, <2>7
  <2> QED BY <1>1, <1>2, <1>6, <2>9, <2>10, <2>11 DEF LinesOK
<1>9. CASE IsData(line) /\ ~Parser!Parses(line)
  <2>1. errors' = Append(errors, n) /\ UNCHANGED orders
    BY <1>1, <1>6, <1>7, <1>9 DEF Parser!ParseFileLine
  <2>2. Good' = Good /\ Bad' = Bad \cup {n}
    BY <1>2, <1>9
  <2>3. errors \in Seq(Nat) /\ Len(errors) = Cardinality(Bad)
    BY <1>4 DEF Reported
  <2>4. \A m \in Bad : m < n
    BY <1>2, <1>3
  <2>5. errors' \in Seq(Nat) /\ Longer(errors, Bad, errors', n, n)
    BY <1>3, <1>5, <2>1, <2>3, <2>4, ListAdd
  <2>6. Reported'
    BY <1>4, <2>1, <2>2, <2>5 DEF Reported, Longer
  <2>7. Parsed'
    BY <1>2, <1>3, <1>4, <2>1, <2>2 DEF Parsed
  <2>8. ordersProcessed' <= Len(orders')
    BY <1>1, <2>1 DEF LinesOK
  <2> QED BY <1>1, <1>2, <1>6, <2>6, <2>7, <2>8 DEF LinesOK
<1>10. CASE ~IsData(line)
  <2>1. UNCHANGED <<orders, errors>>
    BY <1>1, <1>7, <1>10 DEF Parser!ParseFileLine
  <2>2. Good' = Good /\ Bad' = Bad
    BY <1>2, <1>10
  <2>3. Parsed' /\ Reported'
    BY <1>2, <1>3, <1>4, <2>1, <2>2 DEF Parsed, Reported
  <2>4. ordersProcessed' <= Len(orders')
    BY <1>1, <2>1 DEF LinesOK
  <2> QED BY <1>1, <1>2, <1>6, <2>3, <2>4 DEF LinesOK
<1> QED BY <1>8, <1>9, <1>10

\* The file ends, or there is none.
LEMMA ReplayStarts ==
  ASSUME CommandOK, LinesOK, EndOfFile \/ CannotOpen
  PROVE  LinesOK'
<1>1. /\ phase = "parse" /\ phase' = "replay" /\ opts.replay
      /\ UNCHANGED <<opts, lines, orders, lineNum, headerSkipped, ordersProcessed>>
      /\ warned' = IF orders' = <<>> THEN errors' ELSE <<>>
      /\ UNCHANGED errors \/ errors' = <<0>>
  BY DEF EndOfFile, CannotOpen, StartReplay, CommandOK, parserVars, engineVars,
         Parser!CannotOpen
<1>2. Good' = Good /\ Bad' = Bad /\ HeaderSeen' = HeaderSeen
  BY <1>1, LinesSame
<1>3. /\ Parsed /\ Reported /\ lineNum = Len(lines) /\ (headerSkipped <=> HeaderSeen)
      /\ ordersProcessed <= Len(orders)
  BY <1>1 DEF LinesOK
<1>4. Parsed'
  BY <1>1, <1>2, <1>3 DEF Parsed
<1>5. UNCHANGED errors => Reported'
  BY <1>1, <1>2, <1>3 DEF Reported
<1> QED BY <1>1, <1>2, <1>3, <1>4, <1>5 DEF LinesOK

\* In a session a line is an order at once, or an error.
LEMMA SessionLineKeeps ==
  ASSUME CommandOK, LinesOK, NEW line \in Line, Enter(line)
  PROVE  LinesOK'
<1> DEFINE n == Len(lines) + 1
<1>1. /\ ~opts.replay /\ lines \in Seq(Line)
      /\ lines' = Append(lines, line) /\ UNCHANGED opts
  BY DEF Enter, CommandOK
<1>2. /\ \A m \in DOMAIN lines : m < n
      /\ Good' = IF IsData(line) /\ Parser!Parses(line) THEN Good \cup {n} ELSE Good
      /\ Bad' = IF IsData(line) /\ ~Parser!Parses(line) THEN Bad \cup {n} ELSE Bad
  BY <1>1, LineAdded
<1>3. /\ Len(lines) \in Nat
      /\ Good \subseteq DOMAIN lines /\ IsFiniteSet(Good) /\ Good \subseteq Nat
      /\ Bad \subseteq DOMAIN lines /\ IsFiniteSet(Bad) /\ Bad \subseteq Nat
  BY <1>1, LineSets
<1>4. IsData(line)
  BY <1>1 DEF IsData
<1>5. ordersProcessed = Cardinality(Good) /\ warned \in Seq(Nat) /\ Len(warned) = Cardinality(Bad)
  BY <1>1 DEF LinesOK
<1>6. n \in Nat /\ (\A m \in Good : m < n) /\ (\A m \in Bad : m < n)
  BY <1>2, <1>3
<1> HIDE DEF n
<1>7. /\ Cardinality(Good \cup {n}) = Cardinality(Good) + 1
      /\ Cardinality(Bad \cup {n}) = Cardinality(Bad) + 1
  BY <1>3, <1>6, PlaceAdd
<1>8. CASE Parser!Parses(line)
  <2>1. ordersProcessed' = ordersProcessed + 1 /\ UNCHANGED warned
    BY <1>8 DEF Enter, Engine!SubmitOrder
  <2> QED BY <1>1, <1>2, <1>4, <1>5, <1>7, <1>8, <2>1 DEF LinesOK
<1>9. CASE ~Parser!Parses(line)
  <2>1. UNCHANGED ordersProcessed /\ warned' = Append(warned, 0)
    BY <1>9 DEF Enter, engineVars
  <2>2. warned' \in Seq(Nat) /\ Len(warned') = Len(warned) + 1
    BY <1>5, <2>1
  <2> QED BY <1>1, <1>2, <1>4, <1>5, <1>7, <1>9, <2>1, <2>2 DEF LinesOK
<1> QED BY <1>8, <1>9

\* The engine is given the next order of the file.
LEMMA SubmitKeepsLines ==
  ASSUME CommandOK, LinesOK, E!IInv, SubmitNext
  PROVE  LinesOK'
<1>1. /\ UNCHANGED <<opts, phase, lines, parserVars, warned>> /\ opts.replay
      /\ ordersProcessed < Len(orders) /\ ordersProcessed' = ordersProcessed + 1
      /\ phase = "replay"
  BY DEF SubmitNext, CommandOK, Engine!SubmitOrder
<1>2. Good' = Good /\ Bad' = Bad /\ HeaderSeen' = HeaderSeen
  BY <1>1, LinesSame
<1>3. Parsed /\ ordersProcessed \in Nat
  BY <1>1 DEF LinesOK, E!IInv, E!BooksInv, E!TypeOK
<1>4. Len(orders) \in Nat
  BY <1>3 DEF Parsed
<1>5. ordersProcessed' <= Len(orders')
  BY <1>1, <1>3, <1>4 DEF parserVars
<1>6. Parsed' /\ (Reported => Reported')
  BY <1>1, <1>2, <1>3 DEF Parsed, Reported, parserVars
<1> QED BY <1>1, <1>2, <1>5, <1>6 DEF LinesOK, parserVars

LEMMA LinesKeeps ==
  ASSUME CommandOK, CommandOK', LinesOK, E!IInv, Next
  PROVE  LinesOK'
<1>1. ASSUME ReadOption \/ ChooseMode \/ RegisterSymbol PROVE LinesOK'
  <2>1. Blank'
    <3>1. CASE ReadOption \/ ChooseMode
      <4>1. UNCHANGED <<lines, parserVars, engineVars, outputVars>> /\ phase = "options"
        BY <3>1 DEF ReadOption, ChooseMode
      <4> QED BY <4>1 DEF CommandOK, Blank, Untouched, parserVars, engineVars, outputVars
    <3>2. CASE RegisterSymbol
      BY <3>2, SymbolTaken
    <3> QED BY <1>1, <3>1, <3>2
  <2>2. phase' \notin {"replay", "exit"}
    BY <1>1, SymbolTaken DEF ReadOption, ChooseMode
  <2>3. (Blank /\ phase \notin {"replay", "exit"} => LinesOK)'
    BY BlankLines, PTL
  <2> QED BY <2>1, <2>2, <2>3
<1>2. ASSUME EndReplay \/ Quit PROVE LinesOK'
  <2>1. /\ UNCHANGED <<opts, lines, parserVars, ordersProcessed, warned>> /\ phase' = "exit"
        /\ phase = "replay" \/ ~opts.replay
    BY <1>2 DEF EndReplay, Quit, engineVars, outputVars, CommandOK
  <2>2. Good' = Good /\ Bad' = Bad /\ HeaderSeen' = HeaderSeen
    BY <2>1, LinesSame
  <2>3. (Parsed => Parsed') /\ (Reported => Reported')
    BY <2>1, <2>2 DEF Parsed, Reported, parserVars
  <2> QED BY <2>1, <2>2, <2>3 DEF LinesOK, parserVars
<1> QED BY <1>1, <1>2, FileLineKeeps, SessionLineKeeps, ReplayStarts, SubmitKeepsLines DEF Next

------------------------------------------------------------------------------
(***************************************************************************)
(* What a step does to the engine and the tape: nothing has happened yet,  *)
(* nothing happens, or the order of one more line is submitted.            *)
(***************************************************************************)
Kept == /\ UNCHANGED <<engineVars, tape, opts>>
        /\ Sent' = Sent
        /\ \A m \in Sent : lines'[m] = lines[m]

Sends(n) ==
  /\ n \in Nat /\ lines'[n] \in Line /\ Parser!Parses(lines'[n])
  /\ Sent' = Sent \cup {n}
  /\ \A m \in Sent : m < n /\ lines'[m] = lines[m]
  /\ E!SubmitOrder(Parser!ParsedOrder(lines'[n]))
  /\ tape' = IF Taped THEN tape \o Printed(Parser!ParsedOrder(lines'[n]), result'.trades)
             ELSE tape
  /\ UNCHANGED opts

\* The next line of a file.
LEMMA SubmitSends ==
  ASSUME CommandOK, LinesOK, E!IInv, SubmitNext
  PROVE  \E n \in DOMAIN lines : Sends(n) /\ lines' = lines /\ orders[ordersProcessed'] = Parser!ParsedOrder(lines[n])
<1>1. /\ UNCHANGED <<opts, lines>> /\ opts.replay
      /\ ordersProcessed < Len(orders) /\ ordersProcessed' = ordersProcessed + 1
      /\ lines \in Seq(Line) /\ ordersProcessed \in Nat
  BY DEF SubmitNext, CommandOK, Engine!SubmitOrder, E!IInv, E!BooksInv, E!TypeOK
<1>2. /\ Good \subseteq DOMAIN lines /\ IsFiniteSet(Good) /\ Good \subseteq Nat
      /\ \A n \in DOMAIN lines : lines[n] \in Line
  BY <1>1, LineSets
<1>3. /\ Len(orders) = Cardinality(Good)
      /\ \A n \in Good : orders[Place(n, Good)] = Parser!ParsedOrder(lines[n])
  BY <1>1 DEF LinesOK, Parsed
<1>4. PICK good : good = Good
  OBVIOUS
<1>5. /\ Cardinality(good) \in Nat
      /\ \A n \in good : Place(n, good) \in 1 .. Cardinality(good)
      /\ \A m, n \in good : m < n => Place(m, good) < Place(n, good)
      /\ \A k \in 1 .. Cardinality(good) : \E n \in good : Place(n, good) = k
  <2>1. IsFiniteSet(good) /\ good \subseteq Nat
    BY <1>2, <1>4
  <2> QED BY <2>1, PlaceOrder
<1>6. ordersProcessed + 1 \in 1 .. Cardinality(good)
  BY <1>1, <1>3, <1>4, <1>5
<1>7. PICK n \in good : Place(n, good) = ordersProcessed + 1
  BY <1>5, <1>6
<1>8. Good' = Good
  BY <1>1, LinesSame
<1>9. /\ Sent = {m \in good : Place(m, good) <= ordersProcessed}
      /\ Sent' = {m \in good : Place(m, good) <= ordersProcessed + 1}
  BY <1>1, <1>4, <1>8 DEF Sent
<1>10. ASSUME NEW m \in good
       PROVE  /\ m < n => Place(m, good) <= ordersProcessed
              /\ n < m => Place(m, good) > ordersProcessed + 1
              /\ m \in Nat /\ Place(m, good) \in Nat
  <2>1. Place(m, good) \in 1 .. Cardinality(good) /\ m \in Nat
    BY <1>2, <1>4, <1>5
  <2>2. Place(m, good) \in Nat
    BY <1>5, <2>1
  <2>3. m < n => Place(m, good) < ordersProcessed + 1
    BY <1>5, <1>7
  <2>4. n < m => ordersProcessed + 1 < Place(m, good)
    BY <1>5, <1>7
  <2> QED BY <1>1, <2>1, <2>2, <2>3, <2>4
<1>11. n \in Nat
  BY <1>2, <1>4
<1>12. Sent' = Sent \cup {n}
  <2>1. \A m \in good : m < n \/ m = n \/ n < m
    BY <1>10, <1>11
  <2>2. \A m \in good : Place(m, good) <= ordersProcessed + 1 <=> m = n \/ Place(m, good) <= ordersProcessed
    BY <1>1, <1>7, <1>10, <2>1
  <2> QED BY <1>9, <2>2
<1>13. \A m \in Sent : m < n /\ lines'[m] = lines[m]
  <2>1. ASSUME NEW m \in Sent PROVE m < n
    <3>1. m \in good /\ Place(m, good) <= ordersProcessed
      BY <1>9
    <3>2. m # n /\ ~(n < m)
      BY <1>1, <1>7, <1>10, <3>1
    <3> QED BY <1>10, <1>11, <3>1, <3>2
  <2> QED BY <1>1, <2>1
<1>14. PICK order : order = orders[ordersProcessed + 1]
  OBVIOUS
<1>15. /\ order = Parser!ParsedOrder(lines[n]) /\ Parser!Parses(lines[n]) /\ lines[n] \in Line
       /\ n \in DOMAIN lines
  BY <1>2, <1>3, <1>4, <1>7, <1>14 DEF Good
<1>16. Engine!SubmitOrder(order) /\ tape' = IF opts.trades THEN tape \o Printed(order, result'.trades) ELSE tape
  BY <1>14 DEF SubmitNext
<1>17. E!SubmitOrder(order)
  BY <1>16, SameEngine
<1>18. Taped <=> opts.trades
  BY <1>1 DEF Taped
<1> QED BY <1>1, <1>11, <1>12, <1>13, <1>14, <1>15, <1>16, <1>17, <1>18 DEF Sends

\* All the lines of a session have been submitted that can be.
LEMMA SessionSent ==
  ASSUME lines \in Seq(Line), ordersProcessed = Cardinality(Good)
  PROVE  Sent = Good
<1>1. PICK good : good = Good
  OBVIOUS
<1>2. IsFiniteSet(good) /\ good \subseteq Nat
  BY <1>1, LineSets
<1>3. Cardinality(good) \in Nat /\ \A n \in good : Place(n, good) \in 1 .. Cardinality(good)
  BY <1>2, PlaceOrder
<1>4. \A n \in good : Place(n, good) <= ordersProcessed
  BY <1>1, <1>3
<1> QED BY <1>1, <1>4 DEF Sent

\* A line of a session.
LEMMA EnterSends ==
  ASSUME CommandOK, CommandOK', LinesOK, LinesOK', NEW line \in Line, Enter(line)
  PROVE  /\ Parser!Parses(line) => Sends(Len(lines) + 1) /\ lines'[Len(lines) + 1] = line
         /\ ~Parser!Parses(line) => Kept
<1> DEFINE n == Len(lines) + 1
<1>1. /\ ~opts.replay /\ UNCHANGED opts /\ lines' = Append(lines, line)
      /\ lines \in Seq(Line) /\ lines' \in Seq(Line)
  BY DEF Enter, CommandOK
<1>2. ordersProcessed = Cardinality(Good) /\ ordersProcessed' = Cardinality(Good')
  BY <1>1 DEF LinesOK
<1>3. Sent = Good
  BY <1>1, <1>2, SessionSent
<1>4. Sent' = Good'
  <2>1. (lines \in Seq(Line) /\ ordersProcessed = Cardinality(Good) => Sent = Good)'
    BY SessionSent, PTL
  <2> QED BY <1>1, <1>2, <2>1
<1>5. /\ lines'[n] = line /\ Len(lines) \in Nat
      /\ \A m \in DOMAIN lines : lines'[m] = lines[m] /\ m < n
      /\ Good' = IF IsData(line) /\ Parser!Parses(line) THEN Good \cup {n} ELSE Good
  BY <1>1, LineAdded
<1>6. Good \subseteq DOMAIN lines /\ IsData(line) /\ n \in Nat
  BY <1>1, <1>5, LineSets DEF IsData
<1> HIDE DEF n
<1>7. CASE Parser!Parses(line)
  <2>1. PICK order : order = Parser!ParsedOrder(line)
    OBVIOUS
  <2>2. Engine!SubmitOrder(order) /\ tape' = tape \o Printed(order, result'.trades)
    BY <1>7, <2>1 DEF Enter
  <2>3. E!SubmitOrder(order)
    BY <2>2, SameEngine
  <2>4. Taped
    BY <1>1 DEF Taped
  <2>5. \A m \in Sent : m < n /\ lines'[m] = lines[m]
    BY <1>3, <1>5, <1>6
  <2>6. Sent' = Sent \cup {n}
    BY <1>3, <1>4, <1>5, <1>6, <1>7
  <2>7. Sends(n)
    BY <1>1, <1>5, <1>6, <1>7, <2>1, <2>2, <2>3, <2>4, <2>5, <2>6 DEF Sends
  <2> QED BY <1>5, <1>7, <2>7 DEF n
<1>8. CASE ~Parser!Parses(line)
  <2>1. UNCHANGED <<engineVars, tape, opts>>
    BY <1>8 DEF Enter
  <2> QED BY <1>3, <1>4, <1>5, <1>6, <1>8, <2>1 DEF Kept
<1> QED BY <1>7, <1>8

LEMMA StepKinds ==
  ASSUME CommandOK, CommandOK', LinesOK, LinesOK', E!IInv, Next
  PROVE  Untouched' \/ Kept \/ \E n : Sends(n)
<1>1. ASSUME ReadOption \/ ChooseMode \/ \E line \in Line : ReadLine(line) PROVE Untouched'
  <2>1. UNCHANGED <<engineVars, outputVars>> /\ Untouched
    BY <1>1 DEF ReadOption, ChooseMode, ReadLine, CommandOK, Blank
  <2> QED BY <2>1 DEF Untouched, engineVars, outputVars
<1>2. ASSUME RegisterSymbol PROVE Untouched'
  BY <1>2, SymbolTaken DEF Blank
<1>3. ASSUME EndOfFile \/ CannotOpen \/ EndReplay \/ Quit PROVE Kept
  <2>1. UNCHANGED <<opts, lines, engineVars, tape>>
    BY <1>3 DEF EndOfFile, CannotOpen, EndReplay, Quit, StartReplay, outputVars
  <2>2. Good' = Good
    BY <2>1, LinesSame
  <2> QED BY <2>1, <2>2 DEF Kept, Sent, engineVars
<1>4. ASSUME SubmitNext PROVE \E n : Sends(n)
  BY <1>4, SubmitSends
<1>5. ASSUME NEW line \in Line, Enter(line) PROVE Kept \/ \E n : Sends(n)
  BY <1>5, EnterSends
<1> QED BY <1>1, <1>2, <1>3, <1>4, <1>5 DEF Next

\* The engine takes one step of its own, or none.
LEMMA EngineSteps ==
  ASSUME CommandOK, CommandOK', LinesOK, LinesOK', E!IInv, Next
  PROVE  \/ \E s \in Texts : E!RegisterSymbol(s)
         \/ \E o \in E!Input : E!SubmitOrder(o)
         \/ UNCHANGED engineVars
<1>1. ASSUME RegisterSymbol PROVE \E s \in Texts : E!RegisterSymbol(s)
  <2>1. PICK s : s = Head(opts.symbols)
    OBVIOUS
  <2>2. s \in Texts /\ Engine!RegisterSymbol(s)
    BY <1>1, <2>1, SymbolNamed DEF RegisterSymbol
  <2> QED BY <2>2, SameEngine
<1>2. ASSUME NEW n, Sends(n) PROVE \E o \in E!Input : E!SubmitOrder(o)
  <2>1. PICK line \in Line : line = lines'[n] /\ Parser!Parses(line)
    BY <1>2 DEF Sends
  <2>2. Parser!ParsedOrder(line) \in E!Input
    BY <2>1, OrderParsed
  <2> QED BY <1>2, <2>1, <2>2 DEF Sends
<1>3. ASSUME \/ ReadOption \/ ChooseMode \/ EndOfFile \/ CannotOpen \/ EndReplay \/ Quit
             \/ \E line \in Line : ReadLine(line)
      PROVE  UNCHANGED engineVars
  BY <1>3 DEF ReadOption, ChooseMode, EndOfFile, CannotOpen, EndReplay, Quit, ReadLine, StartReplay
<1>4. ASSUME SubmitNext \/ \E line \in Line : Enter(line)
      PROVE  UNCHANGED engineVars \/ \E n : Sends(n)
  BY <1>4, SubmitSends, EnterSends DEF Kept
<1> QED BY <1>1, <1>2, <1>3, <1>4 DEF Next

LEMMA EngineTakes ==
  ASSUME CommandOK, CommandOK', LinesOK, LinesOK', E!IInv, Next
  PROVE  /\ E!Next \/ UNCHANGED E!vars
         /\ Engine!Next \/ UNCHANGED Engine!vars
<1>1. CASE \E s \in Texts : E!RegisterSymbol(s)
  <2>1. PICK s \in Texts : E!RegisterSymbol(s) /\ Engine!RegisterSymbol(s)
    BY <1>1, SameEngine
  <2> QED BY <2>1 DEF E!Next, Engine!Next, Texts
<1>2. CASE \E o \in E!Input : E!SubmitOrder(o)
  <2>1. PICK o \in E!Input : E!SubmitOrder(o) /\ Engine!SubmitOrder(o) /\ o \in Engine!Input
    BY <1>2, SameEngine
  <2> QED BY <2>1 DEF E!Next, Engine!Next
<1>3. CASE UNCHANGED engineVars
  BY <1>3 DEF engineVars, E!vars, Engine!vars
<1> QED BY <1>1, <1>2, <1>3, EngineSteps

Base == CommandOK /\ LinesOK /\ E!IInv

LEMMA BaseStarts == Init => Base
<1>1. Init => LinesOK
  <2> SUFFICES ASSUME Init PROVE LinesOK
    OBVIOUS
  <2>1. phase \in {"usage", "options"}
    BY DEF Init
  <2> QED BY <2>1, CommandStarts, BlankLines DEF CommandOK
<1>2. Init => E!IInv
  <2>1. Init => E!Init
    BY SameEngine DEF Init
  <2> QED BY <2>1, EngineParameters, E!InitKeeps
<1> QED BY <1>1, <1>2, CommandStarts DEF Base

LEMMA BaseKeeps == Base /\ [Next]_vars => Base'
<1>1. ASSUME Base, Next PROVE Base'
  <2>1. CommandOK'
    BY <1>1, CommandKeeps DEF Base
  <2>2. LinesOK'
    BY <1>1, <2>1, LinesKeeps DEF Base
  <2>3. E!Next \/ UNCHANGED E!vars
    BY <1>1, <2>1, <2>2, EngineTakes DEF Base
  <2>4. E!IInv'
    <3>1. CASE E!Next
      BY <1>1, <3>1, EngineParameters, E!NextKeeps DEF Base
    <3>2. CASE UNCHANGED E!vars
      BY <1>1, <3>2, EngineParameters, E!StutterKeeps DEF Base
    <3> QED BY <2>3, <3>1, <3>2
  <2> QED BY <2>1, <2>2, <2>4 DEF Base
<1>2. ASSUME Base, UNCHANGED vars PROVE Base'
  <2>1. /\ UNCHANGED <<args, opts, phase, lines, lineNum, headerSkipped, orders, errors>>
        /\ UNCHANGED <<books, symbols, usedIds, ordersProcessed, tradesGenerated, result>>
        /\ UNCHANGED <<stats, warned, tape, published>>
    BY <1>2 DEF vars, parserVars, engineVars, outputVars
  <2>2. CommandOK'
    BY <1>2, <2>1 DEF Base, CommandOK, Blank, Untouched
  <2>3. Good' = Good /\ Bad' = Bad /\ HeaderSeen' = HeaderSeen
    BY <2>1, LinesSame
  <2>4. LinesOK'
    BY <1>2, <2>1, <2>3 DEF Base, LinesOK, Parsed, Reported
  <2>5. E!IInv'
    <3>1. UNCHANGED E!vars
      BY <2>1 DEF E!vars
    <3> QED BY <1>2, <3>1, EngineParameters, E!StutterKeeps DEF Base
  <2> QED BY <2>2, <2>4, <2>5 DEF Base
<1> QED BY <1>1, <1>2

LEMMA BaseHolds == Spec => []Base
BY BaseStarts, BaseKeeps, PTL DEF Spec

(***************************************************************************)
(* No line is lost, taken twice or out of order.                           *)
(***************************************************************************)
THEOREM NoLineLost == Spec => []LinesAccounted
<1>1. Base => LinesAccounted
  BY DEF Base, LinesOK, Parsed, Reported, LinesAccounted
<1> QED BY <1>1, BaseHolds, PTL

(***************************************************************************)
(* Whatever the command line, the file or the session: what the program    *)
(* does to its engine is what MatchingEngine does, so the engine's         *)
(* theorems hold in the program too.                                       *)
(***************************************************************************)
THEOREM EngineRuns == Spec => Engine!Spec
<1>1. Init => Engine!Init
  BY DEF Init
<1>2. Base /\ Base' /\ [Next]_vars => [Engine!Next]_(Engine!vars)
  <2>1. ASSUME Base, Base', Next PROVE Engine!Next \/ UNCHANGED Engine!vars
    BY <2>1, EngineTakes DEF Base
  <2>2. UNCHANGED vars => UNCHANGED Engine!vars
    BY DEF vars, engineVars, Engine!vars
  <2> QED BY <2>1, <2>2
<1> QED BY <1>1, <1>2, BaseHolds, PTL DEF Spec, Engine!Spec

------------------------------------------------------------------------------
(***************************************************************************)
(* The tape.                                                               *)
(***************************************************************************)
PrintedTrade == [symbol : {l.symbol : l \in Line}, taker : LineIds, maker : LineIds,
                 price : Int, qty : Nat]

\* What a tape says that an order traded.
Traded(t, id) == SumFunctionOnSet([i \in DOMAIN t |-> t[i].qty],
                                  {i \in DOMAIN t : id \in {t[i].maker, t[i].taker}})

\* One sequence behind another.
LEMMA JoinIs ==
  ASSUME NEW T, NEW t \in Seq(T), NEW p \in Seq(T)
  PROVE  /\ t \o p \in Seq(T) /\ Len(t \o p) = Len(t) + Len(p)
         /\ ToSet(t \o p) = ToSet(t) \cup ToSet(p)
         /\ \A i \in 1 .. Len(t) : (t \o p)[i] = t[i]
         /\ \A i \in 1 .. Len(p) : (t \o p)[Len(t) + i] = p[i]
<1> DEFINE u == t \o p
<1>1. /\ u \in Seq(T) /\ Len(u) = Len(t) + Len(p) /\ Len(t) \in Nat /\ Len(p) \in Nat
      /\ \A i \in 1 .. Len(t) : u[i] = t[i]
      /\ \A i \in 1 .. Len(p) : u[Len(t) + i] = p[i]
      /\ \A i \in 1 .. Len(u) : i \in 1 .. Len(t) \/ (i - Len(t) \in 1 .. Len(p) /\ u[i] = p[i - Len(t)])
  OBVIOUS
<1>2. DOMAIN u = 1 .. Len(u) /\ DOMAIN t = 1 .. Len(t) /\ DOMAIN p = 1 .. Len(p)
  BY <1>1
<1> HIDE DEF u
<1>3. \A i \in 1 .. Len(p) : Len(t) + i \in 1 .. Len(u)
  BY <1>1
<1>4. \A i \in 1 .. Len(t) : i \in 1 .. Len(u)
  BY <1>1
<1>5. \A i \in 1 .. Len(t) : t[i] \in ToSet(t)
  BY <1>2 DEF ToSet
<1>6. \A i \in 1 .. Len(p) : p[i] \in ToSet(p)
  BY <1>2 DEF ToSet
<1>7. \A i \in 1 .. Len(u) : u[i] \in ToSet(t) \cup ToSet(p)
  BY <1>1, <1>5, <1>6
<1>8. ToSet(t) \cup ToSet(p) \subseteq ToSet(u)
  <2>1. ASSUME NEW i \in 1 .. Len(t) PROVE t[i] \in ToSet(u)
    <3>1. u[i] = t[i] /\ i \in DOMAIN u
      BY <1>1, <1>2, <1>4
    <3> QED BY <3>1 DEF ToSet
  <2>2. ASSUME NEW i \in 1 .. Len(p) PROVE p[i] \in ToSet(u)
    <3>1. u[Len(t) + i] = p[i] /\ Len(t) + i \in DOMAIN u
      BY <1>1, <1>2, <1>3
    <3> QED BY <3>1 DEF ToSet
  <2>3. \A x \in ToSet(t) : \E i \in 1 .. Len(t) : x = t[i]
    BY <1>2 DEF ToSet
  <2>4. \A x \in ToSet(p) : \E i \in 1 .. Len(p) : x = p[i]
    BY <1>2 DEF ToSet
  <2> QED BY <2>1, <2>2, <2>3, <2>4
<1>9. ToSet(u) \subseteq ToSet(t) \cup ToSet(p)
  <2> SUFFICES ASSUME NEW x \in ToSet(u) PROVE x \in ToSet(t) \cup ToSet(p)
    OBVIOUS
  <2>1. PICK i \in 1 .. Len(u) : x = u[i]
    BY <1>2 DEF ToSet
  <2> QED BY <1>7, <2>1
<1>10. ToSet(u) = ToSet(t) \cup ToSet(p)
  BY <1>8, <1>9
<1> QED BY <1>1, <1>10 DEF u

\* The trades of one more order, as a tape p that makes t into u.
Lengthens(order, trades, t, p, u) ==
  /\ p \in Seq(PrintedTrade) /\ u \in Seq(PrintedTrade)
  /\ Len(p) = Len(trades) /\ Len(u) = Len(t) + Len(trades)
  /\ ToSet(u) = ToSet(t) \cup ToSet(p)
  /\ \A x \in ToSet(p) : \E f \in ToSet(trades) :
       /\ x.symbol = order.symbol /\ x.taker = order.id /\ x.maker = f.maker
       /\ x.price = f.price /\ x.qty = f.qty

LEMMA TapeAdd ==
  ASSUME NEW t \in Seq(PrintedTrade), NEW trades \in Seq(E!Trade),
         NEW order, order.id \in LineIds, order.symbol \in {l.symbol : l \in Line}
  PROVE  Lengthens(order, trades, t, Printed(order, trades), t \o Printed(order, trades))
<1> DEFINE p == Printed(order, trades)
           u == t \o p
<1>1. /\ Len(trades) \in Nat /\ DOMAIN trades = 1 .. Len(trades)
      /\ \A i \in 1 .. Len(trades) : trades[i] \in E!Trade
  OBVIOUS
<1>2. {Parser!ToFixedPrice(l.price) : l \in Parsing} \subseteq Int
  <2>1. \A l \in Parsing : l.price \in Int
    BY OrderParsed DEF Parsing
  <2> QED BY <2>1, FixedPrice
<1>3. \A i \in 1 .. Len(trades) :
        /\ trades[i].maker \in LineIds /\ trades[i].price \in Int /\ trades[i].qty \in Nat
  BY <1>1, <1>2 DEF E!Trade
<1>4. p = [i \in 1 .. Len(trades) |->
             [symbol |-> order.symbol, taker |-> order.id, maker |-> trades[i].maker,
              price |-> trades[i].price, qty |-> trades[i].qty]]
  BY <1>1 DEF Printed
<1> HIDE DEF p
<1>5. \A i \in 1 .. Len(trades) : p[i] \in PrintedTrade
  BY <1>3, <1>4 DEF PrintedTrade
<1>6. p \in Seq(PrintedTrade) /\ Len(p) = Len(trades) /\ DOMAIN p = 1 .. Len(trades)
  BY <1>1, <1>4, <1>5
<1>7. u \in Seq(PrintedTrade) /\ Len(u) = Len(t) + Len(p) /\ ToSet(u) = ToSet(t) \cup ToSet(p)
  BY <1>6, JoinIs
<1>8. ASSUME NEW x \in ToSet(p)
      PROVE  \E f \in ToSet(trades) :
               /\ x.symbol = order.symbol /\ x.taker = order.id /\ x.maker = f.maker
               /\ x.price = f.price /\ x.qty = f.qty
  <2>1. PICK i \in 1 .. Len(trades) : x = p[i]
    BY <1>6 DEF ToSet
  <2>2. trades[i] \in ToSet(trades)
    BY <1>1 DEF ToSet
  <2> QED BY <1>4, <2>1, <2>2
<1> HIDE DEF u
<1>9. Lengthens(order, trades, t, p, u)
  BY <1>6, <1>7, <1>8 DEF Lengthens
<1> QED BY <1>9 DEF p, u

\* What the engine has parsed can be printed.
LEMMA ParsedPrints ==
  ASSUME NEW line \in Line, Parser!Parses(line), NEW order, order = Parser!ParsedOrder(line)
  PROVE  order.id \in LineIds /\ order.symbol \in {l.symbol : l \in Line} /\ order.symbol = line.symbol
BY OrderParsed DEF E!Input

\* What an order has traded is on the tape, and what it trades comes to that.
LEMMA TradedAdd ==
  ASSUME NEW t \in Seq(PrintedTrade), NEW line \in Line, Parser!Parses(line),
         NEW trades \in Seq(E!Trade), NEW id
  PROVE  LET order == Parser!ParsedOrder(line) IN
         /\ Traded(t, id) \in Nat
         /\ Traded(t \o Printed(order, trades), id) = Traded(t, id) + E!Share(order, trades, id)
<1> DEFINE order == Parser!ParsedOrder(line)
           p == Printed(order, trades)
           u == t \o p
           f == [i \in DOMAIN t |-> t[i].qty]
           g == [i \in DOMAIN trades |-> trades[i].qty]
           k == [i \in DOMAIN u |-> u[i].qty]
           A == {i \in DOMAIN t : id \in {t[i].maker, t[i].taker}}
           B == {i \in DOMAIN trades : id \in {trades[i].maker, order.id}}
           h == [i \in B |-> Len(t) + i]
           C == {h[i] : i \in B}
<1>1. /\ p \in Seq(PrintedTrade) /\ u \in Seq(PrintedTrade) /\ Len(p) = Len(trades)
      /\ Len(u) = Len(t) + Len(trades)
  <2>1. order.id \in LineIds /\ order.symbol \in {l.symbol : l \in Line}
    BY ParsedPrints
  <2> HIDE DEF order
  <2>2. Lengthens(order, trades, t, Printed(order, trades), t \o Printed(order, trades))
    BY <2>1, TapeAdd
  <2> QED BY <2>2 DEF Lengthens
<1>2. /\ Len(trades) \in Nat /\ DOMAIN trades = 1 .. Len(trades)
      /\ Len(t) \in Nat /\ DOMAIN t = 1 .. Len(t)
      /\ \A i \in 1 .. Len(trades) : trades[i].qty \in Nat
      /\ \A i \in 1 .. Len(t) : t[i].qty \in Nat
  <2>1. \A i \in 1 .. Len(trades) : trades[i] \in E!Trade
    OBVIOUS
  <2>2. \A i \in 1 .. Len(t) : t[i] \in PrintedTrade
    OBVIOUS
  <2> QED BY <2>1, <2>2 DEF E!Trade, PrintedTrade
<1>3. \A i \in 1 .. Len(trades) : /\ p[i].maker = trades[i].maker /\ p[i].taker = order.id
                                  /\ p[i].qty = trades[i].qty
  BY <1>2 DEF Printed
<1> HIDE DEF p, order
<1>4. /\ DOMAIN u = 1 .. Len(u)
      /\ \A i \in 1 .. Len(t) : u[i] = t[i] /\ i \in DOMAIN u
      /\ \A i \in 1 .. Len(trades) : u[Len(t) + i] = p[i] /\ Len(t) + i \in DOMAIN u
      /\ \A i \in DOMAIN u : i \in 1 .. Len(t) \/ i - Len(t) \in 1 .. Len(trades)
  BY <1>1, <1>2
<1> HIDE DEF u
<1>5. IsFiniteSet(A) /\ IsFiniteSet(B) /\ A \subseteq 1 .. Len(t) /\ B \subseteq 1 .. Len(trades)
  <2>1. A \subseteq 1 .. Len(t) /\ B \subseteq 1 .. Len(trades)
    BY <1>2
  <2>2. IsFiniteSet(1 .. Len(t)) /\ IsFiniteSet(1 .. Len(trades))
    BY <1>2, FS_Interval
  <2> HIDE DEF A, B
  <2> QED BY <2>1, <2>2, FS_Subset
<1>6. /\ \A i \in A : f[i] \in Nat /\ f[i] \in Int /\ k[i] = f[i]
      /\ \A i \in B : g[i] \in Int /\ k[h[i]] = g[i]
  <2>1. \A i \in A : f[i] = t[i].qty /\ k[i] = u[i].qty
    BY <1>2, <1>4, <1>5
  <2>2. \A i \in B : g[i] = trades[i].qty /\ h[i] = Len(t) + i /\ k[Len(t) + i] = u[Len(t) + i].qty
    BY <1>2, <1>4, <1>5
  <2> HIDE DEF A, B, f, g, k, h
  <2>3. ASSUME NEW i \in A PROVE f[i] \in Nat /\ f[i] \in Int /\ k[i] = f[i]
    <3>1. i \in 1 .. Len(t)
      BY <1>5
    <3> QED BY <1>2, <1>4, <2>1, <3>1
  <2>4. ASSUME NEW i \in B PROVE g[i] \in Int /\ k[h[i]] = g[i]
    <3>1. i \in 1 .. Len(trades)
      BY <1>5
    <3> QED BY <1>2, <1>3, <1>4, <2>2, <3>1
  <2> QED BY <2>3, <2>4
<1>7. \A i, j \in B : h[i] = h[j] => i = j
  BY <1>2, <1>5
<1>8. A \cap C = {} /\ C \subseteq 1 .. Len(u)
  <2>1. \A i \in B : h[i] = Len(t) + i
    OBVIOUS
  <2> HIDE DEF h, B, A
  <2> QED BY <1>1, <1>2, <1>4, <1>5, <2>1
<1>9. {i \in DOMAIN u : id \in {u[i].maker, u[i].taker}} = A \cup C
  <2>1. ASSUME NEW i \in 1 .. Len(t)
        PROVE  id \in {u[i].maker, u[i].taker} <=> i \in A
    BY <1>2, <1>4, <2>1
  <2>2. ASSUME NEW i \in 1 .. Len(trades)
        PROVE  id \in {u[Len(t) + i].maker, u[Len(t) + i].taker} <=> i \in B
    BY <1>2, <1>3, <1>4, <2>2
  <2>3. ASSUME NEW i \in B PROVE Len(t) + i \in C
    <3>1. h[i] = Len(t) + i
      OBVIOUS
    <3> QED BY <3>1
  <2>4. ASSUME NEW c \in C PROVE c - Len(t) \in B /\ c = Len(t) + (c - Len(t))
    <3>1. PICK i \in B : c = Len(t) + i
      OBVIOUS
    <3>2. i \in Nat
      BY <1>5
    <3>3. c - Len(t) = i
      BY <1>2, <3>1, <3>2
    <3> QED BY <3>1, <3>3
  <2> HIDE DEF A, B, C, h
  <2>5. ASSUME NEW i \in DOMAIN u, id \in {u[i].maker, u[i].taker} PROVE i \in A \cup C
    <3>1. CASE i \in 1 .. Len(t)
      BY <2>1, <2>5, <3>1
    <3>2. CASE i - Len(t) \in 1 .. Len(trades)
      <4>1. PICK j \in 1 .. Len(trades) : i = Len(t) + j
        <5>1. i = Len(t) + (i - Len(t))
          BY <1>1, <1>2, <1>4
        <5> QED BY <3>2, <5>1
      <4>2. j \in B
        BY <2>2, <2>5, <4>1
      <4> QED BY <2>3, <4>1, <4>2
    <3> QED BY <1>4, <3>1, <3>2
  <2>6. ASSUME NEW i \in A PROVE i \in DOMAIN u /\ id \in {u[i].maker, u[i].taker}
    BY <1>4, <1>5, <2>1
  <2>7. ASSUME NEW i \in C PROVE i \in DOMAIN u /\ id \in {u[i].maker, u[i].taker}
    <3>1. PICK j \in B : i = Len(t) + j
      BY <2>4
    <3>2. j \in 1 .. Len(trades)
      BY <1>5
    <3> QED BY <1>4, <2>2, <3>1, <3>2
  <2> QED BY <2>5, <2>6, <2>7
<1>10. IsFiniteSet(C)
  <2>1. h \in Surjection(B, C)
    BY DEF Surjection
  <2> HIDE DEF h, B, C
  <2> QED BY <1>5, <2>1, FS_Surjection
<1>11. \A i \in C : k[i] \in Int
  <2> HIDE DEF k, h, B, g
  <2> QED BY <1>6
<1> HIDE DEF f, g, k, A, B, h
<1>12. SumFunctionOnSet(k, A) = SumFunctionOnSet(f, A)
  BY <1>5, <1>6, SumCongruent
<1>13. SumFunctionOnSet(k, C) = SumFunctionOnSet(g, B)
  <2>1. \A i \in B : g[i] \in Int
    BY <1>6
  <2>2. \A i \in B : k[h[i]] = g[i]
    BY <1>6
  <2>3. \A i \in B : h[i] \in C
    OBVIOUS
  <2>4. \A j \in C : \E i \in B : h[i] = j
    OBVIOUS
  <2>5. IsFiniteSet(B)
    BY <1>5
  <2> HIDE DEF C
  <2> QED BY <1>7, <2>1, <2>2, <2>3, <2>4, <2>5, SumImage, SMTT(30)
<1> HIDE DEF C
<1>14. SumFunctionOnSet(k, A \cup C) = SumFunctionOnSet(k, A) + SumFunctionOnSet(k, C)
  <2>1. \A i \in A \cup C : k[i] \in Int
    BY <1>6, <1>11
  <2> QED BY <1>5, <1>8, <1>10, <2>1, SumDisjoint
<1>15. Traded(t, id) = SumFunctionOnSet(f, A)
  BY DEF Traded, f, A
<1>16. Traded(u, id) = SumFunctionOnSet(k, A \cup C)
  BY <1>9 DEF Traded, k
<1>17. E!Share(order, trades, id) = SumFunctionOnSet(g, B)
  BY SameShares DEF g, B
<1>18. SumFunctionOnSet(f, A) \in Nat
  BY <1>5, <1>6, SumNat
<1> QED BY <1>12, <1>13, <1>14, <1>15, <1>16, <1>17, <1>18 DEF u, p, order

\* An order that no trade names has traded nothing.
LEMMA TradedNone ==
  ASSUME NEW t, NEW id, \A x \in ToSet(t) : id \notin {x.maker, x.taker}
  PROVE  Traded(t, id) = 0
<1>1. {i \in DOMAIN t : id \in {t[i].maker, t[i].taker}} = {}
  BY DEF ToSet
<1> QED BY <1>1, SumEmpty DEF Traded

------------------------------------------------------------------------------
(***************************************************************************)
(* Who an id belongs to.                                                   *)
(***************************************************************************)
\* The ids on the lines.
Named == [n \in DOMAIN lines |-> Whole(lines[n].id)]

\* The lines sent are ones that parse.
LEMMA SentLines ==
  ASSUME lines \in Seq(Line)
  PROVE  /\ Sent \subseteq DOMAIN lines /\ Sent \subseteq Nat /\ Claims \subseteq Sent
         /\ \A n \in Sent : lines[n] \in Line /\ Parser!Parses(lines[n])
<1>1. /\ Good \subseteq DOMAIN lines /\ DOMAIN lines \subseteq Nat
      /\ \A n \in DOMAIN lines : lines[n] \in Line
  BY LineSets
<1> QED BY <1>1 DEF Sent, Claims, Good

LEMMA OwnersFirst ==
  ASSUME lines \in Seq(Line)
  PROVE  /\ Owners = FirstOf(Claims, Named)
         /\ \A id \in DOMAIN Owners :
              /\ Owners[id] \in Claims /\ Owners[id] \in Sent /\ Owners[id] \in Nat
              /\ Whole(lines[Owners[id]].id) = id
<1>1. /\ Claims \subseteq DOMAIN lines /\ Claims \subseteq Nat /\ Claims \subseteq Sent
  BY SentLines
<1>2. \A n \in Claims : Named[n] = Whole(lines[n].id)
  BY <1>1 DEF Named
<1>3. PICK claims, key : claims = Claims /\ key = Named
  OBVIOUS
<1>4. {Whole(lines[n].id) : n \in claims} = {key[n] : n \in claims}
  BY <1>2, <1>3
<1>5. \A id : {n \in claims : Whole(lines[n].id) = id} = {n \in claims : key[n] = id}
  BY <1>2, <1>3
<1>6. Owners = [id \in {key[n] : n \in claims} |-> Min({n \in claims : key[n] = id})]
  BY <1>3, <1>4, <1>5 DEF Owners
<1>7. Owners = FirstOf(claims, key)
  BY <1>6 DEF FirstOf
<1>8. ASSUME NEW id \in DOMAIN Owners
      PROVE  /\ Owners[id] \in Claims /\ Owners[id] \in Sent /\ Owners[id] \in Nat
             /\ Whole(lines[Owners[id]].id) = id
  <2>1. claims \subseteq Nat /\ id \in DOMAIN FirstOf(claims, key)
    BY <1>1, <1>3, <1>7
  <2>2. /\ FirstOf(claims, key)[id] \in claims /\ key[FirstOf(claims, key)[id]] = id
        /\ \A n \in claims : key[n] = id => FirstOf(claims, key)[id] <= n
    BY <2>1, FirstOfIs
  <2> QED BY <1>1, <1>2, <1>3, <1>7, <2>2
<1> QED BY <1>3, <1>7, <1>8

\* An owner's line is an acceptable one.
LEMMA OwnerLine ==
  ASSUME lines \in Seq(Line), NEW id \in DOMAIN Owners
  PROVE  LET line == lines[Owners[id]] IN
         /\ line \in Line /\ Parser!Parses(line) /\ Acceptable(line)
         /\ line.price \in Int /\ Quantity(line) \in Nat /\ line.side \in Side
         /\ Parser!ParsedOrder(line).id = id
<1>1. Owners[id] \in Claims /\ Owners[id] \in Sent /\ Whole(lines[Owners[id]].id) = id
  BY OwnersFirst
<1>2. lines[Owners[id]] \in Line /\ Parser!Parses(lines[Owners[id]]) /\ Acceptable(lines[Owners[id]])
  BY <1>1, SentLines DEF Claims
<1> QED BY <1>1, <1>2, OrderParsed

\* The owners do not change as long as no line is sent.
LEMMA OwnersSame ==
  ASSUME lines \in Seq(Line), Sent' = Sent, \A m \in Sent : lines'[m] = lines[m], UNCHANGED symbols
  PROVE  /\ Owners' = Owners
         /\ \A id \in DOMAIN Owners : lines'[Owners[id]] = lines[Owners[id]]
<1>1. Claims' = Claims /\ Claims \subseteq Sent
  <2>1. Claims' = {n \in Sent' : Acceptable(lines[n])'}
    BY DEF Claims
  <2>2. \A n \in Sent : Acceptable(lines[n])' <=> Acceptable(lines[n])
    BY DEF Acceptable, Quantity
  <2> QED BY <2>1, <2>2 DEF Claims
<1>2. \A n \in Claims : lines'[n] = lines[n]
  BY <1>1
<1>3. PICK claims : claims = Claims
  OBVIOUS
<1>4. /\ {Whole(lines'[n].id) : n \in claims} = {Whole(lines[n].id) : n \in claims}
      /\ \A id : {n \in claims : Whole(lines'[n].id) = id}
                   = {n \in claims : Whole(lines[n].id) = id}
  BY <1>2, <1>3
<1>5. Owners' = [id \in {Whole(lines'[n].id) : n \in claims} |->
                   Min({n \in claims : Whole(lines'[n].id) = id})]
  BY <1>1, <1>3 DEF Owners
<1>6. Owners = [id \in {Whole(lines[n].id) : n \in claims} |->
                  Min({n \in claims : Whole(lines[n].id) = id})]
  BY <1>3 DEF Owners
<1>7. Owners' = Owners
  BY <1>4, <1>5, <1>6
<1>8. ASSUME NEW id \in DOMAIN Owners PROVE lines'[Owners[id]] = lines[Owners[id]]
  <2>1. Owners[id] \in Claims
    BY OwnersFirst
  <2> QED BY <1>2, <2>1
<1> QED BY <1>7, <1>8

\* A line that is sent owns its id if it is acceptable and the id is free.
LEMMA OwnersSend ==
  ASSUME lines \in Seq(Line), lines' \in Seq(Line), UNCHANGED symbols, NEW n, Sends(n),
         NEW line, line = lines'[n], NEW id, id = Whole(line.id)
  PROVE  /\ \A i \in DOMAIN Owners : lines'[Owners[i]] = lines[Owners[i]] /\ Owners[i] < n
         /\ Acceptable(line) /\ id \notin DOMAIN Owners =>
              /\ DOMAIN Owners' = DOMAIN Owners \cup {id} /\ Owners'[id] = n
              /\ \A i \in DOMAIN Owners : Owners'[i] = Owners[i]
         /\ ~(Acceptable(line) /\ id \notin DOMAIN Owners) => Owners' = Owners
<1>1. /\ n \in Nat /\ Sent' = Sent \cup {n}
      /\ \A m \in Sent : m < n /\ lines'[m] = lines[m]
  BY DEF Sends
<1>2. Claims \subseteq Sent /\ Claims \subseteq Nat
  BY SentLines
<1>3. Claims' = Claims \cup (IF Acceptable(line) THEN {n} ELSE {})
  <2>1. Claims' = {m \in Sent' : Acceptable(lines[m])'}
    BY DEF Claims
  <2>2. \A m \in Sent : Acceptable(lines[m])' <=> Acceptable(lines[m])
    BY <1>1 DEF Acceptable, Quantity
  <2>3. Acceptable(lines[n])' <=> Acceptable(line)
    BY DEF Acceptable, Quantity
  <2> QED BY <1>1, <2>1, <2>2, <2>3 DEF Claims
<1>4. /\ Owners = FirstOf(Claims, Named)
      /\ \A i \in DOMAIN Owners : Owners[i] \in Sent
  BY OwnersFirst
<1>5. Owners' = FirstOf(Claims', Named')
  <2>1. (lines \in Seq(Line) => Owners = FirstOf(Claims, Named))'
    BY OwnersFirst, PTL
  <2> QED BY <2>1 DEF FirstOf
<1>6. \A i \in DOMAIN Owners : lines'[Owners[i]] = lines[Owners[i]] /\ Owners[i] < n
  BY <1>1, <1>4
<1>7. PICK claims, key, new, all : /\ claims = Claims /\ key = Named /\ new = Named' /\ all = Claims'
  OBVIOUS
<1>8. /\ \A m \in claims : new[m] = key[m]
      /\ n \in all => new[n] = id
  <2>1. claims \subseteq DOMAIN lines /\ all \subseteq DOMAIN lines'
    <3>1. Claims \subseteq DOMAIN lines
      BY SentLines
    <3>2. (lines \in Seq(Line) => Sent \subseteq DOMAIN lines /\ Claims \subseteq Sent)'
      BY SentLines, PTL
    <3> QED BY <1>7, <3>1, <3>2
  <2>2. \A m \in claims : m \in all
    BY <1>3, <1>7
  <2>3. \A m \in claims : key[m] = Whole(lines[m].id)
    BY <1>7, <2>1 DEF Named
  <2>4. \A m \in all : new[m] = Whole(lines'[m].id)
    BY <1>7, <2>1 DEF Named
  <2>5. \A m \in claims : lines'[m] = lines[m]
    BY <1>1, <1>2, <1>7
  <2> QED BY <2>2, <2>3, <2>4, <2>5
<1>9. CASE Acceptable(line)
  <2>1. all = claims \cup {n} /\ new[n] = id
    BY <1>3, <1>7, <1>8, <1>9
  <2>2. claims \subseteq Nat /\ \A m \in claims : m < n
    BY <1>1, <1>2, <1>7
  <2>3. Joins(n, new[n], FirstOf(claims, key), FirstOf(claims \cup {n}, new))
    <3>1. n \in Nat
      BY <1>1
    <3>2. claims \subseteq Nat
      BY <2>2
    <3>3. \A m \in claims : m < n
      BY <2>2
    <3>4. \A m \in claims : new[m] = key[m]
      BY <1>8
    <3> QED BY <3>1, <3>2, <3>3, <3>4, FirstOfAdd
  <2>4. Owners = FirstOf(claims, key) /\ Owners' = FirstOf(claims \cup {n}, new)
    BY <1>4, <1>5, <1>7, <2>1
  <2> QED BY <1>6, <1>9, <2>1, <2>3, <2>4 DEF Joins
<1>10. CASE ~Acceptable(line)
  <2>1. all = claims
    BY <1>3, <1>7, <1>10
  <2>2. {new[m] : m \in claims} = {key[m] : m \in claims}
    BY <1>8
  <2>3. \A k : {m \in claims : new[m] = k} = {m \in claims : key[m] = k}
    BY <1>8
  <2>4. FirstOf(claims, new) = FirstOf(claims, key)
    BY <2>2, <2>3 DEF FirstOf
  <2> QED BY <1>4, <1>5, <1>6, <1>7, <1>10, <2>1, <2>4
<1> QED BY <1>9, <1>10

------------------------------------------------------------------------------
(***************************************************************************)
(* The inductive invariant of the books and the tape: an entry is what is  *)
(* left of its owner's line.  What a line traded is known only from a tape *)
(* with every trade on it.                                                 *)
(***************************************************************************)
RestOf(s, side, e, line) ==
  /\ line.type = "LIMIT" /\ line.side = side /\ line.symbol = s
  /\ e.price = Parser!ToFixedPrice(line.price)

\* The lines of a maker and a taker.
Meet(t, maker, taker) ==
  /\ maker.symbol = t.symbol /\ taker.symbol = t.symbol
  /\ maker.side = Opposite(taker.side) /\ maker.type = "LIMIT"
  /\ RoundsTo(maker.price, t.price)
  /\ taker.type # "MARKET" => IF taker.side = "BUY" THEN 2 * t.price <= taker.price + 1
                              ELSE 2 * t.price >= taker.price

EntriesOK ==
  \A s \in symbols, side \in Side : \A e \in ToSet(books[s][side]) :
    /\ RestOf(s, side, e, lines[Owners[e.id]])
    /\ Taped => e.open = Quantity(lines[Owners[e.id]]) - Traded(tape, e.id)

TradedOK == \A id \in usedIds : Traded(tape, id) <= Quantity(lines[Owners[id]])

TapeOK ==
  /\ tape \in Seq(PrintedTrade)
  /\ ~Taped => tape = <<>>
  /\ \A t \in ToSet(tape) : /\ t.maker \in usedIds /\ t.taker \in usedIds
                            /\ Owners[t.maker] < Owners[t.taker]
                            /\ Meet(t, lines[Owners[t.maker]], lines[Owners[t.taker]])

Explained == usedIds = DOMAIN Owners /\ EntriesOK /\ TradedOK /\ TapeOK

\* What rests is used, and rests in one book.
LEMMA RestUsed ==
  ASSUME E!BooksInv, NEW s \in symbols, NEW side \in Side, NEW e \in ToSet(books[s][side])
  PROVE  /\ e.id \in usedIds /\ e.id \in E!RestingIds(books[s]) /\ e.id \in E!AllResting
         /\ \A t \in symbols : t # s => e.id \notin E!RestingIds(books[t])
<1>1. e.id \in E!RestingIds(books[s])
  BY SameShares DEF E!RestingIds
<1>2. E!Apart /\ E!AllResting \subseteq usedIds
  BY DEF E!BooksInv
<1> QED BY <1>1, <1>2 DEF E!Apart, E!Resting, E!AllResting

\* A price that a taker reaches is one its line allows.
LEMMA ReachedAllowed ==
  ASSUME NEW line \in Line, Parser!Parses(line), NEW p \in Int, p > 0,
         E!Marketable(Parser!ParsedOrder(line), p)
  PROVE  line.type = "MARKET" \/ IF line.side = "BUY" THEN 2 * p <= line.price + 1
                                 ELSE 2 * p >= line.price
<1> DEFINE order == Parser!ParsedOrder(line)
           q == Parser!ToFixedPrice(line.price)
<1>1. /\ order.type = line.type /\ order.side = line.side /\ order.price = q
      /\ line.price \in Int /\ line.side \in Side
  BY OrderParsed
<1>2. order.type = "MARKET" \/ AsGood(Opposite(order.side), p, order.price)
  BY SameShares DEF Marketable
<1>3. q \in Int
  BY <1>1, FixedPrice
<1>4. /\ line.price >= 0 => 2 * q - line.price \in {0, 1}
      /\ line.price < -1 => 2 * q - line.price \in {1, 2}
      /\ q > 0 <=> line.price > 0
      /\ line.price = -1 => q = 0
  BY <1>1, PricesRounded, FixedPrice
<1> HIDE DEF q, order
<1>5. CASE line.type # "MARKET" /\ line.side = "BUY"
  <2>1. p <= q
    BY <1>1, <1>2, <1>5 DEF AsGood, Opposite
  <2>2. line.price > 0
    BY <1>1, <1>3, <1>4, <2>1
  <2> QED BY <1>1, <1>3, <1>4, <1>5, <2>1, <2>2
<1>6. CASE line.type # "MARKET" /\ line.side # "BUY"
  <2>1. p >= q
    BY <1>1, <1>2, <1>6 DEF AsGood, Opposite, Side
  <2>2. 2 * q >= line.price
    BY <1>1, <1>3, <1>4
  <2> QED BY <1>1, <1>3, <1>6, <2>1, <2>2
<1> QED BY <1>5, <1>6

\* No order yet, nothing to explain.
LEMMA UntouchedExplained ==
  CommandOK /\ Untouched => Explained
<1> SUFFICES ASSUME CommandOK, Untouched PROVE Explained
  OBVIOUS
<1>1. /\ usedIds = {} /\ ordersProcessed = 0 /\ tape = <<>> /\ lines \in Seq(Line)
      /\ \A s \in symbols : books[s] = EmptyBook
  BY DEF Untouched, CommandOK
<1>2. PICK good : good = Good
  OBVIOUS
<1>3. IsFiniteSet(good) /\ good \subseteq Nat
  BY <1>1, <1>2, LineSets
<1>4. Cardinality(good) \in Nat /\ \A n \in good : Place(n, good) \in 1 .. Cardinality(good)
  BY <1>3, PlaceOrder
<1>5. Sent = {}
  <2>1. \A n \in good : ~(Place(n, good) <= 0)
    BY <1>4
  <2> QED BY <1>1, <1>2, <2>1 DEF Sent
<1>6. Claims = {} /\ DOMAIN Owners = {}
  BY <1>5 DEF Claims, Owners
<1>7. ToSet(<<>>) = {}
  BY DEF ToSet
<1>8. \A s \in symbols, side \in Side : ToSet(books[s][side]) = {}
  BY <1>1, <1>7 DEF EmptyBook
<1>9. tape \in Seq(PrintedTrade)
  BY <1>1
<1> QED BY <1>1, <1>6, <1>7, <1>8, <1>9 DEF Explained, EntriesOK, TradedOK, TapeOK

\* No order, nothing new to explain.
LEMMA KeptExplained ==
  ASSUME Base, Explained, Kept
  PROVE  Explained'
<1>1. /\ lines \in Seq(Line)
      /\ UNCHANGED <<books, symbols, usedIds, tape, opts>>
      /\ Sent' = Sent /\ \A m \in Sent : lines'[m] = lines[m]
  BY DEF Base, CommandOK, Kept, engineVars
<1>2. Owners' = Owners /\ \A id \in DOMAIN Owners : lines'[Owners[id]] = lines[Owners[id]]
  BY <1>1, OwnersSame
<1>3. usedIds = DOMAIN Owners /\ EntriesOK /\ TradedOK /\ TapeOK
  BY DEF Explained
<1>4. Taped' <=> Taped
  BY <1>1 DEF Taped
<1>5. \A s \in symbols, side \in Side : \A e \in ToSet(books[s][side]) : e.id \in DOMAIN Owners
  BY <1>3, RestUsed DEF Base, E!IInv
<1>6. EntriesOK'
  BY <1>1, <1>2, <1>3, <1>4, <1>5 DEF EntriesOK
<1>7. TradedOK'
  BY <1>1, <1>2, <1>3 DEF TradedOK
<1>8. TapeOK'
  BY <1>1, <1>2, <1>3, <1>4 DEF TapeOK
<1> QED BY <1>1, <1>2, <1>3, <1>6, <1>7, <1>8 DEF Explained

\* The line that is sent, as the engine's validator sees it.
Accepted(n) ==
  /\ Sends(n)
  /\ LET order == Parser!ParsedOrder(lines'[n]) IN
     order.type # "CANCEL" /\ E!Valid(order) /\ E!Execute(order)

\* What an accepted order leaves, all parts of the proof start here.
LEMMA SendAccepted ==
  ASSUME Base, Base', Explained, NEW n, Accepted(n),
         NEW line, line = lines'[n], NEW order, order = Parser!ParsedOrder(line),
         NEW trades, trades = result'.trades
  PROVE  /\ line \in Line /\ Parser!Parses(line) /\ order \in E!Input
         /\ order.symbol = line.symbol /\ order.side = line.side /\ order.type = line.type
         /\ order.price = Parser!ToFixedPrice(line.price)
         /\ order.quantity = Quantity(line) /\ Quantity(line) \in Nat
         /\ order.symbol \in symbols /\ UNCHANGED <<symbols, opts>>
         /\ order.id \notin usedIds /\ usedIds' = usedIds \cup {order.id}
         /\ usedIds' = DOMAIN Owners' /\ Owners'[order.id] = n
         /\ \A id \in usedIds : /\ Owners'[id] = Owners[id] /\ Owners[id] < n
                                /\ lines'[Owners[id]] = lines[Owners[id]]
         /\ trades \in Seq(E!Trade)
         /\ E!Follows(order, trades, books[order.symbol], books'[order.symbol])
         /\ \A s \in symbols : s # order.symbol => books'[s] = books[s]
<1>1. /\ lines \in Seq(Line) /\ lines' \in Seq(Line) /\ E!BooksInv
  BY DEF Base, CommandOK, E!IInv
<1>2. Sends(n) /\ order.type # "CANCEL" /\ E!Valid(order) /\ E!Execute(order)
  BY DEF Accepted
<1>3. line \in Line /\ Parser!Parses(line) /\ UNCHANGED opts
  BY <1>2 DEF Sends
<1>4. /\ order \in E!Input /\ line.price \in Int
      /\ order.id = Whole(line.id) /\ order.symbol = line.symbol /\ order.side = line.side
      /\ order.type = line.type /\ order.price = Parser!ToFixedPrice(line.price)
      /\ order.quantity = Quantity(line) /\ order.quantity \in Nat
  BY <1>3, OrderParsed
<1>5. /\ order.symbol \in symbols
      /\ \A s \in symbols : s # order.symbol => books'[s] = books[s]
      /\ E!Follows(order, trades, books[order.symbol], books'[order.symbol])
  BY <1>1, <1>2, <1>4, EngineParameters, E!ExecuteEntries
<1>6. trades \in Seq(E!Trade) /\ usedIds' = usedIds \cup {order.id} /\ UNCHANGED symbols
  BY <1>1, <1>2, <1>4, EngineParameters, E!ExecuteAnswers
<1>7. order.quantity > 0 /\ (order.type = "LIMIT" => order.price > 0) /\ order.id \notin usedIds
  BY <1>2 DEF E!Valid
<1>8. Acceptable(line)
  <2>1. order.price > 0 => line.price > 0
    BY <1>4, PricesRounded
  <2> QED BY <1>2, <1>4, <1>5, <1>7, <2>1 DEF Acceptable
<1>9. usedIds = DOMAIN Owners
  BY DEF Explained
<1>10. /\ \A i \in DOMAIN Owners : lines'[Owners[i]] = lines[Owners[i]] /\ Owners[i] < n
       /\ Acceptable(line) /\ order.id \notin DOMAIN Owners =>
            /\ DOMAIN Owners' = DOMAIN Owners \cup {order.id} /\ Owners'[order.id] = n
            /\ \A i \in DOMAIN Owners : Owners'[i] = Owners[i]
  BY <1>1, <1>2, <1>4, <1>6, OwnersSend
<1> QED BY <1>3, <1>4, <1>5, <1>6, <1>7, <1>8, <1>9, <1>10

\* Its quantities.
LEMMA AcceptedTrades ==
  ASSUME Base, Base', Explained, NEW n, Accepted(n),
         NEW line, line = lines'[n], NEW order, order = Parser!ParsedOrder(line),
         NEW trades, trades = result'.trades
  PROVE  /\ tape' \in Seq(PrintedTrade) /\ (~Taped' => tape' = <<>>) /\ (Taped' <=> Taped)
         /\ Traded(tape, order.id) = 0
         /\ ~Taped => \A id : Traded(tape', id) = 0 /\ Traded(tape, id) = 0
         /\ Taped => \A id : /\ Traded(tape, id) \in Nat
                             /\ Traded(tape', id) = Traded(tape, id) + E!Share(order, trades, id)
         /\ Taped => Len(tape') = Len(tape) + Len(trades)
         /\ \A t \in ToSet(tape') : t \in ToSet(tape) \/ \E f \in ToSet(trades) :
              /\ t.symbol = line.symbol /\ t.taker = order.id /\ t.maker = f.maker
              /\ t.price = f.price /\ t.qty = f.qty
<1>1. /\ line \in Line /\ Parser!Parses(line) /\ trades \in Seq(E!Trade)
      /\ order.id \notin usedIds /\ UNCHANGED opts
  BY SendAccepted
<1>2. /\ tape \in Seq(PrintedTrade) /\ (~Taped => tape = <<>>)
      /\ \A t \in ToSet(tape) : t.maker \in usedIds /\ t.taker \in usedIds
  BY DEF Explained, TapeOK
<1>3. tape' = IF Taped THEN tape \o Printed(order, trades) ELSE tape
  BY DEF Accepted, Sends
<1>4. Taped' <=> Taped
  BY <1>1 DEF Taped
<1>5. \A t \in ToSet(tape) : order.id \notin {t.maker, t.taker}
  BY <1>1, <1>2
<1>6. PICK old : old = tape
  OBVIOUS
<1>7. old \in Seq(PrintedTrade)
  BY <1>2, <1>6
<1>8. Traded(old, order.id) = 0
  <2>1. \A t \in ToSet(old) : order.id \notin {t.maker, t.taker}
    BY <1>5, <1>6
  <2> QED BY <2>1, TradedNone
<1>9. \A id : Traded(<<>>, id) = 0
  <2>1. \A t \in ToSet(<<>>) : FALSE
    BY DEF ToSet
  <2> QED BY <2>1, TradedNone
<1>10. ASSUME NEW id
       PROVE  /\ Traded(old, id) \in Nat
              /\ Traded(old \o Printed(order, trades), id) = Traded(old, id) + E!Share(order, trades, id)
  BY <1>1, <1>7, TradedAdd
<1>11. PICK p, new : p = Printed(order, trades) /\ new = old \o p
  OBVIOUS
<1>12. Lengthens(order, trades, old, p, new)
  <2>1. /\ order.id \in LineIds /\ order.symbol \in {l.symbol : l \in Line}
        /\ trades \in Seq(E!Trade)
    BY <1>1, ParsedPrints
  <2>2. Lengthens(order, trades, old, Printed(order, trades), old \o Printed(order, trades))
    BY <1>7, <2>1, TapeAdd
  <2> QED BY <1>11, <2>2
<1>13. CASE Taped
  <2>1. \A t \in ToSet(new) : t \in ToSet(old) \/ \E f \in ToSet(trades) :
          /\ t.symbol = line.symbol /\ t.taker = order.id /\ t.maker = f.maker
          /\ t.price = f.price /\ t.qty = f.qty
    <3>1. order.symbol = line.symbol
      BY <1>1, ParsedPrints
    <3> QED BY <1>12, <3>1 DEF Lengthens
  <2>2. tape' = new
    BY <1>3, <1>6, <1>11, <1>13
  <2>3. \A id : /\ Traded(old, id) \in Nat
                /\ Traded(new, id) = Traded(old, id) + E!Share(order, trades, id)
    BY <1>10, <1>11
  <2>4. new \in Seq(PrintedTrade) /\ Len(new) = Len(old) + Len(trades)
    BY <1>12 DEF Lengthens
  <2> QED BY <1>4, <1>6, <1>8, <1>13, <2>1, <2>2, <2>3, <2>4
<1>14. CASE ~Taped
  BY <1>2, <1>3, <1>4, <1>6, <1>9, <1>14
<1> QED BY <1>13, <1>14

\* An order trades only with entries of its book.
LEMMA ShareElsewhere ==
  ASSUME Base, Base', Explained, NEW n, Accepted(n),
         NEW order, order = Parser!ParsedOrder(lines'[n]), NEW trades, trades = result'.trades
  PROVE  /\ \A id : id \notin E!RestingIds(books[order.symbol]) \cup {order.id}
                      => E!Share(order, trades, id) = 0
         /\ E!Share(order, trades, order.id) \in 0 .. order.quantity /\ order.quantity \in Nat
         /\ \A side \in Side : \A d \in ToSet(books[order.symbol][side]) :
              /\ d.id # order.id /\ d.open \in Nat /\ E!Share(order, trades, d.id) \in 0 .. d.open
<1>1. E!Follows(order, trades, books[order.symbol], books'[order.symbol])
  BY SendAccepted
<1>2. order.quantity \in Nat
  BY SendAccepted
<1> QED BY <1>1, <1>2, SameShares DEF E!Follows

LEMMA AcceptedEntries ==
  ASSUME Base, Base', Explained, NEW n, Accepted(n)
  PROVE  EntriesOK'
<1>1. PICK line, order, trades : /\ line = lines'[n] /\ order = Parser!ParsedOrder(line)
                                 /\ trades = result'.trades
  OBVIOUS
<1>2. /\ order.symbol = line.symbol /\ order.side = line.side /\ order.type = line.type
      /\ order.price = Parser!ToFixedPrice(line.price)
      /\ order.quantity = Quantity(line) /\ Quantity(line) \in Nat
      /\ order.symbol \in symbols /\ UNCHANGED <<symbols, opts>>
      /\ order.id \notin usedIds /\ Owners'[order.id] = n
  BY <1>1, SendAccepted
<1>3. \A id \in usedIds : Owners'[id] = Owners[id] /\ lines'[Owners[id]] = lines[Owners[id]]
  BY <1>1, SendAccepted
<1>4. /\ E!Follows(order, trades, books[order.symbol], books'[order.symbol])
      /\ \A s \in symbols : s # order.symbol => books'[s] = books[s]
  BY <1>1, SendAccepted
<1>5. /\ Taped' <=> Taped
      /\ Traded(tape, order.id) = 0
      /\ Taped => \A id : /\ Traded(tape, id) \in Nat
                          /\ Traded(tape', id) = Traded(tape, id) + E!Share(order, trades, id)
  BY <1>1, AcceptedTrades
<1>6. /\ \A id : id \notin E!RestingIds(books[order.symbol]) \cup {order.id}
                   => E!Share(order, trades, id) = 0
      /\ E!Share(order, trades, order.id) \in 0 .. order.quantity
      /\ \A side \in Side : \A d \in ToSet(books[order.symbol][side]) :
           d.open \in Nat /\ E!Share(order, trades, d.id) \in 0 .. d.open
  BY <1>1, ShareElsewhere
<1>7. EntriesOK /\ E!BooksInv
  BY DEF Explained, Base, E!IInv
<1>8. ASSUME NEW s \in symbols, NEW side \in Side, NEW d \in ToSet(books[s][side])
      PROVE  /\ d.id \in usedIds /\ d.id # order.id
             /\ RestOf(s, side, d, lines'[Owners'[d.id]])
             /\ lines'[Owners'[d.id]] = lines[Owners[d.id]]
             /\ Taped => d.open = Quantity(lines[Owners[d.id]]) - Traded(tape, d.id)
             /\ Quantity(lines[Owners[d.id]]) \in Nat
             /\ \A t \in symbols : t # s => d.id \notin E!RestingIds(books[t])
  <2>1. d.id \in usedIds /\ \A t \in symbols : t # s => d.id \notin E!RestingIds(books[t])
    BY <1>7, RestUsed
  <2>2. Quantity(lines[Owners[d.id]]) \in Nat
    <3>1. d.id \in DOMAIN Owners /\ lines \in Seq(Line)
      BY <2>1 DEF Explained, Base, CommandOK
    <3> QED BY <3>1, OwnerLine
  <2> QED BY <1>2, <1>3, <1>7, <2>1, <2>2 DEF EntriesOK
<1>9. ASSUME NEW s \in symbols, NEW side \in Side, NEW e \in ToSet(books'[s][side])
      PROVE  /\ RestOf(s, side, e, lines'[Owners'[e.id]])
             /\ Taped' => e.open = Quantity(lines'[Owners'[e.id]]) - Traded(tape', e.id)
  <2>1. CASE s # order.symbol
    <3>1. e \in ToSet(books[s][side])
      BY <1>4, <2>1
    <3>2. E!Share(order, trades, e.id) = 0
      BY <1>2, <1>6, <1>8, <2>1, <3>1
    <3> QED BY <1>5, <1>8, <3>1, <3>2
  <2>2. CASE s = order.symbol /\ e.id = order.id /\ e.price = order.price /\ order.type = "LIMIT"
             /\ side = order.side /\ e.open = order.quantity - E!Share(order, trades, order.id)
    <3>1. Owners'[e.id] = n /\ lines'[Owners'[e.id]] = line
      BY <1>1, <1>2, <2>2
    <3>2. RestOf(s, side, e, line)
      BY <1>2, <2>2 DEF RestOf
    <3>3. Taped' => e.open = Quantity(line) - Traded(tape', e.id)
      BY <1>2, <1>5, <1>6, <2>2
    <3> QED BY <3>1, <3>2, <3>3
  <2>3. ASSUME s = order.symbol,
               NEW d \in ToSet(books[s][side]), e.id = d.id, e.price = d.price,
               e.open = d.open - E!Share(order, trades, d.id)
        PROVE  /\ RestOf(s, side, e, lines'[Owners'[e.id]])
               /\ Taped' => e.open = Quantity(lines'[Owners'[e.id]]) - Traded(tape', e.id)
    <3>1. PICK own : own = lines[Owners[d.id]]
      OBVIOUS
    <3>2. /\ RestOf(s, side, d, own) /\ lines'[Owners'[e.id]] = own
          /\ Taped => d.open = Quantity(own) - Traded(tape, d.id)
          /\ Quantity(own) \in Nat
      BY <1>8, <2>3, <3>1
    <3>3. RestOf(s, side, e, own)
      BY <2>3, <3>2 DEF RestOf
    <3>4. E!Share(order, trades, d.id) \in 0 .. d.open /\ d.open \in Nat
      BY <1>6, <2>3
    <3>5. Taped => /\ Traded(tape', d.id) = Traded(tape, d.id) + E!Share(order, trades, d.id)
                   /\ Traded(tape, d.id) \in Nat
      BY <1>5
    <3>6. Taped' => e.open = Quantity(own) - Traded(tape', e.id)
      BY <1>5, <2>3, <3>2, <3>4, <3>5
    <3> QED BY <3>2, <3>3, <3>6
  <2>4. s = order.symbol =>
          \/ /\ e.id = order.id /\ e.price = order.price /\ order.type = "LIMIT"
             /\ side = order.side /\ e.open = order.quantity - E!Share(order, trades, order.id)
          \/ \E d \in ToSet(books[s][side]) : /\ e.id = d.id /\ e.price = d.price
                                              /\ e.open = d.open - E!Share(order, trades, d.id)
    BY <1>4, SameShares DEF E!Follows
  <2> QED BY <2>1, <2>2, <2>3, <2>4
<1> QED BY <1>2, <1>9 DEF EntriesOK

LEMMA AcceptedWithin ==
  ASSUME Base, Base', Explained, NEW n, Accepted(n)
  PROVE  TradedOK'
<1>1. PICK line, order, trades : /\ line = lines'[n] /\ order = Parser!ParsedOrder(line)
                                 /\ trades = result'.trades
  OBVIOUS
<1>2. /\ order.quantity = Quantity(line) /\ Quantity(line) \in Nat
      /\ order.symbol \in symbols
      /\ Owners'[order.id] = n /\ usedIds' = usedIds \cup {order.id} /\ order.id \notin usedIds
  BY <1>1, SendAccepted
<1>3. \A id \in usedIds : Owners'[id] = Owners[id] /\ lines'[Owners[id]] = lines[Owners[id]]
  BY <1>1, SendAccepted
<1>4. /\ Traded(tape, order.id) = 0
      /\ ~Taped => \A id : Traded(tape', id) = 0 /\ Traded(tape, id) = 0
      /\ Taped => \A id : /\ Traded(tape, id) \in Nat
                          /\ Traded(tape', id) = Traded(tape, id) + E!Share(order, trades, id)
  BY <1>1, AcceptedTrades
<1>5. /\ \A id : id \notin E!RestingIds(books[order.symbol]) \cup {order.id}
                   => E!Share(order, trades, id) = 0
      /\ E!Share(order, trades, order.id) \in 0 .. order.quantity
      /\ \A side \in Side : \A d \in ToSet(books[order.symbol][side]) :
           d.open \in Nat /\ E!Share(order, trades, d.id) \in 0 .. d.open
  BY <1>1, ShareElsewhere
<1>6. EntriesOK /\ TradedOK
  BY DEF Explained
<1>7. Traded(tape', order.id) <= Quantity(lines'[Owners'[order.id]])
  <2>1. lines'[Owners'[order.id]] = line
    BY <1>1, <1>2
  <2> QED BY <1>2, <1>4, <1>5, <2>1
<1>8. ASSUME NEW id \in usedIds PROVE Traded(tape', id) <= Quantity(lines'[Owners'[id]])
  <2>1. PICK own : own = lines[Owners[id]]
    OBVIOUS
  <2>2. lines'[Owners'[id]] = own /\ Traded(tape, id) <= Quantity(own)
    BY <1>3, <1>6, <2>1 DEF TradedOK
  <2>3. Quantity(own) \in Nat
    <3>1. id \in DOMAIN Owners /\ lines \in Seq(Line)
      BY DEF Explained, Base, CommandOK
    <3> QED BY <2>1, <3>1, OwnerLine
  <2>4. CASE ~Taped
    BY <1>4, <2>2, <2>3, <2>4
  <2>5. CASE Taped /\ id \notin E!RestingIds(books[order.symbol])
    <3>1. E!Share(order, trades, id) = 0
      BY <1>2, <1>5, <2>5
    <3> QED BY <1>4, <2>2, <2>3, <2>5, <3>1
  <2>6. CASE Taped /\ id \in E!RestingIds(books[order.symbol])
    <3>1. PICK side \in Side : \E d \in ToSet(books[order.symbol][side]) : d.id = id
      BY <2>6, SameShares DEF E!RestingIds
    <3>2. PICK d \in ToSet(books[order.symbol][side]) : d.id = id
      BY <3>1
    <3>3. d.open = Quantity(own) - Traded(tape, id)
      BY <1>2, <1>6, <2>1, <2>6, <3>2 DEF EntriesOK
    <3>4. d.open \in Nat /\ E!Share(order, trades, id) \in 0 .. d.open
      BY <1>5, <3>2
    <3> QED BY <1>4, <2>2, <2>3, <2>6, <3>3, <3>4
  <2> QED BY <2>4, <2>5, <2>6
<1> QED BY <1>2, <1>7, <1>8 DEF TradedOK, Quantity

LEMMA AcceptedTape ==
  ASSUME Base, Base', Explained, NEW n, Accepted(n)
  PROVE  TapeOK'
<1>1. PICK line, order, trades : /\ line = lines'[n] /\ order = Parser!ParsedOrder(line)
                                 /\ trades = result'.trades
  OBVIOUS
<1>2. /\ line \in Line /\ Parser!Parses(line)
      /\ order.symbol = line.symbol /\ order.side = line.side
      /\ order.symbol \in symbols /\ order.id \notin usedIds
      /\ Owners'[order.id] = n /\ usedIds' = usedIds \cup {order.id}
  BY <1>1, SendAccepted
<1>3. \A id \in usedIds : /\ Owners'[id] = Owners[id] /\ Owners[id] < n
                          /\ lines'[Owners[id]] = lines[Owners[id]]
  BY <1>1, SendAccepted
<1>4. E!Follows(order, trades, books[order.symbol], books'[order.symbol])
  BY <1>1, SendAccepted
<1>5. /\ tape' \in Seq(PrintedTrade) /\ (~Taped' => tape' = <<>>)
      /\ \A t \in ToSet(tape') : t \in ToSet(tape) \/ \E f \in ToSet(trades) :
           /\ t.symbol = line.symbol /\ t.taker = order.id /\ t.maker = f.maker
           /\ t.price = f.price /\ t.qty = f.qty
  BY <1>1, AcceptedTrades
<1>6. TapeOK /\ EntriesOK /\ E!BooksInv
  BY DEF Explained, Base, E!IInv
<1>7. ASSUME NEW t \in ToSet(tape)
      PROVE  /\ t.maker \in usedIds' /\ t.taker \in usedIds'
             /\ Owners'[t.maker] < Owners'[t.taker]
             /\ Meet(t, lines'[Owners'[t.maker]], lines'[Owners'[t.taker]])
  BY <1>2, <1>3, <1>6 DEF TapeOK
<1>8. ASSUME NEW t, NEW f \in ToSet(trades), t.symbol = line.symbol, t.taker = order.id,
             t.maker = f.maker, t.price = f.price
      PROVE  /\ t.maker \in usedIds' /\ t.taker \in usedIds'
             /\ Owners'[t.maker] < Owners'[t.taker]
             /\ Meet(t, lines'[Owners'[t.maker]], lines'[Owners'[t.taker]])
  <2>1. /\ E!Marketable(order, f.price)
        /\ \E d \in ToSet(books[order.symbol][Opposite(order.side)]) :
             f.maker = d.id /\ f.price = d.price /\ d.price > 0
    BY <1>4, SameShares DEF E!Follows
  <2>2. PICK d \in ToSet(books[order.symbol][Opposite(order.side)]) :
          f.maker = d.id /\ f.price = d.price /\ d.price > 0
    BY <2>1
  <2>3. Opposite(order.side) \in Side
    BY DEF Opposite, Side
  <2>4. d.id \in usedIds
    BY <1>2, <1>6, <2>3, RestUsed
  <2>5. PICK own : own = lines[Owners[d.id]]
    OBVIOUS
  <2>6. own \in Line /\ Acceptable(own) /\ own.price \in Int
    <3>1. d.id \in DOMAIN Owners /\ lines \in Seq(Line)
      BY <2>4 DEF Explained, Base, CommandOK
    <3> QED BY <2>5, <3>1, OwnerLine
  <2>7. RestOf(order.symbol, Opposite(order.side), d, own)
    BY <1>2, <1>6, <2>3, <2>5 DEF EntriesOK
  <2>8. own.price > 0
    BY <2>6, <2>7 DEF RestOf, Acceptable
  <2>9. RoundsTo(own.price, d.price) /\ d.price \in Int
    <3>1. d.price = Parser!ToFixedPrice(own.price)
      BY <2>7 DEF RestOf
    <3>2. own.price >= 0
      BY <2>6, <2>8
    <3> QED BY <2>6, <3>1, <3>2, PricesRounded, FixedPrice DEF RoundsTo
  <2>10. line.type = "MARKET" \/ IF line.side = "BUY" THEN 2 * d.price <= line.price + 1
                                 ELSE 2 * d.price >= line.price
    BY <1>1, <1>2, <2>1, <2>2, <2>9, ReachedAllowed
  <2>11. /\ lines'[Owners'[t.maker]] = own /\ lines'[Owners'[t.taker]] = line
         /\ Owners'[t.maker] < Owners'[t.taker]
    BY <1>1, <1>2, <1>3, <1>8, <2>2, <2>4, <2>5
  <2>12. Meet(t, own, line)
    BY <1>2, <1>8, <2>2, <2>7, <2>9, <2>10 DEF Meet, RestOf
  <2> QED BY <1>2, <1>8, <2>2, <2>4, <2>11, <2>12
<1>9. \A t \in ToSet(tape') : /\ t.maker \in usedIds' /\ t.taker \in usedIds'
                              /\ Owners'[t.maker] < Owners'[t.taker]
                              /\ Meet(t, lines'[Owners'[t.maker]], lines'[Owners'[t.taker]])
  BY <1>5, <1>7, <1>8
<1> QED BY <1>5, <1>9 DEF TapeOK

\* A CANCEL, or an order that RiskValidator rejects.
Refused(n) ==
  /\ Sends(n)
  /\ LET order == Parser!ParsedOrder(lines'[n]) IN
     \/ order.type = "CANCEL" /\ E!Cancel(order.symbol, order.id)
     \/ order.type # "CANCEL" /\ ~E!Valid(order) /\ E!Reject(order)

LEMMA SendRefused ==
  ASSUME Base, Base', Explained, NEW n, Refused(n)
  PROVE  /\ result'.trades = <<>> /\ UNCHANGED <<symbols, usedIds, tradesGenerated, tape, opts>>
         /\ Owners' = Owners
         /\ \A id \in usedIds : lines'[Owners[id]] = lines[Owners[id]]
         /\ \A s \in symbols : \A side \in Side : ToSet(books'[s][side]) \subseteq ToSet(books[s][side])
<1>1. PICK line, order : line = lines'[n] /\ order = Parser!ParsedOrder(line)
  OBVIOUS
<1>2. /\ lines \in Seq(Line) /\ lines' \in Seq(Line) /\ E!BooksInv /\ usedIds = DOMAIN Owners
      /\ tape \in Seq(PrintedTrade)
  BY DEF Base, CommandOK, E!IInv, Explained, TapeOK
<1>3. /\ Sends(n) /\ line \in Line /\ Parser!Parses(line)
      /\ UNCHANGED opts
      /\ tape' = IF Taped THEN tape \o Printed(order, result'.trades) ELSE tape
  BY <1>1 DEF Refused, Sends
<1>4. /\ order.id = Whole(line.id) /\ order.symbol = line.symbol /\ order.type = line.type
      /\ order.quantity = Quantity(line) /\ line.price \in Int
      /\ order.price = Parser!ToFixedPrice(line.price)
  BY <1>1, <1>3, OrderParsed
<1>5. /\ result'.trades = <<>> /\ UNCHANGED <<symbols, usedIds, tradesGenerated>>
      /\ \A s \in symbols : \A side \in Side : ToSet(books'[s][side]) \subseteq ToSet(books[s][side])
  <2>1. CASE E!Cancel(order.symbol, order.id)
    <3>1. UNCHANGED <<symbols, usedIds, tradesGenerated>>
      BY <2>1 DEF E!Cancel
    <3> QED BY <1>2, <2>1, <3>1, EngineParameters, E!CancelEntries, SameShares
  <2>2. CASE E!Reject(order)
    BY <2>2, SameShares DEF E!Reject
  <2> QED BY <1>1, <2>1, <2>2 DEF Refused
<1>6. ~(Acceptable(line) /\ order.id \notin DOMAIN Owners)
  <2>1. CASE order.type = "CANCEL"
    BY <1>4, <2>1 DEF Acceptable
  <2>2. CASE order.type # "CANCEL" /\ ~E!Valid(order)
    <3>1. line.price > 0 => order.price > 0
      BY <1>4, PricesRounded
    <3> QED BY <1>2, <1>4, <2>2, <3>1 DEF Acceptable, E!Valid
  <2> QED BY <1>1, <2>1, <2>2 DEF Refused
<1>7. PICK id : id = Whole(line.id)
  OBVIOUS
<1>8. UNCHANGED symbols
  BY <1>5
<1>9. /\ \A i \in DOMAIN Owners : lines'[Owners[i]] = lines[Owners[i]] /\ Owners[i] < n
      /\ Acceptable(line) /\ id \notin DOMAIN Owners =>
           /\ DOMAIN Owners' = DOMAIN Owners \cup {id} /\ Owners'[id] = n
           /\ \A i \in DOMAIN Owners : Owners'[i] = Owners[i]
      /\ ~(Acceptable(line) /\ id \notin DOMAIN Owners) => Owners' = Owners
  BY <1>1, <1>2, <1>3, <1>7, <1>8, OwnersSend
<1>10. Owners' = Owners
  BY <1>4, <1>6, <1>7, <1>9
<1>11. \A i \in usedIds : lines'[Owners[i]] = lines[Owners[i]]
  BY <1>2, <1>9
<1>12. tape' = tape
  <2>1. Printed(order, <<>>) = <<>>
    BY DEF Printed
  <2>2. tape \o <<>> = tape
    BY <1>2
  <2> QED BY <1>3, <1>5, <2>1, <2>2
<1> QED BY <1>3, <1>5, <1>10, <1>11, <1>12

LEMMA RefusedExplained ==
  ASSUME Base, Base', Explained, NEW n, Refused(n)
  PROVE  Explained'
<1>1. /\ UNCHANGED <<symbols, usedIds, tape, opts>> /\ Owners' = Owners
      /\ \A id \in usedIds : lines'[Owners[id]] = lines[Owners[id]]
      /\ \A s \in symbols : \A side \in Side : ToSet(books'[s][side]) \subseteq ToSet(books[s][side])
  BY SendRefused
<1>2. usedIds = DOMAIN Owners /\ EntriesOK /\ TradedOK /\ TapeOK
  BY DEF Explained
<1>3. Taped' <=> Taped
  BY <1>1 DEF Taped
<1>4. \A s \in symbols, side \in Side : \A e \in ToSet(books[s][side]) : e.id \in usedIds
  BY RestUsed DEF Base, E!IInv
<1>5. EntriesOK'
  BY <1>1, <1>2, <1>3, <1>4 DEF EntriesOK
<1>6. TradedOK'
  BY <1>1, <1>2 DEF TradedOK
<1>7. TapeOK'
  BY <1>1, <1>2, <1>3 DEF TapeOK
<1> QED BY <1>1, <1>2, <1>5, <1>6, <1>7 DEF Explained

\* A line that is sent is accepted or refused.
LEMMA SendCases ==
  ASSUME Base, Base', NEW n, Sends(n)
  PROVE  Accepted(n) \/ Refused(n)
<1>1. PICK order : order = Parser!ParsedOrder(lines'[n])
  OBVIOUS
<1>2. E!SubmitOrder(order)
  BY <1>1 DEF Sends
<1> QED BY <1>1, <1>2 DEF E!SubmitOrder, Accepted, Refused

LEMMA ExplainedKeeps ==
  ASSUME Base, Base', Explained, [Next]_vars
  PROVE  Explained'
<1>1. ASSUME NEW n, Sends(n) PROVE Explained'
  <2>1. CASE Accepted(n)
    <3>1. usedIds' = DOMAIN Owners'
      BY <2>1, SendAccepted
    <3> QED BY <2>1, <3>1, AcceptedEntries, AcceptedWithin, AcceptedTape DEF Explained
  <2>2. CASE Refused(n)
    BY <2>2, RefusedExplained
  <2> QED BY <1>1, <2>1, <2>2, SendCases
<1>2. ASSUME Untouched' PROVE Explained'
  <2>1. (CommandOK /\ Untouched => Explained)'
    BY UntouchedExplained, PTL
  <2> QED BY <1>2, <2>1 DEF Base
<1>3. CASE UNCHANGED vars
  <2>1. UNCHANGED <<engineVars, tape, opts, lines, ordersProcessed>>
    BY <1>3 DEF vars, outputVars, engineVars
  <2>2. Kept
    BY <2>1, LinesSame DEF Kept, Sent
  <2> QED BY <2>2, KeptExplained
<1>4. CASE Next
  BY <1>1, <1>2, <1>4, KeptExplained, StepKinds DEF Base
<1> QED BY <1>3, <1>4

LEMMA ExplainedHolds == Spec => [](Base /\ Explained)
<1>1. Init => Explained
  <2>1. Init => CommandOK /\ Untouched
    BY CommandStarts DEF Init, Untouched, NoStats, Engine!Init, Feed!Init
  <2> QED BY <2>1, UntouchedExplained
<1>2. Base /\ Base' /\ Explained /\ [Next]_vars => Explained'
  BY ExplainedKeeps
<1> QED BY <1>1, <1>2, BaseHolds, PTL DEF Spec

(***************************************************************************)
(* The lines and the tape explain the books, for every book, order and     *)
(* price, the ones toFixedPrice() rounds wrongly included.                 *)
(***************************************************************************)
THEOREM BooksExplained == Spec => []OpenExplained
<1>1. Base /\ Explained => OpenExplained
  <2> SUFFICES ASSUME Base, Explained PROVE OpenExplained
    OBVIOUS
  <2>1. /\ usedIds = DOMAIN Owners /\ EntriesOK /\ TradedOK /\ lines \in Seq(Line) /\ E!BooksInv
    BY DEF Explained, Base, CommandOK, E!IInv
  <2>2. \A id : TradedQty(id) = Traded(tape, id)
    BY DEF TradedQty, Traded
  <2>3. ASSUME NEW r \in Resting
        PROVE  LET line == lines[Owners[r.entry.id]] IN
               /\ line.type = "LIMIT" /\ line.side = r.side /\ line.symbol = r.symbol
               /\ RoundsTo(line.price, r.entry.price)
               /\ Taped => r.entry.open = Quantity(line) - TradedQty(r.entry.id)
    <3>1. PICK s \in symbols, side \in Side :
            \E e \in ToSet(books[s][side]) : r = [symbol |-> s, side |-> side, entry |-> e]
      BY DEF Resting
    <3>2. PICK e \in ToSet(books[s][side]) : r = [symbol |-> s, side |-> side, entry |-> e]
      BY <3>1
    <3>3. PICK line : line = lines[Owners[e.id]]
      OBVIOUS
    <3>4. /\ RestOf(s, side, e, line)
          /\ Taped => e.open = Quantity(line) - Traded(tape, e.id)
      BY <2>1, <3>3 DEF EntriesOK
    <3>5. Acceptable(line) /\ line.price \in Int
      <4>1. e.id \in DOMAIN Owners
        BY <2>1, RestUsed
      <4> QED BY <2>1, <3>3, <4>1, OwnerLine
    <3>6. RoundsTo(line.price, e.price)
      <4>1. line.price >= 0
        BY <3>4, <3>5 DEF RestOf, Acceptable
      <4> QED BY <3>4, <3>5, <4>1, PricesRounded DEF RestOf, RoundsTo
    <3> QED BY <2>2, <3>2, <3>3, <3>4, <3>6 DEF RestOf
  <2>4. \A id \in usedIds : TradedQty(id) <= Quantity(lines[Owners[id]])
    BY <2>1, <2>2 DEF TradedOK
  <2> QED BY <2>1, <2>3, <2>4 DEF OpenExplained
<1> QED BY <1>1, ExplainedHolds, PTL

(***************************************************************************)
(* A printed trade is between two lines that meet, at the maker's price.   *)
(***************************************************************************)
THEOREM TradesExplained == Spec => []TapeExplained
<1>1. Base /\ Explained => TapeExplained
  <2> SUFFICES ASSUME Base, Explained, NEW t \in ToSet(tape)
               PROVE  LET maker == lines[Owners[t.maker]]
                          taker == lines[Owners[t.taker]]
                      IN  /\ {maker.symbol, taker.symbol} = {t.symbol}
                          /\ maker.side = Opposite(taker.side) /\ maker.type = "LIMIT"
                          /\ Owners[t.maker] < Owners[t.taker]
                          /\ RoundsTo(maker.price, t.price)
                          /\ taker.type # "MARKET" =>
                               IF taker.side = "BUY" THEN 2 * t.price <= taker.price + 1
                               ELSE 2 * t.price >= taker.price
    BY DEF TapeExplained
  <2>1. /\ Owners[t.maker] < Owners[t.taker]
        /\ Meet(t, lines[Owners[t.maker]], lines[Owners[t.taker]])
    BY DEF Explained, TapeOK
  <2> QED BY <2>1 DEF Meet
<1> QED BY <1>1, ExplainedHolds, PTL

------------------------------------------------------------------------------
(***************************************************************************)
(* The statistics: an accepted order is an id in use, an accepted CANCEL   *)
(* is an order that left the book unfilled.                                *)
(***************************************************************************)
StatsOK ==
  opts.replay =>
    /\ stats \in [submitted : Nat, accepted : Nat, rejected : Nat, trades : Nat]
    /\ stats.accepted + stats.rejected = ordersProcessed
    /\ stats.trades = tradesGenerated
    /\ Taped => /\ Len(tape) = tradesGenerated
                /\ stats.accepted = Cardinality(usedIds) + Cardinality(Vanished)
    /\ phase \in {"replay", "exit"} => stats.submitted = Len(orders)
    /\ phase = "exit" => ordersProcessed = Len(orders)

\* The orders that left unfilled, with what rests as the engine has it.
LEMMA VanishedIs ==
  Vanished = {id \in usedIds \ E!AllResting :
                /\ lines[Owners[id]].type = "LIMIT"
                /\ Traded(tape, id) < Quantity(lines[Owners[id]])}
<1>1. {r.entry.id : r \in Resting} = E!AllResting
  <2>1. ASSUME NEW id \in E!AllResting PROVE id \in {r.entry.id : r \in Resting}
    <3>1. PICK s \in symbols : id \in E!Resting(s)
      BY DEF E!AllResting
    <3>2. PICK side \in Side : \E e \in ToSet(books[s][side]) : e.id = id
      BY <3>1, SameShares DEF E!Resting, E!RestingIds
    <3>3. PICK e \in ToSet(books[s][side]) : e.id = id
      BY <3>2
    <3>4. PICK r : r = [symbol |-> s, side |-> side, entry |-> e]
      OBVIOUS
    <3>5. PICK box : box = {[symbol |-> s, side |-> side, entry |-> x] : x \in ToSet(books[s][side])}
      OBVIOUS
    <3>6. r \in box
      BY <3>4, <3>5
    <3>7. box \subseteq Resting
      BY <3>5 DEF Resting
    <3>8. r.entry.id = id
      BY <3>3, <3>4
    <3> QED BY <3>6, <3>7, <3>8
  <2>2. ASSUME NEW r \in Resting PROVE r.entry.id \in E!AllResting
    <3>1. PICK s \in symbols, side \in Side :
            \E e \in ToSet(books[s][side]) : r = [symbol |-> s, side |-> side, entry |-> e]
      BY DEF Resting
    <3>2. PICK e \in ToSet(books[s][side]) : r.entry = e
      BY <3>1
    <3> QED BY <3>2, SameShares DEF E!AllResting, E!Resting, E!RestingIds
  <2> QED BY <2>1, <2>2
<1>2. \A id : TradedQty(id) = Traded(tape, id)
  BY DEF TradedQty, Traded
<1>3. PICK owners : owners = Owners
  OBVIOUS
<1>4. Vanished = {id \in usedIds \ {r.entry.id : r \in Resting} :
                    /\ lines[owners[id]].type = "LIMIT"
                    /\ TradedQty(id) < Quantity(lines[owners[id]])}
  BY <1>3 DEF Vanished
<1> QED BY <1>1, <1>2, <1>3, <1>4

LEMMA VanishedFinite ==
  ASSUME Base
  PROVE  IsFiniteSet(usedIds) /\ IsFiniteSet(Vanished) /\ Vanished \subseteq usedIds
<1>1. IsFiniteSet(usedIds)
  BY DEF Base, E!IInv, E!BooksInv, E!IsFiniteSet, IsFiniteSet
<1>2. Vanished \subseteq usedIds
  BY VanishedIs
<1>3. IsFiniteSet(Vanished)
  BY <1>1, <1>2, FS_Subset
<1> QED BY <1>1, <1>2, <1>3

\* No order yet, nothing to count.
LEMMA UntouchedStats ==
  Untouched /\ phase \notin {"replay", "exit"} => StatsOK
<1> SUFFICES ASSUME Untouched, phase \notin {"replay", "exit"} PROVE StatsOK
  OBVIOUS
<1>1. usedIds = {} /\ tape = <<>> /\ ordersProcessed = 0 /\ tradesGenerated = 0 /\ stats = NoStats
  BY DEF Untouched
<1>2. Vanished = {}
  BY <1>1, VanishedIs
<1>3. Cardinality({}) = 0 /\ Len(<<>>) = 0
  BY FS_EmptySet
<1> QED BY <1>1, <1>2, <1>3 DEF StatsOK, NoStats

\* As long as no order is submitted nothing vanishes.
LEMMA VanishedSame ==
  ASSUME Base, Explained, Kept
  PROVE  Vanished' = Vanished
<1>1. /\ lines \in Seq(Line) /\ UNCHANGED <<books, symbols, usedIds, tape>>
      /\ Sent' = Sent /\ \A m \in Sent : lines'[m] = lines[m]
      /\ usedIds = DOMAIN Owners
  BY DEF Base, CommandOK, Kept, engineVars, Explained
<1>2. Owners' = Owners /\ \A id \in DOMAIN Owners : lines'[Owners[id]] = lines[Owners[id]]
  BY <1>1, OwnersSame
<1>3. E!AllResting' = E!AllResting
  BY <1>1 DEF E!AllResting, E!Resting
<1>4. (Vanished = {id \in usedIds \ E!AllResting :
                     /\ lines[Owners[id]].type = "LIMIT"
                     /\ Traded(tape, id) < Quantity(lines[Owners[id]])})'
  BY VanishedIs, PTL
<1>5. \A id \in usedIds : Quantity(lines'[Owners'[id]]) = Quantity(lines[Owners[id]])
                          /\ lines'[Owners'[id]].type = lines[Owners[id]].type
  BY <1>1, <1>2
<1> QED BY <1>1, <1>3, <1>4, <1>5, VanishedIs

\* An accepted order and what it fills do not vanish.
LEMMA AcceptedVanished ==
  ASSUME Base, Base', Explained, Taped, NEW n, Accepted(n)
  PROVE  Vanished' = Vanished
<1>1. PICK line, order, trades : /\ line = lines'[n] /\ order = Parser!ParsedOrder(line)
                                 /\ trades = result'.trades
  OBVIOUS
<1>2. /\ order.quantity = Quantity(line) /\ Quantity(line) \in Nat /\ order.type = line.type
      /\ order.symbol \in symbols /\ UNCHANGED symbols /\ order \in E!Input
      /\ Owners'[order.id] = n /\ usedIds' = usedIds \cup {order.id} /\ order.id \notin usedIds
  BY <1>1, SendAccepted
<1>3. \A id \in usedIds : Owners'[id] = Owners[id] /\ lines'[Owners[id]] = lines[Owners[id]]
  BY <1>1, SendAccepted
<1>4. /\ E!Follows(order, trades, books[order.symbol], books'[order.symbol])
  BY <1>1, SendAccepted
<1>5. /\ Traded(tape, order.id) = 0
      /\ \A id : /\ Traded(tape, id) \in Nat
                 /\ Traded(tape', id) = Traded(tape, id) + E!Share(order, trades, id)
  BY <1>1, AcceptedTrades
<1>6. /\ \A id : id \notin E!RestingIds(books[order.symbol]) \cup {order.id}
                   => E!Share(order, trades, id) = 0
      /\ E!Share(order, trades, order.id) \in 0 .. order.quantity
      /\ \A side \in Side : \A d \in ToSet(books[order.symbol][side]) :
           d.open \in Nat /\ E!Share(order, trades, d.id) \in 0 .. d.open
  BY <1>1, ShareElsewhere
<1>7. EntriesOK /\ E!BooksInv /\ lines \in Seq(Line) /\ usedIds = DOMAIN Owners
  BY DEF Explained, Base, E!IInv, CommandOK
<1>8. /\ \A s \in symbols : s # order.symbol => E!Resting(s)' = E!Resting(s)
      /\ E!Resting(order.symbol)' \subseteq E!Resting(order.symbol) \cup {order.id}
  <2>1. order.type # "CANCEL" /\ E!Valid(order) /\ E!Execute(order)
    BY <1>1 DEF Accepted
  <2> QED BY <1>2, <1>7, <2>1, EngineParameters, E!ExecuteAnswers
<1>9. E!AllResting' \subseteq E!AllResting \cup {order.id}
  BY <1>2, <1>8 DEF E!AllResting
<1>10. ASSUME NEW id \in usedIds, id \in E!AllResting, id \notin E!AllResting'
       PROVE  Traded(tape', id) = Quantity(lines'[Owners'[id]])
  <2>1. PICK s \in symbols : id \in E!Resting(s)
    BY <1>10 DEF E!AllResting
  <2>2. s = order.symbol
    <3>1. id \notin E!Resting(s)'
      BY <1>2, <1>10 DEF E!AllResting
    <3> QED BY <1>8, <2>1, <3>1
  <2>3. PICK side \in Side : \E d \in ToSet(books[s][side]) : d.id = id
    BY <2>1, SameShares DEF E!Resting, E!RestingIds
  <2>4. PICK d \in ToSet(books[s][side]) : d.id = id
    BY <2>3
  <2>5. E!Share(order, trades, id) < d.open => id \in E!RestingIds(books'[s])
    BY <1>4, <2>2, <2>4, SameShares DEF E!Follows
  <2>6. id \notin E!RestingIds(books'[s])
    BY <1>2, <1>10, <2>1 DEF E!AllResting, E!Resting
  <2>7. E!Share(order, trades, id) \in 0 .. d.open /\ d.open \in Nat
    BY <1>6, <2>2, <2>4
  <2>8. E!Share(order, trades, id) = d.open
    BY <2>5, <2>6, <2>7
  <2>9. PICK own : own = lines[Owners[id]]
    OBVIOUS
  <2>10. d.open = Quantity(own) - Traded(tape, id)
    BY <1>7, <2>1, <2>4, <2>9 DEF EntriesOK
  <2>11. Quantity(own) \in Nat
    BY <1>7, <2>9, OwnerLine
  <2>12. Traded(tape', id) = Quantity(own)
    BY <1>5, <2>7, <2>8, <2>10, <2>11
  <2> QED BY <1>3, <2>9, <2>12
<1>11. order.id \notin E!AllResting' /\ order.type = "LIMIT"
          => ~(Traded(tape', order.id) < Quantity(lines'[Owners'[order.id]]))
  <2>1. order.type = "LIMIT" /\ E!Share(order, trades, order.id) < order.quantity
          => order.id \in E!RestingIds(books'[order.symbol])
    BY <1>4 DEF E!Follows
  <2>2. order.id \in E!RestingIds(books'[order.symbol]) => order.id \in E!AllResting'
    BY <1>2 DEF E!AllResting, E!Resting
  <2>3. Traded(tape', order.id) = E!Share(order, trades, order.id)
    BY <1>2, <1>5, <1>6
  <2>4. lines'[Owners'[order.id]] = line
    BY <1>1, <1>2
  <2> QED BY <1>2, <2>1, <2>2, <2>3, <2>4
<1>12. ASSUME NEW id \in usedIds, id \notin E!AllResting
       PROVE  Traded(tape', id) = Traded(tape, id)
  <2>1. id \notin E!RestingIds(books[order.symbol])
    BY <1>2, <1>12 DEF E!AllResting, E!Resting
  <2>2. E!Share(order, trades, id) = 0
    BY <1>2, <1>6, <2>1
  <2> QED BY <1>5, <2>2
<1>13. (Vanished = {id \in usedIds \ E!AllResting :
                      /\ lines[Owners[id]].type = "LIMIT"
                      /\ Traded(tape, id) < Quantity(lines[Owners[id]])})'
  BY VanishedIs, PTL
<1>14. ASSUME NEW id \in usedIds' PROVE id \in Vanished' <=> id \in Vanished
  <2>1. id \in Vanished' <=> /\ id \notin E!AllResting'
                             /\ lines'[Owners'[id]].type = "LIMIT"
                             /\ Traded(tape', id) < Quantity(lines'[Owners'[id]])
    BY <1>13, <1>14 DEF Quantity
  <2>2. id \in Vanished <=> /\ id \in usedIds /\ id \notin E!AllResting
                            /\ lines[Owners[id]].type = "LIMIT"
                            /\ Traded(tape, id) < Quantity(lines[Owners[id]])
    BY VanishedIs
  <2>3. CASE id = order.id
    BY <1>1, <1>2, <1>11, <2>1, <2>2, <2>3
  <2>4. CASE id \in usedIds /\ id \notin E!AllResting
    <3>1. id \notin E!AllResting'
      BY <1>2, <1>9, <2>4
    <3> QED BY <1>3, <1>12, <2>1, <2>2, <2>4, <3>1
  <2>5. CASE id \in usedIds /\ id \in E!AllResting
    <3>1. id \notin E!AllResting' => ~(Traded(tape', id) < Quantity(lines'[Owners'[id]]))
      <4>1. Quantity(lines'[Owners'[id]]) \in Nat
        BY <1>3, <1>7, <2>5, OwnerLine
      <4> QED BY <1>10, <2>5, <4>1
    <3> QED BY <2>1, <2>2, <2>5, <3>1
  <2> QED BY <1>2, <2>3, <2>4, <2>5
<1>15. Vanished' \subseteq usedIds' /\ Vanished \subseteq usedIds'
  BY <1>2, <1>13, VanishedIs
<1> QED BY <1>14, <1>15

LEMMA TradedIsNat ==
  ASSUME NEW t \in Seq(PrintedTrade), NEW id
  PROVE  Traded(t, id) \in Nat
<1> DEFINE f == [i \in DOMAIN t |-> t[i].qty]
           A == {i \in DOMAIN t : id \in {t[i].maker, t[i].taker}}
<1>1. DOMAIN t = 1 .. Len(t) /\ Len(t) \in Nat
  OBVIOUS
<1>2. IsFiniteSet(1 .. Len(t))
  BY <1>1, FS_Interval
<1>3. IsFiniteSet(A)
  <2>1. A \subseteq 1 .. Len(t)
    BY <1>1
  <2> HIDE DEF A
  <2> QED BY <1>2, <2>1, FS_Subset
<1>4. \A i \in A : f[i] \in Nat
  <2>1. \A i \in DOMAIN t : t[i] \in PrintedTrade
    OBVIOUS
  <2>2. \A i \in DOMAIN t : t[i].qty \in Nat
    BY <2>1 DEF PrintedTrade
  <2> QED BY <2>2
<1>5. SumFunctionOnSet(f, A) \in Nat
  <2> HIDE DEF f, A
  <2> QED BY <1>3, <1>4, SumNat
<1> QED BY <1>5 DEF Traded

\* A CANCEL that is accepted makes one order vanish, what is rejected none.
LEMMA RefusedVanished ==
  ASSUME Base, Base', Explained, Taped, NEW n, Refused(n)
  PROVE  Cardinality(Vanished') = Cardinality(Vanished)
                                    + (IF result'.status = "REJECTED" THEN 0 ELSE 1)
<1>1. /\ UNCHANGED <<symbols, usedIds, tape>> /\ Owners' = Owners
      /\ \A id \in usedIds : lines'[Owners[id]] = lines[Owners[id]]
  BY SendRefused
<1>2. EntriesOK /\ E!BooksInv /\ lines \in Seq(Line) /\ usedIds = DOMAIN Owners
  BY DEF Explained, Base, E!IInv, CommandOK
<1>3. (Vanished = {id \in usedIds \ E!AllResting :
                     /\ lines[Owners[id]].type = "LIMIT"
                     /\ Traded(tape, id) < Quantity(lines[Owners[id]])})'
  BY VanishedIs, PTL
<1>4. ASSUME NEW id
      PROVE  id \in Vanished' <=> /\ id \in usedIds /\ id \notin E!AllResting'
                                  /\ lines[Owners[id]].type = "LIMIT"
                                  /\ Traded(tape, id) < Quantity(lines[Owners[id]])
  BY <1>1, <1>3 DEF Quantity
<1>5. ASSUME NEW id
      PROVE  id \in Vanished <=> /\ id \in usedIds /\ id \notin E!AllResting
                                 /\ lines[Owners[id]].type = "LIMIT"
                                 /\ Traded(tape, id) < Quantity(lines[Owners[id]])
  BY VanishedIs
<1>6. IsFiniteSet(Vanished) /\ Cardinality(Vanished) \in Nat
  BY VanishedFinite, FS_CardinalityType
<1>7. ASSUME result'.status = "REJECTED", UNCHANGED books
      PROVE  Cardinality(Vanished') = Cardinality(Vanished)
  <2>1. E!AllResting' = E!AllResting
    BY <1>1, <1>7 DEF E!AllResting, E!Resting
  <2>2. Vanished' = Vanished
    BY <1>4, <1>5, <2>1
  <2> QED BY <2>2
<1>8. ASSUME NEW id, id \in E!AllResting, E!AllResting' = E!AllResting \ {id}
      PROVE  Cardinality(Vanished') = Cardinality(Vanished) + 1
  <2>1. PICK s \in symbols : id \in E!Resting(s)
    BY <1>8 DEF E!AllResting
  <2>2. PICK side \in Side : \E e \in ToSet(books[s][side]) : e.id = id
    BY <2>1, SameShares DEF E!Resting, E!RestingIds
  <2>3. PICK e \in ToSet(books[s][side]) : e.id = id
    BY <2>2
  <2>4. PICK own : own = lines[Owners[id]]
    OBVIOUS
  <2>5. own.type = "LIMIT" /\ e.open = Quantity(own) - Traded(tape, id)
    BY <1>2, <2>3, <2>4 DEF EntriesOK, RestOf
  <2>6. e.open >= 1 /\ e.open \in Int
    <3>1. books[s][side] \in Seq(E!Entry)
      BY <1>2, SameShares DEF E!BooksInv, E!TypeOK
    <3>2. e \in E!Entry
      BY <3>1 DEF ToSet
    <3>3. e.open \in 1 .. Width - 1
      BY <3>2 DEF E!Entry
    <3> QED BY <3>3, ScaleAssumption
  <2>7. id \in usedIds
    BY <1>2, <1>8 DEF E!BooksInv
  <2>8. Quantity(own) \in Nat
    BY <1>2, <2>4, <2>7, OwnerLine
  <2>9. Traded(tape, id) < Quantity(own)
    <3>1. tape \in Seq(PrintedTrade)
      BY DEF Explained, TapeOK
    <3>2. Traded(tape, id) \in Nat
      BY <3>1, TradedIsNat
    <3> QED BY <2>5, <2>6, <2>8, <3>2
  <2>10. id \notin Vanished /\ id \in Vanished'
    BY <1>4, <1>5, <1>8, <2>4, <2>5, <2>7, <2>9
  <2>11. \A i : i # id => (i \in Vanished' <=> i \in Vanished)
    BY <1>4, <1>5, <1>8
  <2>12. Vanished' = Vanished \cup {id}
    BY <2>10, <2>11
  <2> QED BY <1>6, <2>10, <2>12, FS_AddElement
<1>9. PICK order : order = Parser!ParsedOrder(lines'[n])
  OBVIOUS
<1>10. E!Cancel(order.symbol, order.id) \/ E!Reject(order)
  BY <1>9 DEF Refused
<1>11. CASE E!Reject(order)
  <2>1. result'.status = "REJECTED" /\ UNCHANGED books
    BY <1>11 DEF E!Reject, E!Rejected, E!Result
  <2> QED BY <1>6, <1>7, <2>1
<1>12. CASE E!Cancel(order.symbol, order.id)
  <2>1. \/ /\ result'.status = "CANCELLED" /\ order.id \in E!AllResting
           /\ E!AllResting' = E!AllResting \ {order.id}
        \/ result'.status = "REJECTED" /\ UNCHANGED books
    BY <1>2, <1>12, EngineParameters, E!CancelEntries
  <2> QED BY <1>6, <1>7, <1>8, <2>1
<1> QED BY <1>10, <1>11, <1>12

\* Nothing is counted without an order.
LEMMA KeptStats ==
  ASSUME Base, Base', Explained, StatsOK, Kept,
         EndOfFile \/ CannotOpen \/ EndReplay \/ Quit
  PROVE  StatsOK'
<1> SUFFICES ASSUME opts.replay PROVE StatsOK'
  BY DEF Kept, StatsOK
<1>1. /\ UNCHANGED <<usedIds, ordersProcessed, tradesGenerated, tape, opts>>
      /\ Vanished' = Vanished /\ (Taped' <=> Taped)
  BY VanishedSame DEF Kept, engineVars, Taped
<1>2. CASE EndOfFile \/ CannotOpen
  <2>1. /\ stats' = [stats EXCEPT !.submitted = Len(orders')] /\ phase' = "replay"
        /\ Untouched
    BY <1>2 DEF EndOfFile, CannotOpen, StartReplay, Base, CommandOK
  <2>2. Len(orders') \in Nat
    BY <1>1 DEF Base, LinesOK, Parsed
  <2> QED BY <1>1, <2>1, <2>2 DEF StatsOK
<1>3. CASE EndReplay
  <2>1. /\ UNCHANGED <<stats, orders>> /\ ordersProcessed = Len(orders)
        /\ phase = "replay"
    BY <1>3 DEF EndReplay, outputVars, parserVars
  <2> QED BY <1>1, <2>1 DEF StatsOK
<1>4. CASE Quit
  BY <1>4 DEF Quit, Base, CommandOK
<1> QED BY <1>2, <1>3, <1>4

\* An order that is submitted is counted once, with its trades.
LEMMA SubmitStats ==
  ASSUME Base, Base', Explained, StatsOK, SubmitNext
  PROVE  StatsOK'
<1>1. PICK n \in DOMAIN lines : Sends(n)
  BY SubmitSends DEF Base
<1>2. /\ opts.replay /\ phase = "replay" /\ UNCHANGED <<phase, opts, orders>>
      /\ stats' = Counted(result') /\ ordersProcessed' = ordersProcessed + 1
      /\ ordersProcessed \in Nat
  BY DEF SubmitNext, Engine!SubmitOrder, Base, CommandOK, E!IInv, E!BooksInv, E!TypeOK, parserVars
<1>3. Taped' <=> Taped
  BY <1>2 DEF Taped
<1>4. /\ IsFiniteSet(usedIds) /\ Cardinality(usedIds) \in Nat
      /\ IsFiniteSet(Vanished) /\ Cardinality(Vanished) \in Nat
  BY VanishedFinite, FS_CardinalityType
<1>5. tradesGenerated \in Nat
  BY DEF Base, E!IInv, E!BooksInv, E!TypeOK
<1>6. /\ stats \in [submitted : Nat, accepted : Nat, rejected : Nat, trades : Nat]
      /\ stats.accepted + stats.rejected = ordersProcessed
      /\ stats.trades = tradesGenerated
      /\ Taped => /\ Len(tape) = tradesGenerated
                  /\ stats.accepted = Cardinality(usedIds) + Cardinality(Vanished)
      /\ stats.submitted = Len(orders)
  BY <1>2 DEF StatsOK
<1>7. ASSUME NEW new \in Nat, Len(result'.trades) = new, NEW took \in {0, 1},
             took = 0 <=> result'.status = "REJECTED",
             tradesGenerated' = tradesGenerated + new,
             Taped => /\ Len(tape') = Len(tape) + new
                      /\ Cardinality(usedIds') + Cardinality(Vanished')
                           = Cardinality(usedIds) + Cardinality(Vanished) + took
      PROVE  StatsOK'
  <2>1. PICK a, r, m : /\ a = stats.accepted + took /\ r = stats.rejected + (1 - took)
                       /\ m = stats.trades + new
    OBVIOUS
  <2>2. /\ stats.accepted \in Nat /\ stats.rejected \in Nat /\ stats.trades \in Nat
        /\ stats.submitted \in Nat
    BY <1>6
  <2>3. a \in Nat /\ r \in Nat /\ m \in Nat
    <3>1. took \in Nat /\ 1 - took \in Nat /\ new \in Nat
      BY <1>7
    <3>2. \A x, y \in Nat : x + y \in Nat
      OBVIOUS
    <3> QED BY <2>1, <2>2, <3>1, <3>2
  <2>4. stats' = [stats EXCEPT !.accepted = a, !.rejected = r, !.trades = m]
    <3>1. stats' = [stats EXCEPT
                      !.accepted = @ + (IF result'.status = "REJECTED" THEN 0 ELSE 1),
                      !.rejected = @ + (IF result'.status = "REJECTED" THEN 1 ELSE 0),
                      !.trades   = @ + Len(result'.trades)]
      BY <1>2 DEF Counted
    <3>2. (IF result'.status = "REJECTED" THEN 0 ELSE 1) = took
      BY <1>7
    <3>3. (IF result'.status = "REJECTED" THEN 1 ELSE 0) = 1 - took
      BY <1>7
    <3> QED BY <1>7, <2>1, <3>1, <3>2, <3>3
  <2>5. /\ stats' \in [submitted : Nat, accepted : Nat, rejected : Nat, trades : Nat]
        /\ stats'.accepted = a /\ stats'.rejected = r /\ stats'.trades = m
        /\ stats'.submitted = stats.submitted
    BY <1>6, <2>3, <2>4
  <2>6. stats'.accepted + stats'.rejected = ordersProcessed'
    <3>1. \A x, y \in Nat : (x + took) + (y + (1 - took)) = x + y + 1
      BY <1>7
    <3>2. a + r = ordersProcessed + 1
      BY <1>6, <2>1, <2>2, <3>1
    <3> QED BY <1>2, <2>5, <3>2
  <2>7. stats'.trades = tradesGenerated'
    BY <1>5, <1>6, <1>7, <2>1, <2>5
  <2>8. Taped' => /\ Len(tape') = tradesGenerated'
                  /\ stats'.accepted = Cardinality(usedIds') + Cardinality(Vanished')
    BY <1>3, <1>4, <1>5, <1>6, <1>7, <2>1, <2>5
  <2> QED BY <1>2, <1>6, <2>5, <2>6, <2>7, <2>8 DEF StatsOK
<1>8. CASE Accepted(n)
  <2>1. PICK order, trades : order = Parser!ParsedOrder(lines'[n]) /\ trades = result'.trades
    OBVIOUS
  <2>2. /\ order \in E!Input /\ order.id \notin usedIds /\ usedIds' = usedIds \cup {order.id}
        /\ trades \in Seq(E!Trade)
    BY <1>8, <2>1, SendAccepted
  <2>3. result'.status # "REJECTED" /\ tradesGenerated' = tradesGenerated + Len(trades)
    <3>1. E!BooksInv /\ order.type # "CANCEL" /\ E!Valid(order) /\ E!Execute(order)
      BY <1>8, <2>1 DEF Accepted, Base, E!IInv
    <3>2. order \in E!Input
      BY <2>2
    <3>3. /\ result'.status # "REJECTED"
          /\ tradesGenerated' = tradesGenerated + Len(result'.trades)
      BY <3>1, <3>2, EngineParameters, E!ExecuteAnswers
    <3> QED BY <2>1, <3>3
  <2>4. Taped => Len(tape') = Len(tape) + Len(trades)
    BY <1>8, <2>1, AcceptedTrades
  <2>5. Taped => Vanished' = Vanished
    BY <1>8, AcceptedVanished
  <2>6. Cardinality(usedIds') = Cardinality(usedIds) + 1
    BY <1>4, <2>2, FS_AddElement
  <2>7. Len(trades) \in Nat
    BY <2>2
  <2>8. PICK new, took : new = Len(trades) /\ took = 1
    OBVIOUS
  <2>9. /\ new \in Nat /\ Len(result'.trades) = new /\ took \in {0, 1}
        /\ took = 0 <=> result'.status = "REJECTED"
        /\ tradesGenerated' = tradesGenerated + new
    BY <2>1, <2>3, <2>7, <2>8
  <2>10. Taped => /\ Len(tape') = Len(tape) + new
                  /\ Cardinality(usedIds') + Cardinality(Vanished')
                       = Cardinality(usedIds) + Cardinality(Vanished) + took
    BY <1>4, <2>4, <2>5, <2>6, <2>8
  <2> QED BY <1>7, <2>9, <2>10
<1>9. CASE Refused(n)
  <2>1. /\ result'.trades = <<>> /\ UNCHANGED <<usedIds, tradesGenerated, tape>>
    BY <1>9, SendRefused
  <2>2. Taped => Cardinality(Vanished') = Cardinality(Vanished)
                                            + (IF result'.status = "REJECTED" THEN 0 ELSE 1)
    BY <1>9, RefusedVanished
  <2>3. PICK took : took = IF result'.status = "REJECTED" THEN 0 ELSE 1
    OBVIOUS
  <2>4. tape \in Seq(PrintedTrade)
    BY DEF Explained, TapeOK
  <2>5. Len(tape) \in Nat /\ Len(<<>>) = 0
    BY <2>4
  <2>6. Taped => /\ Len(tape') = Len(tape) + 0
                 /\ Cardinality(usedIds') + Cardinality(Vanished')
                      = Cardinality(usedIds) + Cardinality(Vanished) + took
    BY <1>4, <2>1, <2>2, <2>3, <2>5
  <2>7. took \in {0, 1} /\ (took = 0 <=> result'.status = "REJECTED")
    BY <2>3
  <2>8. Len(result'.trades) = 0 /\ tradesGenerated' = tradesGenerated + 0
    BY <1>5, <2>1, <2>5
  <2> QED BY <1>7, <2>6, <2>7, <2>8
<1> QED BY <1>1, <1>8, <1>9, SendCases

LEMMA StatsKeeps ==
  ASSUME Base, Base', Explained, StatsOK, [Next]_vars
  PROVE  StatsOK'
<1>1. CASE UNCHANGED vars
  <2>1. /\ UNCHANGED <<engineVars, tape, opts, lines, ordersProcessed, stats, phase>>
    BY <1>1 DEF vars, outputVars, engineVars
  <2>2. Kept
    BY <2>1, LinesSame DEF Kept, Sent
  <2>3. UNCHANGED orders
    BY <1>1 DEF vars, parserVars
  <2>4. Vanished' = Vanished
    BY <2>2, VanishedSame
  <2>5. Taped' <=> Taped
    BY <2>1 DEF Taped
  <2> QED BY <2>1, <2>3, <2>4, <2>5 DEF StatsOK, engineVars
<1>2. CASE ReadOption \/ ChooseMode \/ RegisterSymbol \/ \E line \in Line : ReadLine(line)
  <2>1. Untouched' /\ phase' \notin {"replay", "exit"}
    <3>1. ASSUME ReadOption \/ ChooseMode \/ \E line \in Line : ReadLine(line)
          PROVE  Untouched' /\ phase' \notin {"replay", "exit"}
      <4>1. UNCHANGED <<engineVars, outputVars>> /\ Untouched /\ phase' \notin {"replay", "exit"}
        BY <3>1 DEF ReadOption, ChooseMode, ReadLine, Base, CommandOK, Blank
      <4> QED BY <4>1 DEF Untouched, engineVars, outputVars
    <3>2. ASSUME RegisterSymbol PROVE Untouched' /\ phase' \notin {"replay", "exit"}
      BY <3>2, SymbolTaken DEF Base, Blank, RegisterSymbol
    <3> QED BY <1>2, <3>1, <3>2
  <2>2. (Untouched /\ phase \notin {"replay", "exit"} => StatsOK)'
    BY UntouchedStats, PTL
  <2> QED BY <2>1, <2>2
<1>3. CASE EndOfFile \/ CannotOpen \/ EndReplay \/ Quit
  <2>1. UNCHANGED <<opts, lines, engineVars, tape>>
    BY <1>3 DEF EndOfFile, CannotOpen, EndReplay, Quit, StartReplay, outputVars
  <2>2. Good' = Good
    BY <2>1, LinesSame
  <2>3. Kept
    BY <2>1, <2>2 DEF Kept, Sent, engineVars
  <2> QED BY <1>3, <2>3, KeptStats
<1>4. CASE \E line \in Line : Enter(line)
  BY <1>4 DEF Enter, Base, CommandOK, StatsOK
<1>5. CASE SubmitNext
  BY <1>5, SubmitStats
<1> QED BY <1>1, <1>2, <1>3, <1>4, <1>5 DEF Next

(***************************************************************************)
(* The statistics of a replay add up, whatever its lines.                  *)
(***************************************************************************)
THEOREM StatsAdd == Spec => []StatsAgree
<1>1. Init => StatsOK
  <2>1. Init => Untouched /\ phase \notin {"replay", "exit"}
    BY CommandStarts DEF Init, Untouched, NoStats, Engine!Init, Feed!Init
  <2> QED BY <2>1, UntouchedStats
<1>2. Base /\ Base' /\ Explained /\ StatsOK /\ [Next]_vars => StatsOK'
  BY StatsKeeps
<1>3. Base /\ StatsOK => StatsAgree
  <2> SUFFICES ASSUME Base, StatsOK PROVE StatsAgree
    OBVIOUS
  <2> QED BY DEF StatsOK, StatsAgree
<1> QED BY <1>1, <1>2, <1>3, ExplainedHolds, PTL DEF Spec

------------------------------------------------------------------------------
(***************************************************************************)
(* The prints of a session: the keys of a map run through the prices, each *)
(* at its rank, so the rows of a print are the best levels.                *)
(***************************************************************************)
Rank(side, p, set) == Cardinality({q \in set : AsGood(side, q, p)})

\* From the best price to the worst.
Falls(side, keys) ==
  \A i, j \in DOMAIN keys : i < j => keys[i] # keys[j] /\ AsGood(side, keys[i], keys[j])

\* The ranks are those of a sequence: in order, and none is missing.
LEMMA RankOrder ==
  ASSUME NEW S, IsFiniteSet(S), S \subseteq Int, NEW side
  PROVE  /\ Cardinality(S) \in Nat
         /\ \A p \in S : Rank(side, p, S) \in 1 .. Cardinality(S)
         /\ \A p, q \in S : p # q /\ AsGood(side, p, q) => Rank(side, p, S) < Rank(side, q, S)
         /\ \A k \in 1 .. Cardinality(S) : \E p \in S : Rank(side, p, S) = k
<1> DEFINE Upto(p) == {q \in S : AsGood(side, q, p)}
           At == [p \in S |-> Rank(side, p, S)]
<1>1. Cardinality(S) \in Nat
  BY FS_CardinalityType
<1>2. /\ \A p \in Int : AsGood(side, p, p)
      /\ \A p, q, r \in Int : AsGood(side, p, q) /\ AsGood(side, q, r) => AsGood(side, p, r)
      /\ \A p, q \in Int : AsGood(side, p, q) \/ AsGood(side, q, p)
      /\ \A p, q \in Int : AsGood(side, p, q) /\ AsGood(side, q, p) => p = q
  BY DEF AsGood
<1>3. ASSUME NEW p \in S
      PROVE  Rank(side, p, S) \in 1 .. Cardinality(S) /\ IsFiniteSet(Upto(p))
  <2>1. Upto(p) \subseteq S /\ p \in Upto(p)
    BY <1>2
  <2>2. IsFiniteSet(Upto(p))
    BY <2>1, FS_Subset
  <2> HIDE DEF Upto
  <2>3. Cardinality(Upto(p)) \in Nat /\ Cardinality(Upto(p)) <= Cardinality(S)
    BY <2>1, <2>2, FS_Subset, FS_CardinalityType
  <2>4. Cardinality(Upto(p)) # 0
    BY <2>1, <2>2, FS_EmptySet
  <2>5. Rank(side, p, S) = Cardinality(Upto(p))
    BY DEF Rank, Upto
  <2> QED BY <1>1, <2>2, <2>3, <2>4, <2>5
<1>4. ASSUME NEW p \in S, NEW q \in S, p # q, AsGood(side, p, q)
      PROVE  Rank(side, p, S) < Rank(side, q, S)
  <2>1. Upto(p) \subseteq Upto(q)
    BY <1>2, <1>4
  <2>2. q \in Upto(q) /\ q \notin Upto(p)
    BY <1>2, <1>4
  <2>3. IsFiniteSet(Upto(p)) /\ IsFiniteSet(Upto(q))
    BY <1>3
  <2> HIDE DEF Upto
  <2>4. Upto(p) # Upto(q)
    BY <2>2
  <2>5. /\ Cardinality(Upto(p)) <= Cardinality(Upto(q))
        /\ Cardinality(Upto(p)) = Cardinality(Upto(q)) => Upto(p) = Upto(q)
    BY <2>1, <2>3, FS_Subset
  <2>6. Cardinality(Upto(p)) \in Nat /\ Cardinality(Upto(q)) \in Nat
    BY <2>3, FS_CardinalityType
  <2>7. Cardinality(Upto(p)) < Cardinality(Upto(q))
    BY <2>4, <2>5, <2>6
  <2> QED BY <2>7 DEF Rank, Upto
<1>5. ASSUME NEW k \in 1 .. Cardinality(S) PROVE \E p \in S : Rank(side, p, S) = k
  <2> DEFINE T == 1 .. Cardinality(S)
  <2>1. IsFiniteSet(T) /\ Cardinality(T) = Cardinality(S)
    BY <1>1, FS_Interval
  <2>2. At \in [S -> T]
    BY <1>3
  <2>3. ASSUME NEW p \in S, NEW q \in S, At[p] = At[q] PROVE p = q
    <3>1. Rank(side, p, S) = Rank(side, q, S)
      BY <2>3
    <3>2. Rank(side, p, S) \in Int
      <4>1. Rank(side, p, S) \in 1 .. Cardinality(S)
        BY <1>3
      <4> QED BY <4>1
    <3>3. p # q => ~AsGood(side, p, q) /\ ~AsGood(side, q, p)
      BY <1>4, <3>1, <3>2
    <3> QED BY <1>2, <3>3
  <2>4. At \in Injection(S, T)
    <3> HIDE DEF T, At
    <3> QED BY <2>2, <2>3 DEF Injection, IsInjective
  <2> HIDE DEF T, At
  <2>5. At \in Surjection(S, T)
    BY <2>1, <2>4, FS_Injection
  <2>6. PICK p \in S : At[p] = k
    BY <2>5 DEF Surjection, T
  <2> QED BY <2>6 DEF At
<1> QED BY <1>1, <1>3, <1>4, <1>5

\* The prices of a side can be put in order.
LEMMA KeysExist ==
  ASSUME NEW S, IsFiniteSet(S), S \subseteq Int, NEW side
  PROVE  \E keys \in [1 .. Cardinality(S) -> S] : Falls(side, keys)
<1> DEFINE n == Cardinality(S)
           keys == [i \in 1 .. n |-> CHOOSE p \in S : Rank(side, p, S) = i]
<1>1. n \in Nat
  BY RankOrder
<1>2. /\ \A p, q \in S : p # q /\ AsGood(side, p, q) => Rank(side, p, S) < Rank(side, q, S)
      /\ \A k \in 1 .. n : \E p \in S : Rank(side, p, S) = k
  BY RankOrder
<1>3. \A i \in 1 .. n : keys[i] \in S /\ Rank(side, keys[i], S) = i
  BY <1>2
<1>4. keys \in [1 .. n -> S] /\ DOMAIN keys = 1 .. n
  BY <1>3
<1> HIDE DEF keys, n
<1>5. ASSUME NEW i \in 1 .. n, NEW j \in 1 .. n, i < j
      PROVE  keys[i] # keys[j] /\ AsGood(side, keys[i], keys[j])
  <2>1. keys[i] # keys[j]
    BY <1>3, <1>5
  <2>2. keys[i] \in Int /\ keys[j] \in Int
    BY <1>3
  <2>3. AsGood(side, keys[i], keys[j]) \/ AsGood(side, keys[j], keys[i])
    BY <2>2 DEF AsGood
  <2>4. AsGood(side, keys[j], keys[i]) => j < i
    BY <1>2, <1>3, <2>1
  <2>5. ~(j < i)
    BY <1>5
  <2> QED BY <2>1, <2>3, <2>4, <2>5
<1>6. Falls(side, keys)
  BY <1>4, <1>5 DEF Falls
<1> QED BY <1>4, <1>6 DEF n

\* In order, each price is at its rank.
LEMMA KeysRank ==
  ASSUME NEW S, IsFiniteSet(S), S \subseteq Int, NEW side,
         NEW keys \in [1 .. Cardinality(S) -> S], Falls(side, keys),
         NEW i \in 1 .. Cardinality(S)
  PROVE  Rank(side, keys[i], S) = i
<1> DEFINE n == Cardinality(S)
           T == 1 .. n
           Upto == {p \in S : AsGood(side, p, keys[i])}
           first == [j \in 1 .. i |-> keys[j]]
<1>1. n \in Nat /\ IsFiniteSet(T) /\ Cardinality(T) = n
  BY FS_CardinalityType, FS_Interval
<1>2. keys \in [T -> S] /\ i \in T
  OBVIOUS
<1>3. ASSUME NEW j \in T, NEW k \in T, keys[j] = keys[k] PROVE j = k
  <2>1. ~(j < k) /\ ~(k < j)
    BY <1>2, <1>3 DEF Falls
  <2> QED BY <1>1, <2>1
<1>4. keys \in Injection(T, S)
  <2> HIDE DEF T
  <2> QED BY <1>2, <1>3 DEF Injection, IsInjective
<1>5. keys \in Surjection(T, S)
  <2> HIDE DEF T
  <2>1. Cardinality(T) = Cardinality(S)
    BY <1>1 DEF n
  <2> QED BY <1>4, <2>1, FS_Injection
<1>6. i \in Nat /\ 1 .. i \subseteq T
  BY <1>1, <1>2
<1>7. ASSUME NEW j \in 1 .. i PROVE keys[j] \in Upto
  <2>1. j \in T /\ keys[j] \in S /\ keys[j] \in Int
    BY <1>2, <1>6
  <2>2. j < i \/ j = i
    BY <1>6
  <2>3. AsGood(side, keys[j], keys[i])
    BY <1>2, <2>1, <2>2 DEF Falls, AsGood
  <2> QED BY <2>1, <2>3
<1>8. ASSUME NEW p \in Upto PROVE \E j \in 1 .. i : keys[j] = p
  <2>1. PICK j \in T : keys[j] = p
    BY <1>5 DEF Surjection
  <2>2. ~(i < j)
    <3> SUFFICES ASSUME i < j PROVE FALSE
      OBVIOUS
    <3>1. keys[i] # keys[j] /\ AsGood(side, keys[i], keys[j]) /\ AsGood(side, keys[j], keys[i])
      BY <1>2, <2>1 DEF Falls
    <3>2. keys[i] \in Int /\ keys[j] \in Int
      BY <1>2, <2>1
    <3> QED BY <3>1, <3>2 DEF AsGood
  <2>3. j \in 1 .. i
    BY <1>6, <2>1, <2>2
  <2> QED BY <2>1, <2>3
<1>9. IsFiniteSet(1 .. i) /\ Cardinality(1 .. i) = i
  BY <1>6, FS_Interval
<1> DEFINE I == 1 .. i
<1>10. first \in [I -> Upto]
  <2> HIDE DEF Upto
  <2> QED BY <1>7
<1>11. \A p \in Upto : \E j \in I : first[j] = p
  <2> HIDE DEF Upto
  <2> QED BY <1>8
<1>12. \A j, k \in I : first[j] = first[k] => j = k
  BY <1>3, <1>6
<1> HIDE DEF I, first, Upto
<1>13. first \in Surjection(I, Upto) /\ first \in Injection(I, Upto)
  BY <1>10, <1>11, <1>12 DEF Surjection, Injection, IsInjective
<1>14. Cardinality(Upto) = Cardinality(I)
  <2>1. IsFiniteSet(I)
    BY <1>9 DEF I
  <2> QED BY <1>13, <2>1, FS_Surjection
<1> QED BY <1>9, <1>14 DEF Rank, Upto, I

\* The feed's operators are those of the property.
LEMMA SameFeed ==
  /\ \A q : Feed!Prices(q) = {e.price : e \in ToSet(q)}
  /\ \A s, p, q : Feed!AsGood(s, p, q) <=> AsGood(s, p, q)
  /\ \A m, n : Feed!Lesser(m, n) = Lesser(m, n)
  /\ \A S : Feed!Cardinality(S) = Cardinality(S)
  /\ \A f : Feed!SumFunction(f) = SumFunctionOnSet(f, DOMAIN f)
<1>1. \A q : Feed!ToSet(q) = ToSet(q)
  BY DEF Feed!ToSet, ToSet
<1>2. \A q : Feed!Prices(q) = {e.price : e \in ToSet(q)}
  BY <1>1 DEF Feed!Prices
<1>3. \A s, p, q : Feed!AsGood(s, p, q) <=> AsGood(s, p, q)
  BY DEF Feed!AsGood, AsGood
<1>4. \A m, n : Feed!Lesser(m, n) = Lesser(m, n)
  BY DEF Feed!Lesser, Lesser
<1>5. \A S : Feed!Cardinality(S) = Cardinality(S)
  BY DEF Feed!Cardinality, Cardinality
<1>6. \A f, S : Feed!SumFunctionOnSet(f, S) = SumFunctionOnSet(f, S)
  BY DEF Feed!SumFunctionOnSet, SumFunctionOnSet, Feed!FoldFunctionOnSet, FoldFunctionOnSet,
         Feed!MapThenFoldSet, MapThenFoldSet
<1>7. \A f : Feed!SumFunction(f) = SumFunctionOnSet(f, DOMAIN f)
  BY <1>6 DEF Feed!SumFunction
<1> QED BY <1>2, <1>3, <1>4, <1>5, <1>7

\* What the entries of a side have left, together.
SideQty(q) == SumFunctionOnSet([e \in ToSet(q) |-> e.open], ToSet(q))

LEMMA SideFinite ==
  ASSUME NEW q \in Seq(E!Entry)
  PROVE  IsFiniteSet(ToSet(q)) /\ \A e \in ToSet(q) : e \in E!Entry /\ e.open \in Nat
<1> DEFINE T == ToSet(q)
           At == [i \in 1 .. Len(q) |-> q[i]]
<1>1. /\ DOMAIN q = 1 .. Len(q) /\ Len(q) \in Nat
      /\ \A i \in DOMAIN q : q[i] \in E!Entry
  OBVIOUS
<1>2. At \in Surjection(1 .. Len(q), T)
  <2>1. \A i \in 1 .. Len(q) : q[i] \in T
    BY <1>1 DEF ToSet
  <2>2. \A e \in T : \E i \in 1 .. Len(q) : q[i] = e
    BY <1>1 DEF ToSet
  <2> HIDE DEF T
  <2> QED BY <2>1, <2>2 DEF Surjection
<1>3. IsFiniteSet(1 .. Len(q))
  BY <1>1, FS_Interval
<1>4. IsFiniteSet(T)
  <2> HIDE DEF T, At
  <2> QED BY <1>2, <1>3, FS_Surjection
<1>5. ASSUME NEW e \in E!Entry PROVE e.open \in Nat
  <2>1. Width - 1 \in Int /\ e.open \in 1 .. Width - 1
    BY ScaleAssumption DEF E!Entry
  <2> QED BY <2>1
<1> QED BY <1>1, <1>4, <1>5 DEF ToSet

\* The total of a level, entry by entry: it has not wrapped.
LEMMA QtyIs ==
  ASSUME NEW q \in Seq(E!Entry), E!IdsApart(q), SideQty(q) < Width, NEW p
  PROVE  Feed!QtyAt(q, p) = SumFunctionOnSet([e \in ToSet(q) |-> e.open],
                                             {e \in ToSet(q) : e.price = p})
<1> DEFINE S == {i \in DOMAIN q : q[i].price = p}
           f == [i \in S |-> q[i].open]
           g == [e \in ToSet(q) |-> e.open]
           T == {e \in ToSet(q) : e.price = p}
<1>1. /\ DOMAIN q = 1 .. Len(q) /\ Len(q) \in Nat
      /\ \A i \in DOMAIN q : q[i] \in E!Entry
  OBVIOUS
<1>2. IsFiniteSet(1 .. Len(q))
  BY <1>1, FS_Interval
<1>3. IsFiniteSet(S)
  <2>1. S \subseteq 1 .. Len(q)
    BY <1>1
  <2> HIDE DEF S
  <2> QED BY <1>2, <2>1, FS_Subset
<1>4. \A i, j \in S : q[i] = q[j] => i = j
  BY DEF E!IdsApart
<1>5. \A i \in S : f[i] \in Int
  <2>1. \A i \in DOMAIN q : q[i].open \in 1 .. Width - 1
    BY <1>1 DEF E!Entry
  <2>2. Width - 1 \in Int
    BY ScaleAssumption
  <2> QED BY <2>1, <2>2
<1>6. \A i \in S : g[q[i]] = f[i]
  BY DEF ToSet
<1>7. /\ \A i \in S : q[i] \in T
      /\ \A e \in T : \E i \in S : q[i] = e
  BY DEF ToSet
<1>8. SumFunctionOnSet(g, T) = SumFunctionOnSet(f, S)
  <2> HIDE DEF S, f, g, T
  <2> QED BY <1>3, <1>4, <1>5, <1>6, <1>7, SumImage
<1>9. Feed!QtyAt(q, p) = SumFunctionOnSet(f, DOMAIN f) % Width
  BY SameFeed DEF Feed!QtyAt
<1>10. SumFunctionOnSet(g, T) \in 0 .. Width - 1
  <2>1. IsFiniteSet(ToSet(q)) /\ T \in SUBSET ToSet(q)
    BY SideFinite
  <2>2. \A e \in ToSet(q) : g[e] \in Nat
    BY SideFinite
  <2>3. SumFunctionOnSet(g, ToSet(q)) < Width
    BY DEF SideQty
  <2> HIDE DEF g, T
  <2>4. IsFiniteSet(T)
    BY <2>1, FS_Subset
  <2>5. SumFunctionOnSet(g, T) \in Nat /\ SumFunctionOnSet(g, ToSet(q)) \in Nat
    BY <2>1, <2>2, <2>4, SumNat
  <2>6. SumFunctionOnSet(g, T) <= SumFunctionOnSet(g, ToSet(q))
    BY <2>1, <2>2, SumSubset
  <2> QED BY <2>3, <2>5, <2>6, ScaleAssumption
<1>11. \A m \in 0 .. Width - 1 : m % Width = m
  BY ScaleAssumption
<1> HIDE DEF g, T
<1> QED BY <1>8, <1>9, <1>10, <1>11 DEF g, T

\* The prices on a side are finitely many integers.
LEMMA PricesFinite ==
  ASSUME NEW q \in Seq(E!Entry)
  PROVE  LET prices == {e.price : e \in ToSet(q)} IN
         IsFiniteSet(prices) /\ prices \subseteq Int
<1> DEFINE prices == {e.price : e \in ToSet(q)}
           At == [i \in 1 .. Len(q) |-> q[i].price]
<1>1. /\ DOMAIN q = 1 .. Len(q) /\ Len(q) \in Nat
      /\ \A i \in DOMAIN q : q[i] \in E!Entry
  OBVIOUS
<1>2. IsFiniteSet(1 .. Len(q))
  BY <1>1, FS_Interval
<1>3. At \in Surjection(1 .. Len(q), prices)
  <2>1. \A i \in 1 .. Len(q) : q[i].price \in prices
    BY <1>1 DEF ToSet
  <2>2. \A p \in prices : \E i \in 1 .. Len(q) : q[i].price = p
    BY <1>1 DEF ToSet
  <2> HIDE DEF prices
  <2> QED BY <2>1, <2>2 DEF Surjection
<1>4. IsFiniteSet(prices)
  <2> HIDE DEF prices, At
  <2> QED BY <1>2, <1>3, FS_Surjection
<1>5. \A i \in DOMAIN q : q[i].price \in Int
  <2>1. {Parser!ToFixedPrice(l.price) : l \in Parsing} \subseteq Int
    BY EngineParameters DEF E!BoundsAssumption
  <2> QED BY <1>1, <2>1 DEF E!Entry
<1>6. prices \subseteq Int
  BY <1>5 DEF ToSet
<1> QED BY <1>4, <1>6

\* The rows of a print are the best levels, in order, with what rests there.
LEMMA RowsAre ==
  ASSUME NEW side, NEW q \in Seq(E!Entry), E!IdsApart(q), SideQty(q) < Width
  PROVE  RowsRight(Feed!TopLevels(side, q, BookDepth), side, q)
<1> DEFINE prices == {e.price : e \in ToSet(q)}
           n == Cardinality(prices)
           m == Lesser(BookDepth, n)
           rows == Feed!TopLevels(side, q, BookDepth)
<1>1. IsFiniteSet(prices) /\ prices \subseteq Int
  BY PricesFinite
<1>2. n \in Nat /\ BookDepth \in Nat
  <2> HIDE DEF prices
  <2> QED BY <1>1, BoundsAssumption, FS_CardinalityType
<1>3. PICK keys : keys = Feed!Keys(side, q)
  OBVIOUS
<1>4. keys \in [1 .. n -> prices] /\ Falls(side, keys)
  <2>1. \E k \in [1 .. n -> prices] : Falls(side, k)
    <3> HIDE DEF prices
    <3> QED BY <1>1, KeysExist
  <2>2. \A k : Falls(side, k) <=> \A i, j \in DOMAIN k :
          i < j => k[i] # k[j] /\ Feed!AsGood(side, k[i], k[j])
    BY SameFeed DEF Falls
  <2>3. keys = CHOOSE k \in [1 .. n -> prices] : \A i, j \in DOMAIN k :
          i < j => k[i] # k[j] /\ Feed!AsGood(side, k[i], k[j])
    BY <1>3, SameFeed DEF Feed!Keys
  <2> HIDE DEF n, prices
  <2> QED BY <2>1, <2>2, <2>3
<1>5. \A i \in 1 .. n : Rank(side, keys[i], prices) = i /\ keys[i] \in prices
  <2> HIDE DEF prices
  <2> QED BY <1>1, <1>4, KeysRank
<1>6. Len(keys) = n /\ m \in Nat /\ 1 .. m \subseteq 1 .. n
  <2> HIDE DEF prices, n
  <2> QED BY <1>2, <1>4 DEF Lesser
<1>7. rows = [i \in 1 .. m |-> [price |-> keys[i], qty |-> Feed!QtyAt(q, keys[i])]]
  BY <1>3, <1>6, SameFeed DEF Feed!TopLevels
<1>8. Len(rows) = m /\ DOMAIN rows = 1 .. m
  <2> HIDE DEF m, rows
  <2>1. DOMAIN rows = 1 .. m /\ m \in Nat
    BY <1>6, <1>7
  <2> QED BY <2>1
<1>9. ASSUME NEW i \in 1 .. m
      PROVE  /\ Cardinality({p \in prices : AsGood(side, p, rows[i].price)}) = i
             /\ rows[i].qty = SumFunctionOnSet([e \in ToSet(q) |-> e.open],
                                               {e \in ToSet(q) : e.price = rows[i].price})
  <2>1. rows[i].price = keys[i] /\ rows[i].qty = Feed!QtyAt(q, keys[i])
    <3> HIDE DEF m, rows
    <3> QED BY <1>7
  <2>2. Rank(side, keys[i], prices) = i
    BY <1>5, <1>6
  <2>3. Cardinality({p \in prices : AsGood(side, p, rows[i].price)}) = i
    <3> HIDE DEF prices, rows
    <3> QED BY <2>1, <2>2 DEF Rank
  <2>4. Feed!QtyAt(q, keys[i]) = SumFunctionOnSet([e \in ToSet(q) |-> e.open],
                                                  {e \in ToSet(q) : e.price = keys[i]})
    BY QtyIs
  <2> HIDE DEF rows
  <2> QED BY <2>1, <2>3, <2>4
<1> HIDE DEF rows
<1> QED BY <1>8, <1>9 DEF RowsRight, rows

\* The spread of a book between calls is positive.
LEMMA SpreadRight ==
  ASSUME NEW b, E!GoodBook(b)
  PROVE  \A n \in Feed!Spread(b) : n > 0
<1> SUFFICES ASSUME NEW n \in Feed!Spread(b) PROVE n > 0
  OBVIOUS
<1>1. PICK ask \in Feed!Best("SELL", b["SELL"]) :
        \E bid \in Feed!Best("BUY", b["BUY"]) : n = ask - bid
  BY DEF Feed!Spread
<1>2. PICK bid \in Feed!Best("BUY", b["BUY"]) : n = ask - bid
  BY <1>1
<1>3. ask \in {e.price : e \in ToSet(b["SELL"])} /\ bid \in {e.price : e \in ToSet(b["BUY"])}
  BY SameFeed DEF Feed!Best
<1>4. PICK j \in DOMAIN b["SELL"] : ask = b["SELL"][j].price
  BY <1>3 DEF ToSet
<1>5. PICK i \in DOMAIN b["BUY"] : bid = b["BUY"][i].price
  BY <1>3 DEF ToSet
<1>6. bid < ask
  BY <1>4, <1>5 DEF E!GoodBook, E!Uncrossed
<1>7. ask \in Int /\ bid \in Int
  <2>1. b["SELL"] \in Seq(E!Entry) /\ b["BUY"] \in Seq(E!Entry)
    BY DEF E!GoodBook, E!Side
  <2>2. {e.price : e \in ToSet(b["SELL"])} \subseteq Int /\ {e.price : e \in ToSet(b["BUY"])} \subseteq Int
    BY <2>1, PricesFinite
  <2> QED BY <1>3, <2>2
<1> QED BY <1>2, <1>6, <1>7

\* The last print of a book is the book; a book never printed is empty.
FeedOK ==
  ~opts.replay =>
    \A s \in symbols : IF s \in DOMAIN published
                       THEN published[s].book = Feed!View(books[s], BookDepth)
                       ELSE books[s] = EmptyBook

LEMMA UntouchedFeed == Untouched => FeedOK
<1> SUFFICES ASSUME Untouched PROVE FeedOK
  OBVIOUS
<1>1. published = <<>> /\ \A s \in symbols : books[s] = EmptyBook
  BY DEF Untouched
<1>2. DOMAIN published = {}
  BY <1>1
<1> QED BY <1>1, <1>2 DEF FeedOK

\* An order changes no book but that of its symbol.
LEMMA OneBook ==
  ASSUME Base, Base', NEW order \in E!Input, E!SubmitOrder(order)
  PROVE  /\ UNCHANGED symbols
         /\ \A s \in symbols : s # order.symbol => books'[s] = books[s]
<1>1. E!BooksInv
  BY DEF Base, E!IInv
<1>2. CASE order.type = "CANCEL" /\ E!Cancel(order.symbol, order.id)
  <2>1. UNCHANGED symbols
    BY <1>2 DEF E!Cancel
  <2> QED BY <1>1, <1>2, <2>1, EngineParameters, E!CancelEntries
<1>3. CASE order.type # "CANCEL" /\ E!Valid(order) /\ E!Execute(order)
  BY <1>1, <1>3, EngineParameters, E!ExecuteAnswers, E!ExecuteEntries
<1>4. CASE ~E!Valid(order) /\ E!Reject(order)
  BY <1>4 DEF E!Reject
<1> QED BY <1>2, <1>3, <1>4 DEF E!SubmitOrder

\* Every order of a session prints its book.
LEMMA EnterFeed ==
  ASSUME Base, Base', FeedOK, NEW line \in Line, Enter(line)
  PROVE  FeedOK'
<1>1. ~opts.replay /\ UNCHANGED opts
  BY DEF Enter, Base, CommandOK
<1>2. \A s \in symbols : IF s \in DOMAIN published
                         THEN published[s].book = Feed!View(books[s], BookDepth)
                         ELSE books[s] = EmptyBook
  BY <1>1 DEF FeedOK
<1>3. CASE ~Parser!Parses(line)
  <2>1. UNCHANGED <<books, symbols, published>>
    BY <1>3 DEF Enter, engineVars
  <2> QED BY <1>1, <1>2, <2>1 DEF FeedOK
<1>4. CASE Parser!Parses(line)
  <2>1. PICK order : order = Parser!ParsedOrder(line)
    OBVIOUS
  <2>2. /\ order \in E!Input /\ Engine!SubmitOrder(order)
        /\ PublishBook(order.symbol, result'.trades)
    BY <1>4, <2>1, OrderParsed DEF Enter
  <2>3. /\ UNCHANGED symbols
        /\ \A s \in symbols : s # order.symbol => books'[s] = books[s]
    <3>1. E!SubmitOrder(order)
      BY <2>2, SameEngine
    <3> QED BY <2>2, <3>1, OneBook
  <2>4. symbols = DOMAIN books'
    BY <2>3 DEF Base, E!IInv, E!BooksInv, E!TypeOK
  <2>5. CASE order.symbol \in symbols
    <3>1. published' = [s \in DOMAIN published \cup {order.symbol} |->
                          IF s = order.symbol
                          THEN [book |-> Feed!View(books'[order.symbol], BookDepth),
                                trades |-> result'.trades]
                          ELSE published[s]]
      BY <2>2, <2>4, <2>5 DEF PublishBook, Feed!Publish
    <3>2. ASSUME NEW s \in symbols
          PROVE  IF s \in DOMAIN published'
                 THEN published'[s].book = Feed!View(books'[s], BookDepth)
                 ELSE books'[s] = EmptyBook
      <4>1. CASE s = order.symbol
        BY <3>1, <4>1
      <4>2. CASE s # order.symbol
        BY <1>2, <2>3, <3>1, <4>2
      <4> QED BY <4>1, <4>2
    <3> QED BY <2>3, <3>2 DEF FeedOK
  <2>6. CASE order.symbol \notin symbols
    <3>1. UNCHANGED published
      BY <2>2, <2>4, <2>6 DEF PublishBook
    <3>2. \A s \in symbols : books'[s] = books[s]
      BY <2>3, <2>6
    <3> QED BY <1>1, <1>2, <2>3, <3>1, <3>2 DEF FeedOK
  <2> QED BY <2>5, <2>6
<1> QED BY <1>3, <1>4

LEMMA FeedKeeps ==
  ASSUME Base, Base', FeedOK, [Next]_vars
  PROVE  FeedOK'
<1>1. CASE UNCHANGED vars \/ Quit
  <2>1. UNCHANGED <<opts, books, symbols, published>>
    BY <1>1 DEF vars, Quit, engineVars, outputVars
  <2> QED BY <2>1 DEF FeedOK
<1>2. CASE ReadOption \/ ChooseMode \/ RegisterSymbol \/ \E line \in Line : ReadLine(line)
  <2>1. Untouched'
    <3>1. ASSUME ReadOption \/ ChooseMode \/ \E line \in Line : ReadLine(line) PROVE Untouched'
      <4>1. UNCHANGED <<engineVars, outputVars>> /\ Untouched
        BY <3>1 DEF ReadOption, ChooseMode, ReadLine, Base, CommandOK, Blank
      <4> QED BY <4>1 DEF Untouched, engineVars, outputVars
    <3>2. ASSUME RegisterSymbol PROVE Untouched'
      BY <3>2, SymbolTaken DEF Base, Blank
    <3> QED BY <1>2, <3>1, <3>2
  <2>2. (Untouched => FeedOK)'
    BY UntouchedFeed, PTL
  <2> QED BY <2>1, <2>2
<1>3. CASE EndOfFile \/ CannotOpen \/ SubmitNext \/ EndReplay
  <2>1. opts.replay /\ UNCHANGED opts
    BY <1>3 DEF EndOfFile, CannotOpen, SubmitNext, EndReplay, StartReplay, Base, CommandOK
  <2> QED BY <2>1 DEF FeedOK
<1>4. CASE \E line \in Line : Enter(line)
  BY <1>4, EnterFeed
<1> QED BY <1>1, <1>2, <1>3, <1>4 DEF Next

(***************************************************************************)
(* In a session the last print of a book is the book, at every depth, as   *)
(* long as no side of a book holds Width or more.  With more, as after a   *)
(* line of quantity -1 and another one on the same side, the total that    *)
(* is printed of a level may have wrapped.                                 *)
(***************************************************************************)
THEOREM PrintsCurrent == Spec /\ []TotalsFit => []FeedCurrent
<1>1. Init => FeedOK
  <2>1. Init => Untouched
    BY CommandStarts DEF Init, Untouched, NoStats, Engine!Init, Feed!Init
  <2> QED BY <2>1, UntouchedFeed
<1>2. Base /\ Base' /\ FeedOK /\ [Next]_vars => FeedOK'
  BY FeedKeeps
<1>3. Base /\ FeedOK /\ TotalsFit => FeedCurrent
  <2> SUFFICES ASSUME Base, FeedOK, TotalsFit, ~opts.replay, NEW s \in symbols
               PROVE  IF s \in DOMAIN published
                      THEN LET view == published[s].book IN
                           /\ RowsRight(view.bids, "BUY", books[s]["BUY"])
                           /\ RowsRight(view.asks, "SELL", books[s]["SELL"])
                           /\ \A n \in view.spread : n > 0
                      ELSE books[s] = EmptyBook
    BY DEF FeedCurrent
  <2>1. E!GoodBook(books[s])
    BY DEF Base, E!IInv, E!BooksInv
  <2>2. ASSUME NEW side \in Side
        PROVE  /\ books[s][side] \in Seq(E!Entry) /\ E!IdsApart(books[s][side])
               /\ SideQty(books[s][side]) < Width
    BY <2>1, SameShares DEF E!GoodBook, E!GoodSide, TotalsFit, SideQty
  <2>3. RowsRight(Feed!TopLevels("BUY", books[s]["BUY"], BookDepth), "BUY", books[s]["BUY"])
    BY <2>2, RowsAre DEF Side
  <2>4. RowsRight(Feed!TopLevels("SELL", books[s]["SELL"], BookDepth), "SELL", books[s]["SELL"])
    BY <2>2, RowsAre DEF Side
  <2>5. \A n \in Feed!Spread(books[s]) : n > 0
    BY <2>1, SpreadRight
  <2>6. s \in DOMAIN published => published[s].book = Feed!View(books[s], BookDepth)
    BY DEF FeedOK
  <2>7. s \notin DOMAIN published => books[s] = EmptyBook
    BY DEF FeedOK
  <2> QED BY <2>3, <2>4, <2>5, <2>6, <2>7 DEF Feed!View
<1> QED BY <1>1, <1>2, <1>3, BaseHolds, PTL DEF Spec

(***************************************************************************)
(* When totals fit.  What rests of a LIMIT line is no more than the line   *)
(* asked for, and a side holds at most one order for each line.            *)
(***************************************************************************)
Most == Max(LimitQtys \cup {0})

LEMMA MostIs ==
  /\ Most \in Nat
  /\ \A line \in Line : Parser!Parses(line) /\ line.type = "LIMIT" => Quantity(line) <= Most
<1> DEFINE limits == {l \in Parsing : l.type = "LIMIT"}
           S == LimitQtys \cup {0}
<1>1. S \subseteq Nat
  <2>1. \A l \in limits : Quantity(l) \in Nat
    BY OrderParsed DEF Parsing
  <2> QED BY <2>1 DEF LimitQtys
<1>2. IsFiniteSet(S)
  <2>1. IsFiniteSet(limits)
    BY LineAssumption, FS_Subset DEF Parsing
  <2>2. [l \in limits |-> Quantity(l)] \in Surjection(limits, LimitQtys)
    BY DEF Surjection, LimitQtys
  <2>3. IsFiniteSet(LimitQtys)
    <3> HIDE DEF limits
    <3> QED BY <2>1, <2>2, FS_Surjection
  <2> QED BY <2>3, FS_AddElement
<1>3. S # {}
  OBVIOUS
<1> HIDE DEF S
<1>4. \E x \in S : \A y \in S : y <= x
  <2>1. S \subseteq Int
    BY <1>1
  <2> QED BY <1>2, <1>3, <2>1, GreatestExists, Zenon
<1>5. \E x \in S : \A y \in S : x >= y
  BY <1>1, <1>4
<1>6. Max(S) \in S /\ \A y \in S : Max(S) >= y
  BY <1>5 DEF Max
<1>7. ASSUME NEW line \in Line, Parser!Parses(line), line.type = "LIMIT"
      PROVE  Quantity(line) \in S
  BY <1>7 DEF S, LimitQtys, Parsing
<1> QED BY <1>1, <1>6, <1>7 DEF Most, S

AskedOK == \A s \in symbols, side \in Side : \A e \in ToSet(books[s][side]) : e.open <= Most

LEMMA UntouchedAsked == Untouched => AskedOK
<1> SUFFICES ASSUME Untouched, NEW s \in symbols, NEW side \in Side PROVE ToSet(books[s][side]) = {}
  BY DEF AskedOK
<1> QED BY DEF Untouched, EmptyBook, ToSet

LEMMA AskedKeeps ==
  ASSUME Base, Base', Explained, AskedOK, [Next]_vars
  PROVE  AskedOK'
<1>1. ASSUME NEW n, Accepted(n) PROVE AskedOK'
  <2>1. PICK line, order, trades : /\ line = lines'[n] /\ order = Parser!ParsedOrder(line)
                                   /\ trades = result'.trades
    OBVIOUS
  <2>2. /\ order.symbol = line.symbol /\ order.type = line.type
        /\ order.quantity = Quantity(line) /\ Quantity(line) \in Nat
        /\ line \in Line /\ Parser!Parses(line) /\ UNCHANGED symbols
        /\ E!Follows(order, trades, books[order.symbol], books'[order.symbol])
        /\ \A s \in symbols : s # order.symbol => books'[s] = books[s]
    BY <1>1, <2>1, SendAccepted
  <2>3. /\ E!Share(order, trades, order.id) \in 0 .. order.quantity
        /\ \A side \in Side : \A d \in ToSet(books[order.symbol][side]) :
             d.open \in Nat /\ E!Share(order, trades, d.id) \in 0 .. d.open
    BY <1>1, <2>1, ShareElsewhere
  <2>4. ASSUME NEW s \in symbols, NEW side \in Side, NEW e \in ToSet(books'[s][side])
        PROVE  e.open <= Most
    <3>1. CASE s # order.symbol
      BY <2>2, <3>1 DEF AskedOK
    <3>2. ASSUME order.type = "LIMIT", e.open = order.quantity - E!Share(order, trades, order.id)
          PROVE  e.open <= Most
      <4>1. Quantity(line) <= Most /\ Most \in Nat
        BY <2>2, <3>2, MostIs
      <4>2. E!Share(order, trades, order.id) \in 0 .. Quantity(line)
        BY <2>2, <2>3
      <4> QED BY <2>2, <3>2, <4>1, <4>2
    <3>3. ASSUME s = order.symbol, NEW d \in ToSet(books[s][side]),
                 e.open = d.open - E!Share(order, trades, d.id)
          PROVE  e.open <= Most
      <4>1. d.open \in Nat /\ E!Share(order, trades, d.id) \in 0 .. d.open
        BY <2>3, <3>3
      <4>2. d.open <= Most
        BY DEF AskedOK
      <4> QED BY <3>3, <4>1, <4>2, MostIs
    <3>4. s = order.symbol =>
            \/ order.type = "LIMIT" /\ e.open = order.quantity - E!Share(order, trades, order.id)
            \/ \E d \in ToSet(books[s][side]) : e.open = d.open - E!Share(order, trades, d.id)
      BY <2>2, SameShares DEF E!Follows
    <3> QED BY <3>1, <3>2, <3>3, <3>4
  <2> QED BY <2>2, <2>4 DEF AskedOK
<1>2. ASSUME NEW n, Refused(n) PROVE AskedOK'
  <2>1. /\ UNCHANGED symbols
        /\ \A s \in symbols : \A side \in Side : ToSet(books'[s][side]) \subseteq ToSet(books[s][side])
    BY <1>2, SendRefused
  <2> QED BY <2>1 DEF AskedOK
<1>3. ASSUME Untouched' PROVE AskedOK'
  <2>1. (Untouched => AskedOK)'
    BY UntouchedAsked, PTL
  <2> QED BY <1>3, <2>1
<1>4. ASSUME UNCHANGED <<books, symbols>> PROVE AskedOK'
  BY <1>4 DEF AskedOK
<1>5. CASE UNCHANGED vars
  BY <1>4, <1>5 DEF vars, engineVars
<1>6. CASE Next
  BY <1>1, <1>2, <1>3, <1>4, <1>6, StepKinds, SendCases DEF Base, Kept, engineVars
<1> QED BY <1>5, <1>6

LEMMA AskedFits ==
  ASSUME Base, AskedOK, LinesFit
  PROVE  TotalsFit
<1> SUFFICES ASSUME NEW s \in symbols, NEW side \in Side PROVE SideQty(books[s][side]) < Width
  BY DEF TotalsFit, SideQty
<1>1. PICK q : q = books[s][side]
  OBVIOUS
<1>2. /\ q \in Seq(E!Entry) /\ E!IdsApart(q) /\ side \in E!Side
      /\ E!AllResting \subseteq usedIds /\ IsFiniteSet(usedIds)
      /\ Cardinality(usedIds) <= ordersProcessed /\ ordersProcessed \in 0 .. MaxLines
  <2>1. q \in Seq(E!Entry) /\ E!IdsApart(q) /\ side \in E!Side
    BY <1>1, SameShares DEF Base, E!IInv, E!BooksInv, E!GoodBook, E!GoodSide
  <2>2. /\ E!AllResting \subseteq usedIds /\ E!IsFiniteSet(usedIds)
        /\ E!Cardinality(usedIds) <= ordersProcessed /\ ordersProcessed \in 0 .. MaxLines
    <3>1. E!IInv /\ E!Cardinality(usedIds) <= ordersProcessed
      BY DEF Base, E!IInv
    <3>2. /\ E!AllResting \subseteq usedIds /\ E!IsFiniteSet(usedIds)
          /\ E!TypeOK
      BY <3>1 DEF E!IInv, E!BooksInv
    <3> QED BY <3>1, <3>2 DEF E!TypeOK
  <2>3. E!IsFiniteSet(usedIds) <=> IsFiniteSet(usedIds)
    BY DEF E!IsFiniteSet, IsFiniteSet
  <2> QED BY <2>1, <2>2, <2>3, SameShares
<1>3. IsFiniteSet(ToSet(q)) /\ \A e \in ToSet(q) : e.open \in Nat
  BY <1>2, SideFinite
<1> DEFINE Id == [e \in ToSet(q) |-> e.id]
<1>4. Id \in Injection(ToSet(q), usedIds)
  <2>1. \A e \in ToSet(q) : e.id \in usedIds
    BY <1>1, RestUsed DEF Base, E!IInv
  <2>2. \A d, e \in ToSet(q) : d.id = e.id => d = e
    BY <1>2 DEF ToSet, E!IdsApart
  <2> QED BY <2>1, <2>2 DEF Injection, IsInjective
<1>5. Cardinality(ToSet(q)) <= Cardinality(usedIds) /\ Cardinality(ToSet(q)) \in Nat
      /\ Cardinality(usedIds) \in Nat
  <2>1. Cardinality(ToSet(q)) \in Nat
    BY <1>3, FS_CardinalityType
  <2>2. Cardinality(usedIds) \in Nat
    BY <1>2, FS_CardinalityType
  <2>3. \E f : f \in Injection(ToSet(q), usedIds)
    BY <1>4
  <2>4. Cardinality(ToSet(q)) <= Cardinality(usedIds)
    BY <1>2, <2>3, FS_Injection
  <2> QED BY <2>1, <2>2, <2>4
<1>6. SideQty(q) <= Cardinality(ToSet(q)) * Most
  <2> DEFINE f == [e \in ToSet(q) |-> e.open]
  <2>1. \A e \in ToSet(q) : f[e] \in Nat /\ f[e] <= Most
    BY <1>1, <1>3 DEF AskedOK
  <2>2. Most \in Nat
    BY MostIs
  <2>3. PICK m \in Nat : m = Most
    BY <2>2
  <2>4. SumFunctionOnSet(f, ToSet(q)) <= Cardinality(ToSet(q)) * m
    <3>1. \A e \in ToSet(q) : f[e] \in Nat /\ f[e] <= m
      BY <2>1, <2>3
    <3> HIDE DEF f
    <3> QED BY <1>3, <3>1, SumBound
  <2> QED BY <2>3, <2>4 DEF SideQty
<1>7. SideQty(q) \in Nat
  <2> DEFINE f == [e \in ToSet(q) |-> e.open]
  <2>1. \A e \in ToSet(q) : f[e] \in Nat
    BY <1>3
  <2>2. SumFunctionOnSet(f, ToSet(q)) \in Nat
    <3> HIDE DEF f
    <3> QED BY <1>3, <2>1, SumNat
  <2> QED BY <2>2 DEF SideQty
<1>8. PICK n \in Nat, m \in Nat : n = Cardinality(ToSet(q)) /\ m = Most
  BY <1>5, MostIs
<1>9. MaxLines \in Nat /\ n <= MaxLines /\ MaxLines * m < Width /\ Width \in Nat
  BY <1>2, <1>5, <1>8, BoundsAssumption, ScaleAssumption DEF LinesFit, Most
<1>10. n * m <= MaxLines * m /\ n * m \in Nat /\ MaxLines * m \in Nat
  BY <1>9
<1> QED BY <1>1, <1>6, <1>7, <1>8, <1>9, <1>10

(***************************************************************************)
(* If MaxLines times the greatest quantity of a LIMIT line is less than    *)
(* Width, no total ever wraps, whatever the other lines ask for, and the   *)
(* prints are current without any premise on the states.                   *)
(***************************************************************************)
THEOREM SmallLines ==
  ASSUME LinesFit
  PROVE  Spec => [](TotalsFit /\ FeedCurrent)
<1>1. Init => AskedOK
  <2>1. Init => Untouched
    BY CommandStarts DEF Init, Untouched, NoStats, Engine!Init, Feed!Init
  <2> QED BY <2>1, UntouchedAsked
<1>2. Base /\ Base' /\ Explained /\ AskedOK /\ [Next]_vars => AskedOK'
  BY AskedKeeps
<1>3. Base /\ AskedOK => TotalsFit
  BY AskedFits
<1> QED BY <1>1, <1>2, <1>3, ExplainedHolds, PrintsCurrent, PTL DEF Spec
==============================================================================
