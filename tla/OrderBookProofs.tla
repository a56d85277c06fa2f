--------------------------- MODULE OrderBookProofs ---------------------------
(***************************************************************************)
(* Theorems about OrderBook, for every set of order ids, every range of    *)
(* prices and every width of Quantity: first the shape of the levels and   *)
(* the states of an order, then the quantities.                            *)
(***************************************************************************)
EXTENDS OrderBookProperties, Sums, SequenceTheorems, WellFoundedInduction, TLAPS

USE OrderIdAssumption, PriceAssumption, QtyAssumption

------------------------------------------------------------------------------
(***************************************************************************)
(* Lemmas about the operators of OrderBook.                                *)
(***************************************************************************)

\* Unsigned arithmetic stays in range.
LEMMA WrapType ==
  ASSUME NEW n \in Int
  PROVE  n % QtyMod \in Quantity
BY DEF Quantity

\* A nonempty set of prices has a best one: it is bounded, as prices are int64.
LEMMA BestExists ==
  ASSUME NEW s \in Side, NEW S, S \subseteq Price, S # {}
  PROVE  \E p \in S : \A q \in S : AtLeastAsGood(s, p, q)
<1> DEFINE R == OpToRel(<, Nat)
           Up == {p - MinPrice : p \in S}
           Down == {MaxPrice - p : p \in S}
<1>1. S \subseteq Int /\ \A p \in S : p - MinPrice \in Nat /\ MaxPrice - p \in Nat
  BY DEF Price
<1>2. Up \subseteq Nat /\ Up # {} /\ Down \subseteq Nat /\ Down # {}
  BY <1>1
<1>3. CASE s = "BUY"
  <2>1. PICK d \in Down : \A e \in Down : ~(<<e, d>> \in R)
    BY <1>2, WFMin, NatLessThanWellFounded
  <2>2. PICK p \in S : d = MaxPrice - p
    OBVIOUS
  <2>3. \A q \in S : p >= q
    <3>1. SUFFICES ASSUME NEW q \in S PROVE p >= q
      OBVIOUS
    <3>2. MaxPrice - q \in Down
      OBVIOUS
    <3>3. ~(MaxPrice - q < d)
      BY <2>1, <3>2, <1>2 DEF OpToRel
    <3>4. QED
      BY <3>3, <2>2, <1>1
  <2>4. QED
    BY <2>3, <1>3 DEF AtLeastAsGood
<1>4. CASE s = "SELL"
  <2>1. PICK d \in Up : \A e \in Up : ~(<<e, d>> \in R)
    BY <1>2, WFMin, NatLessThanWellFounded
  <2>2. PICK p \in S : d = p - MinPrice
    OBVIOUS
  <2>3. \A q \in S : p <= q
    <3>1. SUFFICES ASSUME NEW q \in S PROVE p <= q
      OBVIOUS
    <3>2. q - MinPrice \in Up
      OBVIOUS
    <3>3. ~(q - MinPrice < d)
      BY <2>1, <3>2, <1>2 DEF OpToRel
    <3>4. QED
      BY <3>3, <2>2, <1>1
  <2>4. QED
    BY <2>3, <1>4 DEF AtLeastAsGood
<1>5. QED
  BY <1>3, <1>4 DEF Side

(***************************************************************************)
(* What the operations on a level's deque do to the ids in it.             *)
(***************************************************************************)
LEMMA EmptyQueue ==
  /\ <<>> \in Seq(OrderId)
  /\ ToSet(<<>>) = {}
  /\ \A q \in Seq(OrderId) : q # <<>> => ToSet(q) # {}
<1>1. <<>> \in Seq(OrderId) /\ ToSet(<<>>) = {}
  BY DEF ToSet
<1>2. ASSUME NEW q \in Seq(OrderId), q # <<>>
      PROVE  q[1] \in ToSet(q)
  BY <1>2, EmptySeq, LenProperties DEF ToSet
<1>3. QED
  BY <1>1, <1>2

LEMMA AppendQueue ==
  ASSUME NEW q \in Seq(OrderId), NEW id \in OrderId,
         Distinct(q), id \notin ToSet(q)
  PROVE  /\ Append(q, id) \in Seq(OrderId)
         /\ Append(q, id) # <<>>
         /\ Distinct(Append(q, id))
         /\ ToSet(Append(q, id)) = ToSet(q) \cup {id}
<1> DEFINE r == Append(q, id)
<1>1. /\ r \in Seq(OrderId) /\ DOMAIN q = 1 .. Len(q) /\ Len(q) \in Nat
      /\ DOMAIN r = 1 .. (Len(q) + 1)
      /\ \A i \in 1 .. Len(q) : r[i] = q[i]
      /\ r[Len(q) + 1] = id
  OBVIOUS
<1>2. \A i \in 1 .. Len(q) : q[i] # id
  BY <1>1 DEF ToSet
<1>3. Distinct(r)
  BY <1>1, <1>2 DEF Distinct
<1>4. ToSet(r) = ToSet(q) \cup {id}
  <2>1. DOMAIN r = DOMAIN q \cup {Len(q) + 1}
    BY <1>1
  <2>2. QED
    BY <2>1, <1>1 DEF ToSet
<1>5. QED
  BY <1>1, <1>3, <1>4

LEMMA TailQueue ==
  ASSUME NEW q \in Seq(OrderId), q # <<>>, Distinct(q)
  PROVE  /\ Head(q) \in ToSet(q)
         /\ Tail(q) \in Seq(OrderId)
         /\ Distinct(Tail(q))
         /\ ToSet(Tail(q)) = ToSet(q) \ {Head(q)}
<1> DEFINE r == Tail(q)
<1>1. /\ r \in Seq(OrderId) /\ Len(q) \in Nat \ {0}
      /\ DOMAIN q = 1 .. Len(q) /\ DOMAIN r = 1 .. (Len(q) - 1)
      /\ \A i \in 1 .. (Len(q) - 1) : r[i] = q[i + 1]
      /\ Head(q) = q[1]
  BY HeadTailProperties, LenProperties, EmptySeq
<1>2. Distinct(r)
  BY <1>1 DEF Distinct
<1>3. ToSet(r) \subseteq ToSet(q) \ {Head(q)}
  BY <1>1 DEF ToSet, Distinct
<1>4. ToSet(q) \ {Head(q)} \subseteq ToSet(r)
  <2>1. SUFFICES ASSUME NEW i \in DOMAIN q, q[i] # q[1]
                 PROVE  q[i] \in ToSet(r)
    BY <1>1 DEF ToSet
  <2>2. i - 1 \in DOMAIN r /\ r[i - 1] = q[i]
    BY <2>1, <1>1
  <2>3. QED
    BY <2>2 DEF ToSet
<1>5. Head(q) \in ToSet(q)
  BY <1>1 DEF ToSet
<1>6. QED
  BY <1>1, <1>2, <1>3, <1>4, <1>5
LEMMA RemoveQueue ==
  ASSUME NEW q \in Seq(OrderId), NEW id \in ToSet(q), Distinct(q)
  PROVE  /\ RemoveFirst(q, id) \in Seq(OrderId)
         /\ Distinct(RemoveFirst(q, id))
         /\ ToSet(RemoveFirst(q, id)) = ToSet(q) \ {id}
<1> DEFINE n == Len(q)
<1>1. n \in Nat /\ DOMAIN q = 1 .. n /\ \A i \in 1 .. n : q[i] \in OrderId
  OBVIOUS
<1>2. PICK k \in 1 .. n : q[k] = id
  BY <1>1 DEF ToSet
<1>3. \A i \in 1 .. n : q[i] = id <=> i = k
  BY <1>1, <1>2 DEF Distinct
<1> DEFINE L == SubSeq(q, 1, k - 1)
           R == SubSeq(q, k + 1, n)
           r == L \o R
<1>4. RemoveFirst(q, id) = r
  <2>1. {i \in 1 .. n : q[i] = id} = {k}
    BY <1>3
  <2>2. Min({k}) = k
    BY <1>1 DEF Min
  <2>3. SelectInSeq(q, LAMBDA v : v = id) = k
    BY <2>1, <2>2 DEF SelectInSeq
  <2>4. QED
    BY <2>3, <1>2 DEF RemoveFirst, RemoveAt
<1>5. /\ L \in Seq(OrderId) /\ Len(L) = k - 1
      /\ \A i \in 1 .. (k - 1) : L[i] = q[i]
  BY <1>1, SubSeqProperties
<1>6. /\ R \in Seq(OrderId) /\ Len(R) = n - k
      /\ \A i \in 1 .. (n - k) : R[i] = q[i + k]
  <2>1. \A i \in (k + 1) .. n : q[i] \in OrderId
    BY <1>1
  <2>2. /\ R \in Seq(OrderId)
        /\ Len(R) = IF k + 1 <= n THEN n - (k + 1) + 1 ELSE 0
        /\ \A i \in 1 .. (n - (k + 1) + 1) : R[i] = q[(k + 1) + i - 1]
    BY <2>1, <1>1, SubSeqProperties
  <2> HIDE DEF R
  <2>3. n - (k + 1) + 1 = n - k /\ \A i \in 1 .. (n - k) : (k + 1) + i - 1 = i + k
    BY <1>1
  <2>4. Len(R) = n - k
    <3> HIDE DEF n
    <3>1. k \in Int /\ k <= n /\ n \in Int
      BY <1>1
    <3>2. QED
      BY <2>2, <3>1
  <2>5. ASSUME NEW i \in 1 .. (n - k) PROVE R[i] = q[i + k]
    BY <2>2, <2>3
  <2>6. QED
    BY <2>2, <2>4, <2>5
<1>7. /\ r \in Seq(OrderId) /\ DOMAIN r = 1 .. (n - 1)
      /\ \A i \in 1 .. (n - 1) : r[i] = IF i < k THEN q[i] ELSE q[i + 1]
  <2> HIDE DEF L, R
  <2>1. /\ r \in Seq(OrderId) /\ Len(r) = Len(L) + Len(R)
        /\ \A i \in 1 .. Len(L) + Len(R) :
             r[i] = IF i <= Len(L) THEN L[i] ELSE R[i - Len(L)]
    BY <1>5, <1>6, ConcatProperties
  <2>2. Len(L) + Len(R) = n - 1
    BY <1>1, <1>5, <1>6
  <2>3. DOMAIN r = 1 .. (n - 1)
    BY <2>1, <2>2
  <2>4. ASSUME NEW i \in 1 .. (n - 1) PROVE r[i] = IF i < k THEN q[i] ELSE q[i + 1]
    <3>1. r[i] = IF i <= k - 1 THEN L[i] ELSE R[i - (k - 1)]
      BY <2>1, <2>2, <1>5
    <3>2. CASE i < k
      BY <3>1, <3>2, <1>1, <1>5
    <3>3. CASE i >= k
      <4>1. i - (k - 1) \in 1 .. (n - k) /\ (i - (k - 1)) + k = i + 1
        BY <3>3, <1>1
      <4>2. r[i] = R[i - (k - 1)]
        BY <3>1, <3>3, <1>1
      <4>3. R[i - (k - 1)] = q[(i - (k - 1)) + k]
        BY <4>1, <1>6
      <4>4. r[i] = q[i + 1]
        BY <4>1, <4>2, <4>3
      <4>5. ~(i < k)
        BY <3>3, <1>1
      <4>6. QED
        BY <4>4, <4>5
    <3>4. i < k \/ i >= k
      BY <1>1
    <3>5. QED
      BY <3>2, <3>3, <3>4
  <2>5. QED
    BY <2>1, <2>3, <2>4
<1> HIDE DEF r
<1> DEFINE At(i) == IF i < k THEN i ELSE i + 1   \* where r[i] was
<1>8. \A i \in 1 .. (n - 1) : At(i) \in 1 .. n /\ At(i) # k /\ r[i] = q[At(i)]
  BY <1>1, <1>7
<1>9. Distinct(r)
  <2>1. SUFFICES ASSUME NEW i \in 1 .. (n - 1), NEW j \in 1 .. (n - 1), r[i] = r[j]
                 PROVE  i = j
    BY <1>7 DEF Distinct
  <2>2. At(i) = At(j)
    BY <2>1, <1>1, <1>8 DEF Distinct
  <2>3. QED
    BY <2>2, <1>1
<1>10. ToSet(r) = ToSet(q) \ {id}
  <2>1. ASSUME NEW i \in 1 .. (n - 1) PROVE r[i] \in ToSet(q) \ {id}
    <3>1. PICK j \in 1 .. n : j # k /\ r[i] = q[j]
      BY <1>8
    <3>2. QED
      BY <3>1, <1>1, <1>3 DEF ToSet
  <2>2. ASSUME NEW i \in 1 .. n, i # k PROVE \E j \in 1 .. (n - 1) : r[j] = q[i]
    <3>1. CASE i < k
      BY <3>1, <1>1, <1>7
    <3>2. CASE i > k
      <4>1. i - 1 \in 1 .. (n - 1) /\ r[i - 1] = q[i]
        BY <3>2, <1>1, <1>7
      <4>2. QED
        BY <4>1
    <3>3. QED
      BY <2>2, <3>1, <3>2, <1>1
  <2>3. ToSet(r) = {r[i] : i \in 1 .. (n - 1)} /\ ToSet(q) = {q[i] : i \in 1 .. n}
    BY <1>1, <1>7 DEF ToSet
  <2>4. ToSet(r) \subseteq ToSet(q) \ {id}
    BY <2>1, <2>3
  <2>5. ToSet(q) \ {id} \subseteq ToSet(r)
    BY <2>2, <2>3, <1>2
  <2>6. QED
    BY <2>4, <2>5
<1>11. QED
  BY <1>4, <1>7, <1>9, <1>10
------------------------------------------------------------------------------
(***************************************************************************)
(* The inductive invariant.  Fill reads the order behind the front id of a *)
(* level, so its type needs LiveLevels (the level has a front) and         *)
(* IndexExact (the id is an order of that side); the id that restOrder()   *)
(* appends is new to the queue because the incoming order is not indexed.  *)
(***************************************************************************)
IncomingLoose == pc # "idle" => incoming \notin Resting

IInv == TypeOK /\ IndexExact /\ LiveLevels /\ IncomingLoose

\* A queued id is a submitted order of that side, and not the incoming one.
LEMMA QueuedOrder ==
  ASSUME IInv, NEW s \in Side, NEW p \in DOMAIN book[s], NEW id \in Queued(s, p)
  PROVE  /\ id \in Resting /\ id \in DOMAIN orders /\ id \in OrderId
         /\ index[id] = [side |-> s, price |-> p]
         /\ orders[id].side = s /\ orders[id].price = p /\ orders[id].type = "LIMIT"
         /\ pc # "idle" => id # incoming
BY DEF IInv, TypeOK, OrdersType, IndexType, IndexExact, IncomingLoose, Resting

\* Every level has a front, and no id twice.
LEMMA LevelFacts ==
  ASSUME IInv, NEW s \in Side, NEW p \in DOMAIN book[s]
  PROVE  /\ p \in Price /\ book[s][p] \in PriceLevel
         /\ book[s][p].queue \in Seq(OrderId) /\ book[s][p].queue # <<>>
         /\ Distinct(book[s][p].queue)
<1>1. p \in Price /\ book[s] \in [DOMAIN book[s] -> PriceLevel]
  BY DEF IInv, TypeOK, BookType
<1>2. book[s][p] \in PriceLevel
  BY <1>1
<1>3. book[s][p].queue # <<>>
  BY DEF IInv, LiveLevels
<1>4. Distinct(book[s][p].queue)
  BY DEF IInv, IndexExact
<1>5. QED
  BY <1>1, <1>2, <1>3, <1>4 DEF PriceLevel

\* Steps that change neither the book, nor the index, nor a resting order.
LEMMA SameBook ==
  ASSUME IInv, UNCHANGED <<book, index>>,
         \A id \in Resting : orders'[id] = orders[id]
  PROVE  IndexExact' /\ LiveLevels'
<1>1. Resting' = Resting /\ \A s \in Side : \A p \in DOMAIN book[s] :
        Queued(s, p)' = Queued(s, p) /\ Queued(s, p) \subseteq Resting
  BY QueuedOrder DEF Queued, Resting
<1>2. IndexExact'
  BY <1>1 DEF IInv, IndexExact, Queued, Resting
<1>3. LiveLevels'
  BY <1>1 DEF IInv, LiveLevels
<1>4. QED
  BY <1>2, <1>3

LEMMA StoreLevelShape ==
  ASSUME NEW levels, NEW p \in DOMAIN levels, NEW lv
  PROVE  /\ DOMAIN StoreLevel(levels, p, lv) =
              IF lv.queue = <<>> THEN DOMAIN levels \ {p} ELSE DOMAIN levels
         /\ \A q \in DOMAIN StoreLevel(levels, p, lv) :
              StoreLevel(levels, p, lv)[q] = IF q = p THEN lv ELSE levels[q]
         /\ StoreLevel(levels, p, lv) =
              [q \in DOMAIN StoreLevel(levels, p, lv) |-> StoreLevel(levels, p, lv)[q]]
BY DEF StoreLevel, EraseLevel, SetLevel

LEMMA NoLevelOpens ==
  ASSUME NEW levels, NEW p \in DOMAIN levels, NEW lv
  PROVE  DOMAIN StoreLevel(levels, p, lv) \subseteq DOMAIN levels
BY DEF StoreLevel, EraseLevel, SetLevel

(***************************************************************************)
(* A level that loses the ids in `gone', of which it had all, as Fill and  *)
(* CancelOrder do: the index loses the same ids.                           *)
(***************************************************************************)
LEMMA LevelShrinks ==
  ASSUME IInv,
         NEW s \in Side, NEW p \in DOMAIN book[s], NEW lv \in PriceLevel,
         NEW gone \in SUBSET Queued(s, p),
         Distinct(lv.queue), ToSet(lv.queue) = Queued(s, p) \ gone,
         book' = [book EXCEPT ![s] = StoreLevel(@, p, lv)],
         index' = [i \in DOMAIN index \ gone |-> index[i]],
         DOMAIN orders' = DOMAIN orders,
         \A id \in DOMAIN orders : /\ orders'[id].side = orders[id].side
                                   /\ orders'[id].price = orders[id].price
                                   /\ orders'[id].type = orders[id].type,
         \A id \in Resting \ gone : ~IsFilled(orders'[id])
  PROVE  BookType' /\ IndexType' /\ IndexExact' /\ LiveLevels'
<1> DEFINE new == StoreLevel(book[s], p, lv)
<1>1. /\ DOMAIN book' = Side /\ book'[s] = new
      /\ \A t \in Side : t # s => book'[t] = book[t]
  BY DEF IInv, TypeOK, BookType
<1>2. /\ DOMAIN new = IF lv.queue = <<>> THEN DOMAIN book[s] \ {p} ELSE DOMAIN book[s]
      /\ \A q \in DOMAIN new : new[q] = IF q = p THEN lv ELSE book[s][q]
      /\ new = [q \in DOMAIN new |-> new[q]]
  BY Zenon DEF StoreLevel, EraseLevel, SetLevel
<1> HIDE DEF new
<1>3. BookType'
  <2>1. DOMAIN new \subseteq Price /\ \A q \in DOMAIN new : new[q] \in PriceLevel
    BY <1>2 DEF IInv, TypeOK, BookType
  <2>2. new \in [DOMAIN new -> PriceLevel]
    BY <2>1, <1>2
  <2>3. QED
    BY <1>1, <2>1, <2>2 DEF IInv, TypeOK, BookType
<1>4. IndexType'
  BY DEF IInv, TypeOK, IndexType
<1>5. ASSUME NEW t \in Side, NEW q \in DOMAIN book[t], t # s \/ q # p
      PROVE  Queued(t, q) \cap gone = {}
  <2>1. SUFFICES ASSUME NEW id \in Queued(t, q), id \in gone PROVE FALSE
    OBVIOUS
  <2>2. index[id] = [side |-> t, price |-> q] /\ index[id] = [side |-> s, price |-> p]
    BY <2>1, QueuedOrder
  <2>3. QED
    BY <2>2, <1>5
<1>6. ASSUME NEW t \in Side, NEW q \in DOMAIN book'[t]
      PROVE  /\ q \in DOMAIN book[t]
             /\ ToSet(book'[t][q].queue) = Queued(t, q) \ gone
             /\ Distinct(book'[t][q].queue)
             /\ book'[t][q].queue # <<>>
  <2>1. CASE t = s /\ q = p
    BY <2>1, <1>1, <1>2
  <2>2. CASE t # s \/ q # p
    <3>1. q \in DOMAIN book[t] /\ book'[t][q] = book[t][q]
      BY <2>2, <1>1, <1>2
    <3>2. Distinct(book[t][q].queue) /\ book[t][q].queue # <<>>
      BY <3>1, LevelFacts
    <3>3. ToSet(book'[t][q].queue) = Queued(t, q)
      BY ONLY <3>1, Zenon DEF Queued
    <3>4. Queued(t, q) \cap gone = {}
      BY <3>1, <2>2, <1>5
    <3>5. QED
      BY <3>1, <3>2, <3>3, <3>4
  <2>3. QED
    BY <2>1, <2>2
<1>7. ASSUME NEW t \in Side, NEW q \in DOMAIN book[t], NEW id \in Queued(t, q) \ gone
      PROVE  q \in DOMAIN book'[t]
  <2>1. CASE t = s /\ q = p
    <3>1. lv.queue # <<>>
      BY <2>1, EmptyQueue
    <3>2. QED
      BY <2>1, <3>1, <1>1, <1>2
  <2>2. CASE t # s \/ q # p
    BY <2>2, <1>1, <1>2
  <2>3. QED
    BY <2>1, <2>2
<1>8. IndexExact'
  <2>1. ASSUME NEW id \in DOMAIN index'
        PROVE  /\ index'[id].price \in DOMAIN book'[index'[id].side]
               /\ id \in ToSet(book'[index'[id].side][index'[id].price].queue)
    <3> DEFINE t == index[id].side
               q == index[id].price
    <3>1. /\ id \in Resting \ gone /\ index'[id] = index[id] /\ t \in Side
          /\ q \in DOMAIN book[t] /\ id \in Queued(t, q)
      BY DEF IInv, TypeOK, IndexType, IndexExact, Resting, Location
    <3>2. q \in DOMAIN book'[t]
      BY <3>1, <1>7
    <3>3. id \in ToSet(book'[t][q].queue)
      BY <3>1, <3>2, <1>6
    <3>4. QED
      BY <3>1, <3>2, <3>3
  <2>2. (\A id \in Resting : /\ index[id].price \in DOMAIN book[index[id].side]
                              /\ id \in Queued(index[id].side, index[id].price))'
    BY <2>1 DEF Resting, Queued
  <2>3. ASSUME NEW t \in Side, NEW q \in DOMAIN book'[t]
        PROVE  (/\ Distinct(book[t][q].queue)
                /\ \A id \in Queued(t, q) :
                     /\ id \in Resting
                     /\ index[id] = [side |-> t, price |-> q]
                     /\ orders[id].side = t /\ orders[id].price = q
                     /\ orders[id].type = "LIMIT")'
    <3>1. Distinct(book'[t][q].queue)
      BY <1>6
    <3>2. SUFFICES ASSUME NEW id \in Queued(t, q)'
                   PROVE  /\ id \in DOMAIN index'
                          /\ index'[id] = [side |-> t, price |-> q]
                          /\ orders'[id].side = t /\ orders'[id].price = q
                          /\ orders'[id].type = "LIMIT"
      BY <3>1 DEF Resting
    <3>3. id \in ToSet(book'[t][q].queue)
      BY <3>2 DEF Queued
    <3>4. q \in DOMAIN book[t] /\ id \in Queued(t, q) /\ id \notin gone
      BY <3>3, <1>6
    <3>5. QED
      BY <3>4, QueuedOrder DEF Resting
  <2>4. QED
    BY <2>2, <2>3 DEF IndexExact
<1>9. LiveLevels'
  <2>1. ASSUME NEW t \in Side, NEW q \in DOMAIN book'[t],
               NEW id \in ToSet(book'[t][q].queue)
        PROVE  ~IsFilled(orders'[id])
    <3>1. q \in DOMAIN book[t] /\ id \in Queued(t, q) /\ id \notin gone
      BY <1>6
    <3>2. QED
      BY <3>1, QueuedOrder
  <2>2. QED
    BY <2>1, <1>6 DEF LiveLevels, Queued, IsFilled
<1>10. QED
  BY <1>3, <1>4, <1>8, <1>9
(***************************************************************************)
(* The incoming LIMIT order joins its own side, as FinishLimit does.       *)
(***************************************************************************)
LEMMA LevelGrows ==
  ASSUME IInv, pc # "idle",
         orders[incoming].type = "LIMIT", ~IsFilled(orders[incoming]),
         RestOrder(incoming, orders[incoming]),
         DOMAIN orders' = DOMAIN orders,
         \A id \in DOMAIN orders : /\ orders'[id].side = orders[id].side
                                   /\ orders'[id].price = orders[id].price
                                   /\ orders'[id].type = orders[id].type
                                   /\ IsFilled(orders'[id]) = IsFilled(orders[id])
  PROVE  BookType' /\ IndexType' /\ IndexExact' /\ LiveLevels'
<1> DEFINE me  == incoming
           s   == orders[me].side
           p   == orders[me].price
           rem == Remaining(orders[me])
           old == IF p \in DOMAIN book[s] THEN book[s][p] ELSE EmptyLevel
           lv  == AddToLevel(old, me, rem)
           ids == IF p \in DOMAIN book[s] THEN Queued(s, p) ELSE {}
<1>1. /\ me \in DOMAIN orders /\ me \in OrderId /\ me \notin Resting
      /\ s \in Side /\ p \in Price /\ rem \in Int
  BY DEF IInv, TypeOK, OrdersType, CallType, IncomingLoose, Order, Remaining, Quantity
<1>2. /\ old \in PriceLevel /\ Distinct(old.queue) /\ ToSet(old.queue) = ids
      /\ me \notin ids
  <2>1. CASE p \in DOMAIN book[s]
    <3>1. me \notin Queued(s, p)
      BY <1>1, <2>1, QueuedOrder
    <3>2. book[s][p] \in PriceLevel /\ Distinct(book[s][p].queue)
      BY <1>1, <2>1, LevelFacts
    <3>3. old = book[s][p] /\ ids = ToSet(book[s][p].queue)
      BY <2>1 DEF Queued
    <3>4. QED
      BY <3>1, <3>2, <3>3, <2>1
  <2>2. CASE p \notin DOMAIN book[s]
    <3>1. /\ EmptyLevel \in PriceLevel /\ ToSet(EmptyLevel.queue) = {}
          /\ Distinct(EmptyLevel.queue)
      BY EmptyQueue DEF EmptyLevel, PriceLevel, Quantity, Distinct
    <3>2. QED
      BY <2>2, <3>1
  <2>3. QED
    BY <2>1, <2>2
<1>3. /\ lv \in PriceLevel /\ lv.queue # <<>> /\ Distinct(lv.queue)
      /\ ToSet(lv.queue) = ids \cup {me}
  <2> HIDE DEF old, ids, rem
  <2>1. /\ old.queue \in Seq(OrderId) /\ old.total \in Int
    BY <1>2 DEF PriceLevel, Quantity
  <2>2. (old.total + rem) % QtyMod \in Quantity
    BY <2>1, <1>1, WrapType
  <2>3. lv.queue = Append(old.queue, me) /\ lv.total = (old.total + rem) % QtyMod
    BY DEF AddToLevel
  <2>4. QED
    BY <2>1, <2>2, <2>3, <1>1, <1>2, AppendQueue DEF AddToLevel, PriceLevel
<1> DEFINE new == SetLevel(book[s], p, lv)
<1>4. /\ DOMAIN book' = Side /\ book'[s] = new
      /\ \A t \in Side : t # s => book'[t] = book[t]
  BY <1>1 DEF IInv, TypeOK, BookType, RestOrder
<1>5. /\ DOMAIN index' = DOMAIN index \cup {me}
      /\ index'[me] = [side |-> s, price |-> p]
      /\ \A i \in DOMAIN index : index'[i] = index[i]
      /\ index' = [i \in DOMAIN index' |-> index'[i]]
  BY <1>1 DEF RestOrder, Resting
<1> HIDE DEF lv, old, ids
<1>6. /\ DOMAIN new = DOMAIN book[s] \cup {p}
      /\ \A q \in DOMAIN new : new[q] = IF q = p THEN lv ELSE book[s][q]
      /\ new = [q \in DOMAIN new |-> new[q]]
  BY Zenon DEF SetLevel
<1> HIDE DEF new
<1>7. BookType'
  <2>1. DOMAIN new \subseteq Price /\ \A q \in DOMAIN new : new[q] \in PriceLevel
    BY <1>1, <1>3, <1>6 DEF IInv, TypeOK, BookType
  <2>2. new \in [DOMAIN new -> PriceLevel]
    BY <2>1, <1>6
  <2>3. QED
    BY <1>4, <2>1, <2>2 DEF IInv, TypeOK, BookType
<1>8. IndexType'
  <2>1. \A i \in DOMAIN index' : i \in DOMAIN orders /\ index'[i] \in Location
    BY <1>1, <1>5 DEF IInv, TypeOK, IndexType, Location
  <2>2. index' \in [DOMAIN index' -> Location]
    BY <2>1, <1>5
  <2>3. QED
    BY <2>1, <2>2 DEF IndexType
<1>9. ASSUME NEW t \in Side, NEW q \in DOMAIN book'[t]
      PROVE  /\ t = s /\ q = p => /\ Distinct(book'[t][q].queue)
                                  /\ book'[t][q].queue # <<>>
                                  /\ ToSet(book'[t][q].queue) = ids \cup {me}
             /\ t # s \/ q # p => /\ q \in DOMAIN book[t]
                                  /\ Distinct(book'[t][q].queue)
                                  /\ book'[t][q].queue # <<>>
                                  /\ ToSet(book'[t][q].queue) = Queued(t, q)
  <2>1. CASE t = s /\ q = p
    BY <2>1, <1>3, <1>4, <1>6
  <2>2. CASE t # s \/ q # p
    <3>1. q \in DOMAIN book[t] /\ book'[t][q] = book[t][q]
      BY <2>2, <1>4, <1>6
    <3>2. Distinct(book[t][q].queue) /\ book[t][q].queue # <<>>
      BY <3>1, LevelFacts
    <3>3. ToSet(book'[t][q].queue) = Queued(t, q)
      BY ONLY <3>1, Zenon DEF Queued
    <3>4. QED
      BY <3>1, <3>2, <3>3, <2>2
  <2>3. QED
    BY <2>1, <2>2
\* Who is queued after the step: the ids of before, in place, and the new one.
<1>10. ASSUME NEW t \in Side, NEW q \in DOMAIN book'[t], NEW id \in ToSet(book'[t][q].queue)
       PROVE  \/ id = me /\ t = s /\ q = p
              \/ q \in DOMAIN book[t] /\ id \in Queued(t, q)
  <2>1. CASE t = s /\ q = p
    <3>1. ToSet(book'[t][q].queue) = ids \cup {me}
      BY <2>1, <1>9
    <3>2. id \in ids => p \in DOMAIN book[s] /\ id \in Queued(s, p)
      BY Zenon DEF ids
    <3>3. QED
      BY <2>1, <3>1, <3>2, <1>10
  <2>2. CASE t # s \/ q # p
    BY <2>2, <1>9, <1>10
  <2>3. QED
    BY <2>1, <2>2
<1>11. ASSUME NEW t \in Side, NEW q \in DOMAIN book[t], NEW id \in Queued(t, q)
       PROVE  q \in DOMAIN book'[t] /\ id \in ToSet(book'[t][q].queue)
  <2>1. q \in DOMAIN book'[t]
    BY <1>4, <1>6
  <2>2. QED
    BY <2>1, <1>9 DEF ids
<1>12. IndexExact'
  <2>1. ASSUME NEW id \in DOMAIN index'
        PROVE  /\ index'[id].price \in DOMAIN book'[index'[id].side]
               /\ id \in ToSet(book'[index'[id].side][index'[id].price].queue)
    <3>1. CASE id = me
      <4>1. index'[id].side = s /\ index'[id].price = p /\ p \in DOMAIN book'[s]
        BY <3>1, <1>1, <1>4, <1>5, <1>6
      <4>2. ToSet(book'[s][p].queue) = ids \cup {me}
        BY <4>1, <1>1, <1>9
      <4>3. QED
        BY <3>1, <4>1, <4>2
    <3>2. CASE id \in Resting
      <4>1. /\ index'[id] = index[id] /\ index[id].side \in Side
            /\ index[id].price \in DOMAIN book[index[id].side]
            /\ id \in Queued(index[id].side, index[id].price)
        BY <3>2, <1>5 DEF IInv, TypeOK, IndexType, IndexExact, Resting, Location
      <4>2. QED
        BY <4>1, <1>11
    <3>3. QED
      BY <3>1, <3>2, <1>5 DEF Resting
  <2>2. (\A id \in Resting : /\ index[id].price \in DOMAIN book[index[id].side]
                              /\ id \in Queued(index[id].side, index[id].price))'
    BY <2>1 DEF Resting, Queued
  <2>3. ASSUME NEW t \in Side, NEW q \in DOMAIN book'[t]
        PROVE  (/\ Distinct(book[t][q].queue)
                /\ \A id \in Queued(t, q) :
                     /\ id \in Resting
                     /\ index[id] = [side |-> t, price |-> q]
                     /\ orders[id].side = t /\ orders[id].price = q
                     /\ orders[id].type = "LIMIT")'
    <3>1. Distinct(book'[t][q].queue)
      BY <1>9
    <3>2. ASSUME NEW id \in ToSet(book'[t][q].queue)
          PROVE  /\ id \in DOMAIN index'
                 /\ index'[id] = [side |-> t, price |-> q]
                 /\ orders'[id].side = t /\ orders'[id].price = q
                 /\ orders'[id].type = "LIMIT"
      <4>1. CASE id = me /\ t = s /\ q = p
        BY <4>1, <1>1, <1>5
      <4>2. CASE q \in DOMAIN book[t] /\ id \in Queued(t, q)
        BY <4>2, <1>5, QueuedOrder DEF Resting
      <4>3. QED
        BY <3>2, <4>1, <4>2, <1>10
    <3>3. QED
      BY <3>1, <3>2 DEF Resting, Queued
  <2>4. QED
    BY <2>2, <2>3 DEF IndexExact
<1>13. LiveLevels'
  <2>1. ASSUME NEW t \in Side, NEW q \in DOMAIN book'[t]
        PROVE  /\ book'[t][q].queue # <<>>
               /\ \A id \in ToSet(book'[t][q].queue) : ~IsFilled(orders'[id])
    <3>1. ASSUME NEW id \in ToSet(book'[t][q].queue)
          PROVE  ~IsFilled(orders'[id])
      <4>1. CASE id = me
        BY <4>1, <1>1
      <4>2. CASE q \in DOMAIN book[t] /\ id \in Queued(t, q)
        BY <4>2, QueuedOrder DEF IInv, LiveLevels
      <4>3. QED
        BY <3>1, <4>1, <4>2, <1>10
    <3>2. QED
      BY <3>1, <1>9
  <2>2. QED
    BY <2>1 DEF LiveLevels, IsFilled, Queued
<1>14. QED
  BY <1>7, <1>8, <1>12, <1>13
------------------------------------------------------------------------------
(***************************************************************************)
(* Every action preserves IInv.                                            *)
(***************************************************************************)
LEMMA InitInv == Init => IInv
<1> SUFFICES ASSUME Init PROVE IInv
  OBVIOUS
<1>1. /\ orders = <<>> /\ index = <<>> /\ trades = <<>> /\ pc = "idle"
      /\ book = [s \in Side |-> <<>>] /\ incoming = NoOrder
  BY DEF Init
<1>2. DOMAIN <<>> = {}
  OBVIOUS
<1>3. OrdersType /\ IndexType
  BY <1>1, <1>2 DEF OrdersType, IndexType
<1>4. \A s \in Side : DOMAIN book[s] = {} /\ book[s] \in [DOMAIN book[s] -> PriceLevel]
  <2>1. <<>> \in [DOMAIN <<>> -> PriceLevel]
    BY <1>2
  <2>2. QED
    BY <2>1, <1>1, <1>2
<1>5. BookType
  BY <1>1, <1>4 DEF BookType
<1>6. CallType
  BY <1>1 DEF CallType
<1>7. IndexExact /\ LiveLevels
  BY <1>1, <1>2, <1>4 DEF IndexExact, LiveLevels, Resting
<1>8. QED
  BY <1>1, <1>3, <1>5, <1>6, <1>7 DEF IInv, TypeOK, IncomingLoose

\* A resting order is queued, so it is not filled.
LEMMA RestingOrder ==
  ASSUME IInv, NEW id \in Resting
  PROVE  id \in DOMAIN orders /\ ~IsFilled(orders[id])
<1>1. /\ index[id].side \in Side
      /\ index[id].price \in DOMAIN book[index[id].side]
      /\ id \in Queued(index[id].side, index[id].price)
  BY DEF IInv, TypeOK, IndexType, IndexExact, Resting, Location
<1>2. ~IsFilled(orders[id])
  BY <1>1 DEF IInv, LiveLevels
<1>3. QED
  BY <1>2 DEF IInv, TypeOK, IndexType, Resting

LEMMA SubmitStep ==
  ASSUME IInv, NEW id \in OrderId, NEW side \in Side, NEW type \in OrderType,
         NEW price \in Price, NEW qty \in OrderQty,
         Submit(id, side, type, price, qty)
  PROVE  IInv'
<1>1. /\ pc = "idle" /\ id \notin DOMAIN orders /\ UNCHANGED <<book, index>>
      /\ incoming' = id /\ trades' = <<>> /\ pc' \in {"precheck", "drain"}
  BY DEF Submit
<1>2. /\ DOMAIN orders' = DOMAIN orders \cup {id}
      /\ orders'[id] = NewOrder(side, type, price, qty)
      /\ \A i \in DOMAIN orders : orders'[i] = orders[i]
      /\ orders' = [i \in DOMAIN orders' |-> orders'[i]]
  BY <1>1 DEF Submit
<1>3. NewOrder(side, type, price, qty) \in Order
  BY DEF NewOrder, Order, OrderStatus, Quantity
<1>4. OrdersType'
  <2>1. \A i \in DOMAIN orders' : orders'[i] \in Order
    BY <1>2, <1>3 DEF IInv, TypeOK, OrdersType
  <2>2. 0 <= qty
    OBVIOUS
  <2>3. \A i \in DOMAIN orders' : orders'[i].filled <= orders'[i].quantity
    BY <1>2, <2>2 DEF IInv, TypeOK, OrdersType, NewOrder
  <2>4. orders' \in [DOMAIN orders' -> Order]
    BY <1>2, <2>1
  <2>5. QED
    BY <1>2, <2>3, <2>4 DEF IInv, TypeOK, OrdersType
<1>5. BookType' /\ IndexType'
  BY <1>1, <1>2 DEF IInv, TypeOK, BookType, IndexType
<1>6. CallType'
  BY <1>1, <1>2 DEF CallType
<1>7. IndexExact' /\ LiveLevels'
  BY <1>1, <1>2, SameBook, RestingOrder
<1>8. IncomingLoose'
  BY <1>1 DEF IInv, TypeOK, IndexType, IncomingLoose, Resting
<1>9. QED
  BY <1>4, <1>5, <1>6, <1>7, <1>8 DEF IInv, TypeOK

\* Setting the incoming order's status changes nothing else of it.
LEMMA StatusStep ==
  ASSUME IInv, incoming \in DOMAIN orders, NEW st \in OrderStatus,
         orders' = [orders EXCEPT ![incoming].status = st]
  PROVE  /\ OrdersType'
         /\ DOMAIN orders' = DOMAIN orders
         /\ \A id \in DOMAIN orders :
              /\ orders'[id].side = orders[id].side
              /\ orders'[id].price = orders[id].price
              /\ orders'[id].type = orders[id].type
              /\ IsFilled(orders'[id]) = IsFilled(orders[id])
              /\ id # incoming => orders'[id] = orders[id]
<1>1. /\ DOMAIN orders' = DOMAIN orders
      /\ orders'[incoming] = [orders[incoming] EXCEPT !.status = st]
      /\ \A id \in DOMAIN orders : id # incoming => orders'[id] = orders[id]
      /\ orders' = [id \in DOMAIN orders' |-> orders'[id]]
  OBVIOUS
<1>2. orders[incoming] \in Order
  BY DEF IInv, TypeOK, OrdersType
<1>3. /\ orders'[incoming] \in Order
      /\ orders'[incoming].side = orders[incoming].side
      /\ orders'[incoming].price = orders[incoming].price
      /\ orders'[incoming].type = orders[incoming].type
      /\ orders'[incoming].filled = orders[incoming].filled
      /\ orders'[incoming].quantity = orders[incoming].quantity
  BY <1>1, <1>2 DEF Order
<1>4. \A id \in DOMAIN orders : IsFilled(orders'[id]) = IsFilled(orders[id])
  BY <1>1, <1>3 DEF IsFilled
<1>5. OrdersType'
  <2>1. \A id \in DOMAIN orders' : orders'[id] \in Order
    BY <1>1, <1>3 DEF IInv, TypeOK, OrdersType
  <2>2. orders' \in [DOMAIN orders' -> Order]
    BY <2>1, <1>1
  <2>3. \A id \in DOMAIN orders' : orders'[id].filled <= orders'[id].quantity
    BY <1>1, <1>3 DEF IInv, TypeOK, OrdersType
  <2>4. QED
    BY <1>1, <2>2, <2>3 DEF IInv, TypeOK, OrdersType
<1>6. QED
  BY <1>1, <1>3, <1>4, <1>5
LEMMA FokPassStep == IInv /\ FokPass => IInv'
<1> SUFFICES ASSUME IInv, FokPass PROVE IInv'
  OBVIOUS
<1>1. /\ pc = "precheck" /\ pc' = "drain"
      /\ UNCHANGED <<orders, book, index, incoming, trades>>
  BY DEF FokPass
<1>2. IndexExact' /\ LiveLevels'
  BY <1>1, SameBook
<1>3. TypeOK'
  BY <1>1 DEF IInv, TypeOK, OrdersType, BookType, IndexType, CallType
<1>4. QED
  BY <1>1, <1>2, <1>3 DEF IInv, IncomingLoose, Resting

\* A call that ends without touching the book: only the order's status changes.
LEMMA ReturnStep ==
  ASSUME IInv, pc # "idle", pc' = "idle", NEW st \in OrderStatus,
         orders' = [orders EXCEPT ![incoming].status = st],
         UNCHANGED <<book, index, incoming, trades>>
  PROVE  IInv'
<1>1. incoming \in DOMAIN orders /\ incoming \notin Resting
  BY DEF IInv, TypeOK, CallType, IncomingLoose
<1>2. /\ OrdersType' /\ DOMAIN orders' = DOMAIN orders
      /\ \A id \in DOMAIN orders : id # incoming => orders'[id] = orders[id]
  BY <1>1, StatusStep
<1>3. IndexExact' /\ LiveLevels'
  BY <1>1, <1>2, SameBook, RestingOrder
<1>4. TypeOK'
  BY <1>2 DEF IInv, TypeOK, BookType, IndexType, CallType
<1>5. QED
  BY <1>3, <1>4 DEF IInv, IncomingLoose

LEMMA FokKillStep == IInv /\ FokKill => IInv'
BY ReturnStep DEF FokKill, OrderStatus

LEMMA FinishMarketStep == IInv /\ FinishMarket => IInv'
<1>1. \A o : MakerStatus(o) \in OrderStatus
  BY DEF MakerStatus, OrderStatus
<1>2. QED
  BY <1>1, ReturnStep DEF FinishMarket, Finish, DrainOver

LEMMA FinishIocStep == IInv /\ FinishIoc => IInv'
<1>1. \A o : IocStatus(o) \in OrderStatus
  BY DEF IocStatus, OrderStatus
<1>2. QED
  BY <1>1, ReturnStep DEF FinishIoc, Finish, DrainOver

LEMMA FinishFokStep == IInv /\ FinishFok => IInv'
<1>1. "FILLED" \in OrderStatus
  BY DEF OrderStatus
<1>2. QED
  BY <1>1, ReturnStep DEF FinishFok, Finish, DrainOver

LEMMA FinishLimitStep == IInv /\ FinishLimit => IInv'
<1> SUFFICES ASSUME IInv, FinishLimit PROVE IInv'
  OBVIOUS
<1> DEFINE st == LimitStatus(orders[incoming])
<1>1. /\ pc = "drain" /\ pc' = "idle" /\ orders[incoming].type = "LIMIT"
      /\ orders' = [orders EXCEPT ![incoming].status = st]
      /\ UNCHANGED <<incoming, trades>>
  BY DEF FinishLimit, Finish, DrainOver
<1>2. st \in OrderStatus
  BY DEF LimitStatus, OrderStatus
<1> HIDE DEF st
<1>3. CASE IsFilled(orders[incoming])
  <2>1. UNCHANGED <<book, index>>
    BY <1>3 DEF FinishLimit
  <2>2. QED
    BY <2>1, <1>1, <1>2, ReturnStep
<1>4. CASE ~IsFilled(orders[incoming])
  <2>1. RestOrder(incoming, orders[incoming])
    BY <1>4 DEF FinishLimit
  <2>2. incoming \in DOMAIN orders
    BY <1>1 DEF IInv, TypeOK, CallType
  <2>3. /\ OrdersType' /\ DOMAIN orders' = DOMAIN orders
        /\ \A id \in DOMAIN orders : /\ orders'[id].side = orders[id].side
                                     /\ orders'[id].price = orders[id].price
                                     /\ orders'[id].type = orders[id].type
                                     /\ IsFilled(orders'[id]) = IsFilled(orders[id])
    BY <2>2, <1>1, <1>2, StatusStep
  <2>4. BookType' /\ IndexType' /\ IndexExact' /\ LiveLevels'
    BY <2>1, <2>3, <1>1, <1>4, LevelGrows
  <2>5. CallType'
    BY <1>1, <2>3 DEF IInv, TypeOK, CallType
  <2>6. QED
    BY <1>1, <2>3, <2>4, <2>5 DEF IInv, TypeOK, IncomingLoose
<1>5. QED
  BY <1>3, <1>4

\* The running total stays a Quantity, whatever is taken from it.
LEMMA LevelTypes ==
  ASSUME NEW lv \in PriceLevel, NEW n \in Nat
  PROVE  /\ UpdateTotal(lv, n) \in PriceLevel
         /\ UpdateTotal(lv, n).queue = lv.queue
<1>1. lv.total \in Quantity /\ (lv.total >= n => lv.total - n \in Quantity) /\ 0 \in Quantity
  BY DEF PriceLevel, Quantity
<1>2. QED
  BY <1>1 DEF UpdateTotal, PriceLevel

LEMMA CancelStep ==
  ASSUME IInv, NEW id \in OrderId, CancelOrder(id)
  PROVE  IInv'
<1> DEFINE s   == index[id].side
           p   == index[id].price
           rem == Remaining(orders[id])
           lv  == RemoveFromLevel(book[s][p], id, rem)
<1>1. /\ pc = "idle" /\ id \in Resting
      /\ book' = [book EXCEPT ![s] = CancelAt(@, p, id)]
      /\ index' = [i \in DOMAIN index \ {id} |-> index[i]]
      /\ UNCHANGED <<orders, incoming, trades, pc>>
  BY DEF CancelOrder, EraseIndex, Resting
<1>2. s \in Side /\ p \in DOMAIN book[s] /\ id \in Queued(s, p)
  BY <1>1 DEF IInv, TypeOK, IndexType, IndexExact, Resting, Location
<1>3. rem \in Int
  BY <1>1 DEF IInv, TypeOK, OrdersType, IndexType, Order, Quantity, Remaining, Resting
<1>4. /\ book[s][p] \in PriceLevel /\ book[s][p].queue \in Seq(OrderId)
      /\ Distinct(book[s][p].queue) /\ id \in ToSet(book[s][p].queue)
  BY <1>2, LevelFacts DEF Queued
<1>5. /\ lv \in PriceLevel /\ Distinct(lv.queue)
      /\ ToSet(lv.queue) = Queued(s, p) \ {id}
  <2>1. lv = [queue |-> RemoveFirst(book[s][p].queue, id),
              total |-> (book[s][p].total - rem) % QtyMod]
    BY <1>4 DEF RemoveFromLevel
  <2>2. (book[s][p].total - rem) % QtyMod \in Quantity
    <3>1. book[s][p].total - rem \in Int
      BY <1>3, <1>4 DEF PriceLevel, Quantity
    <3>2. QED
      BY <3>1, WrapType
  <2> HIDE DEF lv
  <2>3. QED
    BY <2>1, <2>2, <1>4, RemoveQueue DEF PriceLevel, Queued
<1>6. book' = [book EXCEPT ![s] = StoreLevel(@, p, lv)]
  BY <1>1, <1>2 DEF CancelAt
<1> HIDE DEF lv
<1>7. \A i \in Resting \ {id} : ~IsFilled(orders'[i])
  BY <1>1, RestingOrder
<1>8. BookType' /\ IndexType' /\ IndexExact' /\ LiveLevels'
  <2> DEFINE gone == {id}
  <2>1. gone \in SUBSET Queued(s, p) /\ DOMAIN orders' = DOMAIN orders
    BY <1>1, <1>2
  <2>2. \A i \in DOMAIN orders : /\ orders'[i].side = orders[i].side
                                 /\ orders'[i].price = orders[i].price
                                 /\ orders'[i].type = orders[i].type
    BY <1>1
  <2>3. /\ ToSet(lv.queue) = Queued(s, p) \ gone
        /\ index' = [i \in DOMAIN index \ gone |-> index[i]]
        /\ \A i \in Resting \ gone : ~IsFilled(orders'[i])
    BY <1>1, <1>5, <1>7
  <2> HIDE DEF s, p, gone
  <2>4. QED
    BY <2>1, <2>2, <2>3, <1>2, <1>5, <1>6, LevelShrinks
<1>9. OrdersType' /\ CallType'
  BY <1>1 DEF IInv, TypeOK, OrdersType, CallType
<1>10. QED
  BY <1>1, <1>8, <1>9 DEF IInv, TypeOK, IncomingLoose

LEMMA TradedOrder ==
  ASSUME NEW o \in Order, NEW n \in Quantity, o.filled + n <= o.quantity
  PROVE  /\ Traded(o, n) \in Order
         /\ Traded(o, n).filled <= Traded(o, n).quantity
         /\ Traded(o, n).side = o.side /\ Traded(o, n).price = o.price
         /\ Traded(o, n).type = o.type
<1>1. o.filled + n \in Quantity
  BY DEF Order, Quantity
<1>2. QED
  BY <1>1 DEF Traded, Order

\* A trade is positive and leaves neither order overfilled.
LEMMA FillQtyFits ==
  ASSUME NEW a \in Order, NEW b \in Order, a.filled < a.quantity, b.filled < b.quantity
  PROVE  /\ FillQty(a, b) \in Quantity /\ FillQty(a, b) > 0
         /\ a.filled + FillQty(a, b) <= a.quantity
         /\ b.filled + FillQty(a, b) <= b.quantity
<1>1. /\ a.filled \in Nat /\ a.quantity \in Quantity
      /\ b.filled \in Nat /\ b.quantity \in Quantity
  BY DEF Order, Quantity
<1>2. QED
  BY <1>1 DEF FillQty, Lesser, Remaining, Quantity

LEMMA OpenOrder ==
  ASSUME NEW a \in Order, ~IsFilled(a)
  PROVE  a.filled < a.quantity
BY DEF Order, Quantity, IsFilled

LEMMA FillStep == IInv /\ Fill => IInv'
<1> SUFFICES ASSUME IInv, Fill PROVE IInv'
  OBVIOUS
<1> DEFINE o == orders[incoming]
           s == Opposite(o.side)
<1>1. PICK p \in Price : Matchable(o, p) /\ FillAt(s, p)
  BY DEF Fill
<1> DEFINE lv    == book[s][p]
           m     == Head(lv.queue)
           qty   == FillQty(o, orders[m])
           maker == Traded(orders[m], qty)
           after == AfterTrade(lv, maker, qty)
           gone  == IF IsFilled(maker) THEN {m} ELSE {}
<1>2. /\ pc = "drain" /\ incoming \in DOMAIN orders
      /\ o \in Order /\ o.filled < o.quantity
      /\ s \in Side /\ p \in DOMAIN book[s]
  <2>1. pc = "drain" /\ incoming \in DOMAIN orders
    BY DEF Fill, IInv, TypeOK, CallType
  <2>2. o \in Order /\ p \in DOMAIN book[s] /\ Remaining(o) > 0
    BY <1>1, <2>1 DEF Matchable, IInv, TypeOK, OrdersType
  <2>3. s \in Side
    BY DEF Opposite, Side
  <2>4. QED
    BY <2>1, <2>2, <2>3 DEF Remaining, Order, Quantity
<1>3. /\ lv \in PriceLevel /\ lv.queue \in Seq(OrderId) /\ lv.queue # <<>>
      /\ Distinct(lv.queue) /\ m \in Queued(s, p)
  BY <1>2, LevelFacts, TailQueue DEF Queued
<1>4. /\ m \in DOMAIN orders /\ m \in OrderId /\ m # incoming /\ m \in Resting
      /\ orders[m] \in Order /\ orders[m].filled < orders[m].quantity
  <2>1. m \in DOMAIN orders /\ m \in OrderId /\ m \in Resting
    <3>1. s \in Side /\ p \in DOMAIN book[s] /\ m \in Queued(s, p)
      BY <1>2, <1>3
    <3> HIDE DEF m, s, o, lv, qty, maker, after, gone
    <3>2. QED
      BY <3>1, QueuedOrder
  <2>2. orders[m] \in Order /\ ~IsFilled(orders[m])
    BY <2>1, RestingOrder DEF IInv, TypeOK, OrdersType
  <2>3. m # incoming
    BY <1>2, <2>1 DEF IInv, IncomingLoose
  <2>4. orders[m].filled < orders[m].quantity
    BY <2>2, OpenOrder
  <2>5. QED
    BY <2>1, <2>2, <2>3, <2>4
<1>5. /\ qty \in Quantity /\ qty > 0
      /\ o.filled + qty <= o.quantity
      /\ orders[m].filled + qty <= orders[m].quantity
  BY <1>2, <1>4, FillQtyFits
<1> HIDE DEF qty
<1>6. /\ maker \in Order /\ maker.filled <= maker.quantity
      /\ maker.side = orders[m].side /\ maker.price = orders[m].price
      /\ maker.type = orders[m].type
  BY <1>4, <1>5, TradedOrder
<1>7. /\ Traded(o, qty) \in Order
      /\ Traded(o, qty).filled <= Traded(o, qty).quantity
      /\ Traded(o, qty).side = o.side /\ Traded(o, qty).price = o.price
      /\ Traded(o, qty).type = o.type
  BY <1>2, <1>5, TradedOrder
<1> DEFINE done == [maker EXCEPT !.status = MakerStatus(maker)]
<1>8. /\ done \in Order /\ done.filled <= done.quantity
      /\ done.side = orders[m].side /\ done.price = orders[m].price
      /\ done.type = orders[m].type
      /\ IsFilled(done) = IsFilled(maker)
  <2> HIDE DEF maker
  <2>1. MakerStatus(maker) \in OrderStatus
    BY DEF MakerStatus, OrderStatus
  <2>2. QED
    BY <1>6, <2>1 DEF Order, IsFilled
<1>9. /\ DOMAIN orders' = DOMAIN orders
      /\ orders'[m] = done /\ orders'[incoming] = Traded(o, qty)
      /\ \A id \in DOMAIN orders \ {m, incoming} : orders'[id] = orders[id]
      /\ orders' = [id \in DOMAIN orders' |-> orders'[id]]
  BY <1>1, <1>2, <1>4 DEF FillAt, qty
<1>10. /\ trades' = Append(trades, [maker |-> m, price |-> maker.price, qty |-> qty])
       /\ index' = IF IsFilled(maker) THEN EraseIndex(m) ELSE index
       /\ book' = [book EXCEPT ![s] = StoreLevel(@, p, after)]
       /\ UNCHANGED <<incoming, pc>>
  BY <1>1 DEF FillAt, qty
<1> HIDE DEF done
<1>11. OrdersType'
  <2>1. \A id \in DOMAIN orders' :
          orders'[id] \in Order /\ orders'[id].filled <= orders'[id].quantity
    BY <1>7, <1>8, <1>9 DEF IInv, TypeOK, OrdersType
  <2>2. orders' \in [DOMAIN orders' -> Order]
    BY <2>1, <1>9
  <2>3. QED
    BY <2>1, <2>2, <1>9 DEF IInv, TypeOK, OrdersType
<1>12. CallType'
  <2>1. [maker |-> m, price |-> maker.price, qty |-> qty] \in Trade
    BY <1>4, <1>5, <1>6 DEF Trade, Order
  <2>2. trades' \in Seq(Trade)
    <3> HIDE DEF m, maker
    <3>1. trades \in Seq(Trade)
      BY DEF IInv, TypeOK, CallType
    <3>2. QED
      BY <3>1, <2>1, <1>10
  <2>3. /\ incoming' = incoming /\ pc' = pc /\ DOMAIN orders' = DOMAIN orders
    BY <1>9, <1>10
  <2>4. /\ incoming \in DOMAIN orders \cup {NoOrder}
        /\ pc \in {"idle", "precheck", "drain"} /\ (pc # "idle" => incoming # NoOrder)
    BY DEF IInv, TypeOK, CallType
  <2>5. QED
    BY ONLY <2>2, <2>3, <2>4 DEF CallType
<1>13. /\ after \in PriceLevel /\ Distinct(after.queue)
       /\ ToSet(after.queue) = Queued(s, p) \ gone
  <2>1. UpdateTotal(lv, qty) \in PriceLevel /\ UpdateTotal(lv, qty).queue = lv.queue
    <3> HIDE DEF lv
    <3>1. lv \in PriceLevel /\ qty \in Nat
      BY ONLY <1>3, <1>5, QtyAssumption DEF Quantity
    <3>2. QED
      BY <3>1, LevelTypes
  <2>2. CASE IsFilled(maker)
    <3>1. after = PopFront(UpdateTotal(lv, qty), Remaining(maker))
      BY <2>2 DEF AfterTrade
    <3>2. UpdateTotal(lv, qty).total - Remaining(maker) \in Int
      <4> HIDE DEF maker, lv
      <4>1. UpdateTotal(lv, qty).total \in Int
        BY <2>1 DEF PriceLevel, Quantity
      <4>2. Remaining(maker) \in Int
        BY <1>6 DEF Quantity, Remaining, Order
      <4>3. QED
        BY <4>1, <4>2
    <3> HIDE DEF maker, after, lv
    <3>3. /\ after.queue = Tail(lv.queue)
          /\ after = [queue |-> Tail(lv.queue),
                      total |-> (UpdateTotal(lv, qty).total - Remaining(maker)) % QtyMod]
      BY <3>1, <2>1 DEF PopFront
    <3>4. after \in PriceLevel
      BY <3>2, <3>3, <1>3, WrapType, TailQueue DEF PriceLevel
    <3>5. Distinct(after.queue) /\ ToSet(after.queue) = ToSet(lv.queue) \ {m}
      BY <3>3, <1>3, TailQueue
    <3>6. QED
      BY <3>4, <3>5, <2>2 DEF Queued, lv
  <2>3. CASE ~IsFilled(maker)
    BY <2>1, <2>3, <1>3 DEF AfterTrade, Queued
  <2>4. QED
    BY <2>2, <2>3
<1>14. /\ gone \in SUBSET Queued(s, p)
       /\ index' = [i \in DOMAIN index \ gone |-> index[i]]
  <2>1. index = [i \in DOMAIN index |-> index[i]]
    BY DEF IInv, TypeOK, IndexType
  <2>2. QED
    BY <2>1, <1>3, <1>10 DEF EraseIndex
<1>15. \A id \in Resting \ gone : ~IsFilled(orders'[id])
  <2>1. SUFFICES ASSUME NEW id \in Resting \ gone PROVE ~IsFilled(orders'[id])
    OBVIOUS
  <2>2. CASE id = m
    BY <2>1, <2>2, <1>8, <1>9
  <2>3. CASE id # m
    <3>1. id # incoming /\ id \in DOMAIN orders /\ ~IsFilled(orders[id])
      BY <2>1, <1>2, RestingOrder DEF IInv, IncomingLoose
    <3>2. QED
      BY <2>3, <3>1, <1>9
  <2>4. QED
    BY <2>2, <2>3
<1>16. \A id \in DOMAIN orders : /\ orders'[id].side = orders[id].side
                                 /\ orders'[id].price = orders[id].price
                                 /\ orders'[id].type = orders[id].type
  BY <1>7, <1>8, <1>9
<1> HIDE DEF gone, after
<1>17. BookType' /\ IndexType' /\ IndexExact' /\ LiveLevels'
  BY <1>2, <1>9, <1>10, <1>13, <1>14, <1>15, <1>16, LevelShrinks
<1>18. IncomingLoose'
  BY <1>2, <1>10, <1>14 DEF IInv, IncomingLoose, Resting
<1>19. QED
  BY <1>11, <1>12, <1>17, <1>18 DEF IInv, TypeOK

------------------------------------------------------------------------------
(***************************************************************************)
(* The theorems.                                                           *)
(***************************************************************************)
LEMMA NextInv == IInv /\ [Next]_vars => IInv'
<1> SUFFICES ASSUME IInv, [Next]_vars PROVE IInv'
  OBVIOUS
<1>1. ASSUME NEW id \in OrderId, NEW side \in Side, NEW type \in OrderType,
             NEW price \in Price, NEW qty \in OrderQty,
             Submit(id, side, type, price, qty)
      PROVE  IInv'
  BY <1>1, SubmitStep
<1>2. CASE Match
  BY <1>2, FokPassStep, FokKillStep, FillStep, FinishLimitStep, FinishMarketStep,
     FinishIocStep, FinishFokStep DEF Match
<1>3. ASSUME NEW id \in OrderId, CancelOrder(id)
      PROVE  IInv'
  BY <1>3, CancelStep
<1>4. CASE UNCHANGED vars
  BY <1>4 DEF vars, IInv, TypeOK, OrdersType, BookType, IndexType, CallType,
              IndexExact, LiveLevels, IncomingLoose, Queued, Resting
<1>5. QED
  BY <1>1, <1>2, <1>3, <1>4 DEF Next

LEMMA Invariance == Spec => []IInv
BY InitInv, NextInv, PTL DEF Spec

(***************************************************************************)
(* The state has its types for ever; no order is filled beyond its         *)
(* quantity, so remainingQty() never wraps.                                *)
(***************************************************************************)
THEOREM TypeCorrect == Spec => []TypeOK
<1>1. IInv => TypeOK
  BY DEF IInv
<1>2. QED
  BY <1>1, Invariance, PTL

(***************************************************************************)
(* index_ and the levels agree for ever: cancelOrder() finds every resting *)
(* order at the level the index names, and no level holds another order.   *)
(***************************************************************************)
THEOREM IndexConsistent == Spec => []IndexExact
<1>1. IInv => IndexExact
  BY DEF IInv
<1>2. QED
  BY <1>1, Invariance, PTL

(***************************************************************************)
(* The best level always has a front order with quantity left, whatever    *)
(* the totals say: no null front() and no trade of quantity 0.             *)
(***************************************************************************)
THEOREM LevelsLive == Spec => []LiveLevels
<1>1. IInv => LiveLevels
  BY DEF IInv
<1>2. QED
  BY <1>1, Invariance, PTL

\* Steps that open no level.
LEMMA NoNewLevel ==
  ASSUME NotCrossed, \A s \in Side : DOMAIN book'[s] \subseteq DOMAIN book[s]
  PROVE  NotCrossed'
BY DEF NotCrossed, Side

\* The loop of drainSide() left no level that the incoming order crosses.
LEMMA DrainedUncrossed ==
  ASSUME IInv, DrainOver, incoming \in DOMAIN orders,
         ~IsFilled(orders[incoming])
  PROVE  \A p \in DOMAIN book[Opposite(orders[incoming].side)] :
           ~Crosses(orders[incoming], p)
<1> DEFINE o == orders[incoming]
           s == Opposite(o.side)
<1>1. o \in Order /\ s \in Side /\ Remaining(o) > 0
  BY DEF IInv, TypeOK, OrdersType, Order, Opposite, Side, Remaining, IsFilled, Quantity
<1>2. SUFFICES ASSUME NEW p \in DOMAIN book[s], Crosses(o, p) PROVE FALSE
  OBVIOUS
<1>3. DOMAIN book[s] \subseteq Price /\ DOMAIN book[s] # {}
  BY <1>1, <1>2 DEF IInv, TypeOK, BookType
<1>4. PICK b \in DOMAIN book[s] : \A q \in DOMAIN book[s] : AtLeastAsGood(s, b, q)
  BY <1>1, <1>3, BestExists
<1>5. AtLeastAsGood(s, b, p)
  BY <1>2, <1>4
<1>6. Crosses(o, b)
  <2>1. b \in Int /\ p \in Int /\ o.price \in Int /\ o.side \in Side
    BY <1>1, <1>2, <1>3, <1>4 DEF Price, Order
  <2>2. QED
    BY <2>1, <1>2, <1>5 DEF Crosses, AtLeastAsGood, Opposite, Side
<1>7. Matchable(o, b)
  BY <1>1, <1>4, <1>6 DEF Matchable, IsBest
<1>8. QED
  BY <1>3, <1>7 DEF DrainOver

LEMMA RestUncrossed ==
  ASSUME IInv, NotCrossed, FinishLimit
  PROVE  NotCrossed'
<1> DEFINE o == orders[incoming]
<1>1. DrainOver /\ o.type = "LIMIT" /\ pc = "drain"
  BY DEF FinishLimit, Finish, DrainOver
<1>2. incoming \in DOMAIN orders /\ o.side \in Side /\ o.price \in Price
  <2>1. incoming \in DOMAIN orders
    BY <1>1 DEF IInv, TypeOK, CallType
  <2>2. o \in Order
    BY <2>1 DEF IInv, TypeOK, OrdersType
  <2>3. QED
    BY <2>1, <2>2 DEF Order
<1>3. CASE IsFilled(o)
  BY <1>3, NoNewLevel DEF FinishLimit
<1>4. CASE ~IsFilled(o)
  <2>1. \A p \in DOMAIN book[Opposite(o.side)] : ~Crosses(o, p)
    BY <1>1, <1>2, <1>4, DrainedUncrossed
  <2>2. /\ DOMAIN book'[o.side] = DOMAIN book[o.side] \cup {o.price}
        /\ DOMAIN book'[Opposite(o.side)] = DOMAIN book[Opposite(o.side)]
    <3>1. DOMAIN book = Side /\ Opposite(o.side) # o.side /\ Opposite(o.side) \in Side
      BY <1>2 DEF IInv, TypeOK, BookType, Opposite, Side
    <3>2. PICK lv : book' = [book EXCEPT ![o.side] = SetLevel(book[o.side], o.price, lv)]
      BY <1>4 DEF FinishLimit, RestOrder
    <3>3. DOMAIN SetLevel(book[o.side], o.price, lv) = DOMAIN book[o.side] \cup {o.price}
      BY DEF SetLevel
    <3>4. QED
      BY <1>2, <3>1, <3>2, <3>3
  <2>3. \A s \in Side : DOMAIN book[s] \subseteq Int
    <3>1. Price \subseteq Int
      BY DEF Price
    <3>2. \A s \in Side : DOMAIN book[s] \subseteq Price
      BY DEF IInv, TypeOK, BookType
    <3>3. QED
      BY <3>1, <3>2
  <2>4. CASE o.side = "BUY"
    <3>1. \A ask \in DOMAIN book["SELL"] : ~(ask <= o.price)
      BY <2>1, <2>4 DEF Opposite, Crosses
    <3>2. QED
      BY <1>2, <2>2, <2>3, <2>4, <3>1 DEF NotCrossed, Opposite, Side, Price
  <2>5. CASE o.side = "SELL"
    <3>1. \A bid \in DOMAIN book["BUY"] : ~(bid >= o.price)
      BY <2>1, <2>5 DEF Opposite, Crosses
    <3>2. QED
      BY <1>2, <2>2, <2>3, <2>5, <3>1 DEF NotCrossed, Opposite, Side, Price
  <2>6. QED
    BY <1>2, <2>4, <2>5 DEF Side
<1>5. QED
  BY <1>3, <1>4

LEMMA UncrossedStep == IInv /\ NotCrossed /\ [Next]_vars => NotCrossed'
<1> SUFFICES ASSUME IInv, NotCrossed, [Next]_vars PROVE NotCrossed'
  OBVIOUS
<1>1. \A s \in Side : DOMAIN book[s] \subseteq Price /\ DOMAIN book = Side
  BY DEF IInv, TypeOK, BookType
<1>2. ASSUME UNCHANGED book PROVE NotCrossed'
  BY <1>2 DEF NotCrossed
<1>3. CASE Fill
  <2> DEFINE s == Opposite(orders[incoming].side)
  <2>1. PICK p \in Price : p \in DOMAIN book[s] /\ FillAt(s, p)
    BY <1>3 DEF Fill, Matchable
  <2>2. PICK lv : book' = [book EXCEPT ![s] = StoreLevel(@, p, lv)]
    BY <2>1 DEF FillAt
  <2>3. DOMAIN StoreLevel(book[s], p, lv) \subseteq DOMAIN book[s]
    BY <2>1, NoLevelOpens
  <2>4. \A t \in Side : DOMAIN book'[t] \subseteq DOMAIN book[t]
    BY <1>1, <2>2, <2>3
  <2>5. QED
    BY <2>4, NoNewLevel
<1>4. ASSUME NEW id \in OrderId, CancelOrder(id) PROVE NotCrossed'
  <2> DEFINE s == index[id].side
             p == index[id].price
  <2>1. book' = [book EXCEPT ![s] = CancelAt(@, p, id)]
    BY <1>4 DEF CancelOrder
  <2>2. DOMAIN CancelAt(book[s], p, id) \subseteq DOMAIN book[s]
    <3>1. CASE p \notin DOMAIN book[s]
      BY <3>1 DEF CancelAt
    <3>2. CASE p \in DOMAIN book[s]
      <4>1. PICK lv : CancelAt(book[s], p, id) = StoreLevel(book[s], p, lv)
        BY <3>2 DEF CancelAt
      <4>2. QED
        BY <3>2, <4>1, NoLevelOpens
    <3>3. QED
      BY <3>1, <3>2
  <2>3. \A t \in Side : DOMAIN book'[t] \subseteq DOMAIN book[t]
    BY <1>1, <2>1, <2>2
  <2>4. QED
    BY <2>3, NoNewLevel
<1>5. CASE Match
  <2>1. \/ UNCHANGED book \/ Fill \/ FinishLimit
    BY <1>5 DEF Match, FokPass, FokKill, FinishMarket, FinishIoc, FinishFok
  <2>2. QED
    BY <2>1, <1>2, <1>3, RestUncrossed
<1>6. QED
  BY <1>2, <1>4, <1>5 DEF Next, Submit, vars

(***************************************************************************)
(* Best bid below best ask for ever: drainSide() takes every level that a  *)
(* LIMIT order crosses before restOrder() puts the rest on its own side.   *)
(* Inductive only with IInv, which gives the loop a front order to trade   *)
(* with and so makes "no level is matchable" mean "no level is crossed".   *)
(***************************************************************************)
THEOREM Uncrossed == Spec => []NotCrossed
<1>1. Init => NotCrossed
  BY DEF Init, NotCrossed, Side
<1>2. QED
  BY <1>1, Invariance, UncrossedStep, PTL DEF Spec

\* Who a step may touch: the order of the current call and resting makers.
LEMMA FrozenStep ==
  ASSUME IInv, [Next]_vars,
         NEW id \in DOMAIN orders \ Resting, id # incoming \/ pc = "idle"
  PROVE  orders'[id] = orders[id]
<1>1. CASE Fill
  <2> DEFINE s == Opposite(orders[incoming].side)
             m(p) == Head(book[s][p].queue)
  <2>1. PICK p \in Price : p \in DOMAIN book[s] /\ FillAt(s, p)
    BY <1>1 DEF Fill, Matchable
  <2>2. s \in Side /\ pc = "drain"
    BY <1>1 DEF Fill, Opposite, Side
  <2>3. m(p) \in Queued(s, p)
    BY <2>1, <2>2, LevelFacts, TailQueue DEF Queued
  <2>4. m(p) \in Resting
    <3> HIDE DEF s, m
    <3>1. QED
      BY <2>1, <2>2, <2>3, QueuedOrder
  <2>5. id # m(p) /\ id # incoming
    BY <2>2, <2>4
  <2>6. QED
    BY <2>1, <2>5 DEF FillAt
<1>2. CASE pc # "idle" /\ Match /\ ~Fill
  BY <1>2 DEF Match, FokPass, FokKill, FinishLimit, FinishMarket, FinishIoc,
              FinishFok, Finish
<1>3. ASSUME NEW i \in OrderId, NEW side \in Side, NEW type \in OrderType,
             NEW price \in Price, NEW qty \in OrderQty,
             Submit(i, side, type, price, qty)
      PROVE  orders'[id] = orders[id]
  BY <1>3 DEF Submit
<1>4. Match => pc # "idle"
  BY DEF Match, FokPass, FokKill, Fill, FinishLimit, FinishMarket, FinishIoc,
         FinishFok, Finish, DrainOver
<1>5. QED
  BY <1>1, <1>2, <1>3, <1>4 DEF Next, CancelOrder, vars

(***************************************************************************)
(* An order that is over - filled, killed, cancelled or returned unfilled  *)
(* - keeps its filled quantity and its status, although its Order object   *)
(* stays alive and its id may stay known to callers.                       *)
(***************************************************************************)
THEOREM OverStaysOver == Spec => OverIsOver
<1>1. IInv /\ [Next]_vars =>
        [\A id \in DOMAIN orders \ Resting :
           id # incoming \/ pc = "idle" => orders'[id] = orders[id]]_vars
  BY FrozenStep
<1>2. QED
  BY <1>1, Invariance, PTL DEF Spec, OverIsOver

------------------------------------------------------------------------------
(***************************************************************************)
(* The quantities: what was bought was sold, a resting order's status      *)
(* tells whether it traded, and, as long as what rests on a side fits in a *)
(* Quantity, a level's running total is what its orders have left, a FOK   *)
(* order fills in full or not at all, and the program's own check passes.  *)
(***************************************************************************)
FilledQty == [id \in DOMAIN orders |-> orders[id].filled]
OrdersOf(s) == {id \in DOMAIN orders : orders[id].side = s}

------------------------------------------------------------------------------
(***************************************************************************)
(* What the steps do to the orders.                                        *)
(***************************************************************************)
\* No order appears, and none changes but in filled and status.
SameTerms == /\ DOMAIN orders' = DOMAIN orders
             /\ \A id \in DOMAIN orders :
                  /\ orders'[id].side = orders[id].side
                  /\ orders'[id].price = orders[id].price
                  /\ orders'[id].type = orders[id].type
                  /\ orders'[id].quantity = orders[id].quantity

\* The fields of a submitted order.
LEMMA OrderFields ==
  ASSUME IInv, NEW id \in DOMAIN orders
  PROVE  /\ orders[id] \in Order
         /\ orders[id].side \in Side /\ orders[id].price \in Price
         /\ orders[id].type \in OrderType
         /\ orders[id].quantity \in Nat /\ orders[id].filled \in Nat
         /\ orders[id].filled <= orders[id].quantity
         /\ Remaining(orders[id]) \in Nat
         /\ Remaining(orders[id]) <= orders[id].quantity
         /\ IsFilled(orders[id]) <=> Remaining(orders[id]) = 0
<1>1. orders[id] \in Order /\ orders[id].filled <= orders[id].quantity
  BY DEF IInv, TypeOK, OrdersType
<1>2. orders[id].quantity \in Nat /\ orders[id].filled \in Nat
  BY <1>1 DEF Order, Quantity
<1>3. orders[id].side \in Side /\ orders[id].price \in Price /\ orders[id].type \in OrderType
  BY <1>1 DEF Order
<1> QED BY <1>1, <1>2, <1>3 DEF Remaining, IsFilled

\* One iteration of drainSide() trades qty between incoming and m, at level p of s.
Trades(s, p, m, qty) ==
  /\ m \in DOMAIN orders /\ incoming \in DOMAIN orders /\ m # incoming
  /\ orders[m].side = s /\ orders[incoming].side = Opposite(s)
  /\ qty > 0 /\ qty <= Remaining(orders[m]) /\ qty <= Remaining(orders[incoming])
  /\ SameTerms
  /\ orders'[m].filled = orders[m].filled + qty
  /\ orders'[m].status = MakerStatus(orders'[m])
  /\ orders'[incoming].filled = orders[incoming].filled + qty
  /\ \A id \in DOMAIN orders \ {m, incoming} : orders'[id] = orders[id]
  /\ book' = [book EXCEPT ![s] =
                StoreLevel(@, p, AfterTrade(book[s][p], orders'[m], qty))]
  /\ DOMAIN index' \subseteq DOMAIN index
  /\ m \in DOMAIN index' => ~IsFilled(orders'[m])
  /\ UNCHANGED <<incoming, pc>>

\* An order queued at a level rests on its side.
LEMMA QueuedRests ==
  ASSUME IInv
  PROVE  \A s \in Side : \A p \in DOMAIN book[s] : \A id \in Queued(s, p) :
           id \in Resting /\ id \in DOMAIN orders /\ orders[id].side = s
BY QueuedOrder, Zenon

LEMMA FillTrades ==
  ASSUME IInv, Fill
  PROVE  \E s \in Side : \E p \in DOMAIN book[s] : \E m \in Queued(s, p), qty \in Nat :
           /\ m = Head(book[s][p].queue)
           /\ s = Opposite(orders[incoming].side)
           /\ Crosses(orders[incoming], p)
           /\ Trades(s, p, m, qty)
<1> DEFINE o == orders[incoming]
           s == Opposite(o.side)
<1>1. PICK p \in Price : Matchable(o, p) /\ FillAt(s, p)
  BY DEF Fill
<1> DEFINE lv    == book[s][p]
           m     == Head(lv.queue)
           qty   == FillQty(o, orders[m])
           maker == Traded(orders[m], qty)
           done  == [maker EXCEPT !.status = MakerStatus(maker)]
<1>2. pc = "drain" /\ incoming \in DOMAIN orders /\ incoming \notin Resting
  BY DEF Fill, IInv, TypeOK, CallType, IncomingLoose
<1>3. s \in Side /\ o.side = Opposite(s) /\ p \in DOMAIN book[s] /\ Crosses(o, p)
  BY <1>1, <1>2, OrderFields DEF Matchable, Opposite, Side
<1>4. m \in Queued(s, p)
  BY <1>3, LevelFacts, TailQueue DEF Queued
<1>5. m \in DOMAIN orders /\ m \in Resting /\ orders[m].side = s
  <2>1. s \in Side /\ p \in DOMAIN book[s] /\ m \in Queued(s, p)
    BY <1>3, <1>4
  <2> HIDE DEF m, s, o, lv, maker, done
  <2> QED BY <2>1, QueuedRests
<1>6. m # incoming /\ ~IsFilled(orders[m])
  BY <1>2, <1>5, RestingOrder
<1>7. /\ orders[m] \in Order /\ o \in Order
      /\ Remaining(orders[m]) \in Nat /\ Remaining(orders[m]) > 0
      /\ Remaining(o) \in Nat /\ Remaining(o) > 0
  BY <1>1, <1>2, <1>5, <1>6, OrderFields DEF Matchable
<1>8. /\ qty \in Nat /\ qty > 0 /\ qty <= Remaining(orders[m]) /\ qty <= Remaining(o)
  <2>1. qty = Lesser(Remaining(o), Remaining(orders[m]))
    BY DEF FillQty
  <2> HIDE DEF qty, o, m
  <2> QED BY <1>7, <2>1 DEF Lesser
<1> HIDE DEF qty
<1>9. /\ DOMAIN orders' = DOMAIN orders
      /\ orders'[m] = done
      /\ orders'[incoming] = Traded(o, qty)
      /\ \A id \in DOMAIN orders \ {m, incoming} : orders'[id] = orders[id]
      /\ book' = [book EXCEPT ![s] = StoreLevel(@, p, AfterTrade(lv, maker, qty))]
      /\ index' = IF IsFilled(maker) THEN EraseIndex(m) ELSE index
      /\ UNCHANGED <<incoming, pc>>
  BY <1>1, <1>2, <1>5, <1>6 DEF FillAt, qty
<1>10. /\ done.filled = orders[m].filled + qty /\ maker.filled = orders[m].filled + qty
       /\ done.quantity = orders[m].quantity /\ maker.quantity = orders[m].quantity
       /\ done.side = orders[m].side /\ done.price = orders[m].price
       /\ done.type = orders[m].type /\ done.status = MakerStatus(maker)
  BY <1>7 DEF Traded, Order
<1>11. MakerStatus(done) = MakerStatus(maker) /\ Remaining(done) = Remaining(maker)
       /\ IsFilled(done) = IsFilled(maker)
  BY <1>10 DEF MakerStatus, IsFilled, Remaining
<1>12. AfterTrade(lv, done, qty) = AfterTrade(lv, maker, qty)
  BY <1>11 DEF AfterTrade
<1>13. /\ Traded(o, qty).filled = o.filled + qty /\ Traded(o, qty).side = o.side
       /\ Traded(o, qty).price = o.price /\ Traded(o, qty).type = o.type
       /\ Traded(o, qty).quantity = o.quantity
  BY <1>7 DEF Traded, Order
<1> HIDE DEF done, maker
<1>14. /\ DOMAIN index' \subseteq DOMAIN index
       /\ m \in DOMAIN index' => ~IsFilled(orders'[m])
  BY <1>9, <1>11 DEF EraseIndex
<1>15. SameTerms
  BY <1>9, <1>10, <1>13 DEF SameTerms
<1>16. Trades(s, p, m, qty)
  <2> HIDE DEF lv, m, s
  <2>1. /\ orders'[m].filled = orders[m].filled + qty
        /\ orders'[m].status = MakerStatus(orders'[m])
        /\ orders'[incoming].filled = orders[incoming].filled + qty
    BY <1>9, <1>10, <1>11, <1>13
  <2>2. book' = [book EXCEPT ![s] = StoreLevel(@, p, AfterTrade(book[s][p], orders'[m], qty))]
    BY <1>9, <1>12 DEF lv
  <2> QED
    BY <2>1, <2>2, <1>2, <1>3, <1>5, <1>6, <1>8, <1>9, <1>14, <1>15 DEF Trades
<1> HIDE DEF m, s
<1> QED BY <1>3, <1>4, <1>8, <1>16 DEF m, s, lv

\* A call returns: of the orders, only the incoming one's status changes.
Returns ==
  /\ pc # "idle" /\ pc' = "idle" /\ incoming \in DOMAIN orders
  /\ SameTerms
  /\ \A id \in DOMAIN orders : /\ orders'[id].filled = orders[id].filled
                               /\ id # incoming => orders'[id] = orders[id]
  /\ UNCHANGED incoming

LEMMA StatusReturns ==
  ASSUME IInv, pc # "idle", pc' = "idle", NEW st,
         orders' = [orders EXCEPT ![incoming].status = st], UNCHANGED incoming
  PROVE  Returns /\ orders'[incoming].status = st
<1>1. incoming \in DOMAIN orders
  BY DEF IInv, TypeOK, CallType
<1>2. orders[incoming] \in Order
  BY <1>1, OrderFields
<1>3. /\ DOMAIN orders' = DOMAIN orders
      /\ orders'[incoming] = [orders[incoming] EXCEPT !.status = st]
      /\ \A id \in DOMAIN orders : id # incoming => orders'[id] = orders[id]
  BY <1>1
<1>4. /\ orders'[incoming].side = orders[incoming].side
      /\ orders'[incoming].price = orders[incoming].price
      /\ orders'[incoming].type = orders[incoming].type
      /\ orders'[incoming].quantity = orders[incoming].quantity
      /\ orders'[incoming].filled = orders[incoming].filled
      /\ orders'[incoming].status = st
  BY <1>2, <1>3 DEF Order
<1> QED BY <1>1, <1>3, <1>4 DEF Returns, SameTerms

\* The actions that return, with the status each one sets.
LEMMA MatchReturns ==
  ASSUME IInv
  PROVE  /\ FokKill => /\ Returns /\ orders'[incoming].status = "CANCELLED"
                       /\ UNCHANGED <<book, index>>
         /\ FinishLimit =>
              Returns /\ orders'[incoming].status = LimitStatus(orders[incoming])
         /\ FinishMarket => Returns /\ UNCHANGED <<book, index>>
         /\ FinishIoc => Returns /\ UNCHANGED <<book, index>>
         /\ FinishFok => /\ Returns /\ orders'[incoming].status = "FILLED"
                         /\ UNCHANGED <<book, index>>
<1>1. FokKill => Returns /\ orders'[incoming].status = "CANCELLED"
  BY StatusReturns DEF FokKill
<1>2. ASSUME NEW type, NEW st, Finish(type, st)
      PROVE  Returns /\ orders'[incoming].status = st
  BY <1>2, StatusReturns DEF Finish, DrainOver
<1>3. FokKill => UNCHANGED <<book, index>>
  BY DEF FokKill
<1>4. FinishLimit => Finish("LIMIT", LimitStatus(orders[incoming]))
  BY DEF FinishLimit
<1>5. FinishMarket => /\ Finish("MARKET", MakerStatus(orders[incoming]))
                      /\ UNCHANGED <<book, index>>
  BY DEF FinishMarket
<1>6. FinishIoc => /\ Finish("IOC", IocStatus(orders[incoming]))
                   /\ UNCHANGED <<book, index>>
  BY DEF FinishIoc
<1>7. FinishFok => Finish("FOK", "FILLED") /\ UNCHANGED <<book, index>>
  BY DEF FinishFok
<1> QED BY <1>1, <1>2, <1>3, <1>4, <1>5, <1>6, <1>7

\* The effect of every step on the orders.
LEMMA StepKinds ==
  ASSUME IInv, [Next]_vars
  PROVE  \/ \E id \in OrderId, side \in Side, type \in OrderType,
                price \in Price, qty \in OrderQty : Submit(id, side, type, price, qty)
         \/ Fill
         \/ Returns
         \/ UNCHANGED orders
BY MatchReturns DEF Next, Match, FokPass, CancelOrder, vars

\* What a new order looks like among the others.
LEMMA Submitted ==
  ASSUME NEW id \in OrderId, NEW side \in Side, NEW type \in OrderType,
         NEW price \in Price, NEW qty \in OrderQty,
         Submit(id, side, type, price, qty)
  PROVE  /\ id \notin DOMAIN orders /\ DOMAIN orders' = DOMAIN orders \cup {id}
         /\ \A i \in DOMAIN orders : orders'[i] = orders[i]
         /\ orders'[id] = NewOrder(side, type, price, qty)
         /\ orders'[id].filled = 0 /\ orders'[id].side = side
         /\ orders'[id].type = type /\ orders'[id].quantity = qty
         /\ pc = "idle" /\ incoming' = id /\ UNCHANGED <<book, index>>
         /\ pc' = IF type = "FOK" THEN "precheck" ELSE "drain"
BY DEF Submit, NewOrder

------------------------------------------------------------------------------
(***************************************************************************)
(* The orders stay finitely many, so that their quantities have sums.      *)
(***************************************************************************)
FinitelyMany == IsFiniteSet(DOMAIN orders)

LEMMA FiniteStep ==
  ASSUME IInv, FinitelyMany, [Next]_vars
  PROVE  FinitelyMany'
<1>1. ASSUME NEW id \in OrderId, NEW side \in Side, NEW type \in OrderType,
             NEW price \in Price, NEW qty \in OrderQty,
             Submit(id, side, type, price, qty)
      PROVE  FinitelyMany'
  <2>1. DOMAIN orders' = DOMAIN orders \cup {id}
    BY <1>1, Submitted
  <2> QED BY <2>1, FS_AddElement DEF FinitelyMany
<1>2. CASE Fill
  <2>1. DOMAIN orders' = DOMAIN orders
    BY <1>2, FillTrades DEF Trades, SameTerms
  <2> QED BY <2>1 DEF FinitelyMany
<1> QED BY <1>1, <1>2, StepKinds DEF Returns, SameTerms, FinitelyMany

\* The filled quantities are natural numbers, and so are their sums.
LEMMA FilledSums ==
  ASSUME IInv, FinitelyMany
  PROVE  /\ \A id \in DOMAIN orders : FilledQty[id] \in Nat
         /\ \A s \in Side : /\ IsFiniteSet(OrdersOf(s)) /\ OrdersOf(s) \subseteq DOMAIN orders
                            /\ FilledOf(s) = SumFunctionOnSet(FilledQty, OrdersOf(s))
                            /\ FilledOf(s) \in Nat
<1>1. \A id \in DOMAIN orders : FilledQty[id] \in Nat
  BY OrderFields DEF FilledQty
<1>2. ASSUME NEW s \in Side
      PROVE  /\ IsFiniteSet(OrdersOf(s)) /\ OrdersOf(s) \subseteq DOMAIN orders
             /\ FilledOf(s) = SumFunctionOnSet(FilledQty, OrdersOf(s))
  <2>1. OrdersOf(s) \subseteq DOMAIN orders
    BY DEF OrdersOf
  <2> QED BY <2>1, FS_Subset DEF FinitelyMany, FilledOf, FilledQty, OrdersOf
<1>3. ASSUME NEW s \in Side PROVE FilledOf(s) \in Nat
  BY <1>1, <1>2, SumNat
<1> QED BY <1>1, <1>2, <1>3

\* The sum of a side follows the orders of that side.
LEMMA FilledKept ==
  ASSUME IInv, FinitelyMany, DOMAIN orders' = DOMAIN orders, NEW s \in Side,
         \A id \in DOMAIN orders : orders'[id].side = orders[id].side,
         \A id \in OrdersOf(s) : orders'[id].filled = orders[id].filled
  PROVE  FilledOf(s)' = FilledOf(s)
<1>1. OrdersOf(s)' = OrdersOf(s)
  BY DEF OrdersOf
<1>2. \A id \in OrdersOf(s) : FilledQty'[id] = FilledQty[id]
  BY DEF FilledQty, OrdersOf
<1>3. SumFunctionOnSet(FilledQty', OrdersOf(s)) = SumFunctionOnSet(FilledQty, OrdersOf(s))
  BY <1>2, FilledSums, SumCongruent
<1> QED BY <1>1, <1>3 DEF FilledOf, FilledQty, OrdersOf

LEMMA FilledGrows ==
  ASSUME IInv, FinitelyMany, SameTerms, NEW s \in Side, NEW m \in OrdersOf(s), NEW qty \in Nat,
         orders'[m].filled = orders[m].filled + qty,
         \A id \in OrdersOf(s) \ {m} : orders'[id].filled = orders[id].filled
  PROVE  FilledOf(s)' = FilledOf(s) + qty
<1>1. OrdersOf(s)' = OrdersOf(s) /\ m \in DOMAIN orders
  BY DEF OrdersOf, SameTerms
<1>2. /\ FilledQty[m] \in Nat /\ FilledQty'[m] = FilledQty[m] + qty
      /\ \A id \in OrdersOf(s) \ {m} : FilledQty'[id] = FilledQty[id]
  BY <1>1, FilledSums DEF FilledQty, OrdersOf, SameTerms
<1>3. \A id \in OrdersOf(s) : FilledQty[id] \in Int
  BY FilledSums
<1>4. SumFunctionOnSet(FilledQty', OrdersOf(s)) =
        SumFunctionOnSet(FilledQty, OrdersOf(s)) - FilledQty[m] + FilledQty'[m]
  <2> DEFINE f == FilledQty
             g == FilledQty'
             S == OrdersOf(s)
  <2>1. /\ IsFiniteSet(S) /\ \A x \in S : f[x] \in Int
        /\ m \in S /\ g[m] \in Int /\ \A x \in S \ {m} : g[x] = f[x]
    BY <1>2, <1>3, FilledSums
  <2> HIDE DEF f, g, S
  <2>2. SumFunctionOnSet(g, S) = SumFunctionOnSet(f, S) - f[m] + g[m]
    BY <2>1, SumChange
  <2> QED BY <2>2 DEF f, g, S
<1>5. FilledOf(s)' = SumFunctionOnSet(FilledQty', OrdersOf(s))
  BY <1>1 DEF FilledOf, FilledQty, OrdersOf
<1> QED BY <1>2, <1>4, <1>5, FilledSums

\* A trade adds the same quantity to both sides; nothing else adds any.
LEMMA ConservationStep ==
  ASSUME IInv, FinitelyMany, Conservation, [Next]_vars
  PROVE  Conservation'
<1>1. ASSUME NEW id \in OrderId, NEW side \in Side, NEW type \in OrderType,
             NEW price \in Price, NEW qty \in OrderQty,
             Submit(id, side, type, price, qty)
      PROVE  Conservation'
  <2>1. /\ id \notin DOMAIN orders /\ DOMAIN orders' = DOMAIN orders \cup {id}
        /\ \A i \in DOMAIN orders : orders'[i] = orders[i]
        /\ orders'[id].filled = 0 /\ orders'[id].side = side
    BY <1>1, Submitted
  <2>2. ASSUME NEW s \in Side PROVE FilledOf(s)' = FilledOf(s)
    <3> DEFINE f == FilledQty
               g == FilledQty'
               S == OrdersOf(s)
    <3>1. /\ IsFiniteSet(S) /\ \A x \in S : f[x] \in Int /\ g[x] = f[x]
          /\ id \notin S /\ g[id] = 0
      <4>1. IsFiniteSet(S) /\ S \subseteq DOMAIN orders /\ \A x \in S : f[x] \in Int
        BY FilledSums
      <4>2. \A x \in DOMAIN orders : g[x] = f[x]
        BY <2>1 DEF FilledQty
      <4>3. id \notin S /\ g[id] = 0
        BY <2>1 DEF FilledQty, OrdersOf
      <4> QED BY <4>1, <4>2, <4>3
    <3>2. OrdersOf(s)' = IF side = s THEN S \cup {id} ELSE S
      BY <2>1 DEF OrdersOf
    <3>3. FilledOf(s)' = SumFunctionOnSet(g, OrdersOf(s)')
      BY DEF FilledOf, FilledQty, OrdersOf
    <3>4. FilledOf(s) = SumFunctionOnSet(f, S) /\ FilledOf(s) \in Nat
      BY FilledSums
    <3> HIDE DEF f, g, S
    <3>5. SumFunctionOnSet(g, S) = SumFunctionOnSet(f, S)
      BY <3>1, SumCongruent
    <3>6. SumFunctionOnSet(g, S \cup {id}) = g[id] + SumFunctionOnSet(g, S)
      <4>1. \A x \in S : g[x] \in Int
        BY <3>1
      <4>2. g[id] \in Int
        BY <3>1
      <4> QED BY <3>1, <4>1, <4>2, SumAdd
    <3>7. SumFunctionOnSet(g, S \cup {id}) = SumFunctionOnSet(f, S)
      BY <3>1, <3>4, <3>5, <3>6
    <3> QED BY <3>2, <3>3, <3>4, <3>5, <3>7
  <2> QED BY <2>2 DEF Conservation, Side
<1>2. CASE Fill
  <2>1. PICK s \in Side : \E p \in DOMAIN book[s], m \in DOMAIN orders, qty \in Nat :
          Trades(s, p, m, qty)
    BY <1>2, FillTrades DEF Trades
  <2>2. PICK p \in DOMAIN book[s], m \in DOMAIN orders, qty \in Nat : Trades(s, p, m, qty)
    BY <2>1
  <2> DEFINE t == Opposite(s)
  <2>3. /\ t \in Side /\ t # s /\ Side = {s, t}
        /\ m \in OrdersOf(s) /\ incoming \in OrdersOf(t)
        /\ m \notin OrdersOf(t) /\ incoming \notin OrdersOf(s)
    BY <2>2 DEF Trades, OrdersOf, Opposite, Side
  <2>4. /\ SameTerms
        /\ orders'[m].filled = orders[m].filled + qty
        /\ orders'[incoming].filled = orders[incoming].filled + qty
        /\ \A id \in DOMAIN orders \ {m, incoming} : orders'[id].filled = orders[id].filled
    BY <2>2 DEF Trades
  <2>5. /\ \A id \in OrdersOf(s) \ {m} : orders'[id].filled = orders[id].filled
        /\ \A id \in OrdersOf(t) \ {incoming} : orders'[id].filled = orders[id].filled
    BY <2>3, <2>4 DEF OrdersOf
  <2> HIDE DEF t
  <2>6. FilledOf(s)' = FilledOf(s) + qty
    BY <2>3, <2>4, <2>5, FilledGrows
  <2>7. FilledOf(t)' = FilledOf(t) + qty
    BY <2>3, <2>4, <2>5, FilledGrows
  <2> QED BY <2>3, <2>6, <2>7 DEF Conservation, Side
<1>3. CASE Returns \/ UNCHANGED orders
  <2>1. \A s \in Side : FilledOf(s)' = FilledOf(s)
    BY <1>3, FilledKept DEF Returns, SameTerms, OrdersOf
  <2> QED BY <2>1 DEF Conservation, Side
<1> QED BY <1>1, <1>2, <1>3, StepKinds

(***************************************************************************)
(* What was bought was sold, in every state, whatever mix of order types,  *)
(* partial fills and cancels came before.                                  *)
(***************************************************************************)
THEOREM QuantityConserved == Spec => []Conservation
<1>1. Init => FinitelyMany /\ Conservation
  <2> SUFFICES ASSUME Init PROVE FinitelyMany /\ Conservation
    OBVIOUS
  <2>1. DOMAIN orders = {}
    BY DEF Init
  <2>2. FinitelyMany
    BY <2>1, FS_EmptySet DEF FinitelyMany
  <2>3. \A s \in Side : OrdersOf(s) = {}
    BY <2>1 DEF OrdersOf
  <2>4. \A s \in Side : FilledOf(s) = 0
    BY <2>3, SumEmpty DEF FilledOf, OrdersOf
  <2> QED BY <2>2, <2>4 DEF Conservation, Side
<1>2. IInv /\ FinitelyMany /\ Conservation /\ [Next]_vars => (FinitelyMany /\ Conservation)'
  BY FiniteStep, ConservationStep
<1> QED BY <1>1, <1>2, Invariance, PTL DEF Spec

------------------------------------------------------------------------------
\* Which ids rest after a step.
LEMMA RestingAfter ==
  ASSUME IInv, [Next]_vars, ~Fill
  PROVE  \/ DOMAIN index' \subseteq DOMAIN index
         \/ /\ FinishLimit /\ Remaining(orders[incoming]) > 0
            /\ RestOrder(incoming, orders[incoming])
            /\ DOMAIN index' = DOMAIN index \cup {incoming}
<1>1. CASE FinishLimit
  <2>1. incoming \in DOMAIN orders
    BY <1>1 DEF FinishLimit, Finish, DrainOver, IInv, TypeOK, CallType
  <2>2. CASE IsFilled(orders[incoming])
    BY <1>1, <2>2 DEF FinishLimit
  <2>3. CASE ~IsFilled(orders[incoming])
    <3>1. RestOrder(incoming, orders[incoming])
      BY <1>1, <2>3 DEF FinishLimit
    <3>2. Remaining(orders[incoming]) > 0
      BY <2>1, <2>3, OrderFields
    <3> QED BY <1>1, <3>1, <3>2 DEF RestOrder
  <2> QED BY <2>2, <2>3
<1> QED BY <1>1 DEF Next, Submit, Match, FokPass, FokKill, FinishMarket, FinishIoc,
                    FinishFok, CancelOrder, EraseIndex, vars

LEMMA RestingStatusStep ==
  ASSUME IInv, RestingStatus, [Next]_vars
  PROVE  RestingStatus'
<1> DEFINE Told(o) == o.status = IF o.filled = 0 THEN "ACCEPTED" ELSE "PARTIALLY_FILLED"
<1>1. ASSUME NEW id \in Resting PROVE id \in DOMAIN orders /\ Told(orders[id])
  BY RestingOrder DEF RestingStatus
<1>2. CASE Fill
  <2>1. PICK s \in Side : \E p \in DOMAIN book[s], m \in DOMAIN orders, qty \in Nat :
          Trades(s, p, m, qty)
    BY <1>2, FillTrades DEF Trades
  <2>2. PICK p \in DOMAIN book[s], m \in DOMAIN orders, qty \in Nat : Trades(s, p, m, qty)
    BY <2>1
  <2>3. ASSUME NEW id \in DOMAIN index' PROVE Told(orders'[id])
    <3>1. id \in Resting /\ id # incoming
      BY <2>2, <2>3, <1>2 DEF Trades, Resting, IInv, IncomingLoose, Fill
    <3>2. CASE id = m
      <4>1. orders'[m].filled > 0 /\ orders'[m].filled \in Nat
        BY <2>2, OrderFields DEF Trades
      <4>2. orders'[m].status = "PARTIALLY_FILLED"
        BY <2>2, <2>3, <3>2 DEF Trades, MakerStatus
      <4> QED BY <3>2, <4>1, <4>2
    <3>3. CASE id # m
      BY <1>1, <2>2, <3>1, <3>3 DEF Trades
    <3> QED BY <3>2, <3>3
  <2> QED BY <2>3 DEF RestingStatus, Resting
<1>3. CASE FinishLimit
  <2>1. /\ Returns /\ orders'[incoming].status = LimitStatus(orders[incoming])
        /\ orders'[incoming].filled = orders[incoming].filled
    BY <1>3, MatchReturns DEF Returns
  <2>2. ASSUME NEW id \in DOMAIN index' PROVE Told(orders'[id])
    <3>1. CASE id = incoming
      <4>1. pc # "idle" /\ incoming \notin Resting
        BY <2>1 DEF Returns, IInv, IncomingLoose
      <4>2. incoming \in DOMAIN orders /\ Remaining(orders[incoming]) > 0
        BY <1>3, <2>1, <2>2, <3>1, <4>1, RestingAfter
           DEF Returns, Resting, FinishLimit, Finish, DrainOver, Fill
      <4> QED BY <2>1, <3>1, <4>2, OrderFields DEF LimitStatus
    <3>2. CASE id # incoming
      BY <1>1, <1>3, <2>1, <2>2, <3>2 DEF Returns, Resting, FinishLimit, RestOrder
    <3> QED BY <3>1, <3>2
  <2> QED BY <2>2 DEF RestingStatus, Resting
<1>4. CASE ~Fill /\ ~FinishLimit
  <2>1. DOMAIN index' \subseteq DOMAIN index
    BY <1>4, RestingAfter
  <2>2. ASSUME NEW id \in DOMAIN index' PROVE orders'[id] = orders[id]
    <3>1. id \in Resting /\ id \in DOMAIN orders
      BY <2>1, <2>2, <1>1 DEF Resting
    <3>2. CASE Returns
      BY <3>1, <3>2 DEF Returns, IInv, IncomingLoose
    <3>3. CASE UNCHANGED orders
      BY <3>3
    <3>4. ASSUME NEW i \in OrderId, NEW side \in Side, NEW type \in OrderType,
                 NEW price \in Price, NEW qty \in OrderQty,
                 Submit(i, side, type, price, qty)
          PROVE  orders'[id] = orders[id]
      BY <3>1, <3>4, Submitted
    <3> QED BY <1>4, <3>2, <3>3, <3>4, StepKinds
  <2> QED BY <1>1, <2>1, <2>2 DEF RestingStatus, Resting
<1> QED BY <1>2, <1>3, <1>4

(***************************************************************************)
(* A resting order is ACCEPTED until its first trade and PARTIALLY_FILLED  *)
(* from then on, whether it traded before it came to rest or since.        *)
(***************************************************************************)
THEOREM StatusTold == Spec => []RestingStatus
<1>1. Init => RestingStatus
  BY DEF Init, RestingStatus, Resting
<1>2. IInv /\ RestingStatus /\ [Next]_vars => RestingStatus'
  BY RestingStatusStep
<1> QED BY <1>1, <1>2, Invariance, PTL DEF Spec

------------------------------------------------------------------------------
(***************************************************************************)
(* The running totals.  Quantity wraps, so a total can be right only while *)
(* what rests on a side stays below 2^64; the code does not check that it  *)
(* does (the FokOverflow run shows what happens when it does not).         *)
(***************************************************************************)
RestingOn(s) == {id \in Resting : orders[id].side = s}

SidesFit == \A s \in Side : SumFunctionOnSet(Open, RestingOn(s)) < QtyMod

LevelsFit == \A s \in Side : \A p \in DOMAIN book[s] :
               SumFunctionOnSet(Open, Queued(s, p)) < QtyMod

\* A quantity that fits does not wrap.
LEMMA NoWrap ==
  ASSUME NEW n \in Nat, n < QtyMod
  PROVE  n % QtyMod = n
OBVIOUS

\* What is queued at a level are finitely many open orders of its side.
LEMMA QueueSums ==
  ASSUME IInv, FinitelyMany, NEW s \in Side, NEW p \in DOMAIN book[s]
  PROVE  /\ IsFiniteSet(Queued(s, p)) /\ Queued(s, p) \subseteq DOMAIN orders
         /\ Queued(s, p) \subseteq RestingOn(s) /\ IsFiniteSet(RestingOn(s))
         /\ RestingOn(s) \subseteq DOMAIN orders
         /\ \A id \in DOMAIN orders : Open[id] \in Nat
         /\ \A id \in Queued(s, p) : Open[id] > 0
         /\ SumFunctionOnSet(Open, Queued(s, p)) \in Nat
         /\ SumFunctionOnSet(Open, Queued(s, p)) <= SumFunctionOnSet(Open, RestingOn(s))
<1>1. Queued(s, p) \subseteq RestingOn(s) /\ RestingOn(s) \subseteq DOMAIN orders
  <2>1. ASSUME NEW id \in Queued(s, p) PROVE id \in RestingOn(s)
    <3>1. id \in Resting /\ orders[id].side = s
      BY QueuedRests
    <3> QED BY <3>1 DEF RestingOn
  <2>2. RestingOn(s) \subseteq DOMAIN orders
    BY RestingOrder DEF RestingOn
  <2> QED BY <2>1, <2>2
<1>2. IsFiniteSet(Queued(s, p)) /\ IsFiniteSet(RestingOn(s))
  BY <1>1, FS_Subset DEF FinitelyMany
<1>3. \A id \in DOMAIN orders : Open[id] \in Nat
  BY OrderFields DEF Open
<1>4. \A id \in Queued(s, p) : Open[id] > 0
  BY <1>1, OrderFields DEF Open, IInv, LiveLevels
<1>5. SumFunctionOnSet(Open, Queued(s, p)) \in Nat
  BY <1>1, <1>2, <1>3, SumNat
<1>6. SumFunctionOnSet(Open, Queued(s, p)) <= SumFunctionOnSet(Open, RestingOn(s))
  BY <1>1, <1>2, <1>3, SumSubset
<1> QED BY <1>1, <1>2, <1>3, <1>4, <1>5, <1>6

LEMMA SidesFitLevels == IInv /\ FinitelyMany /\ SidesFit => LevelsFit
<1> SUFFICES ASSUME IInv, FinitelyMany, SidesFit, NEW s \in Side, NEW p \in DOMAIN book[s]
             PROVE  SumFunctionOnSet(Open, Queued(s, p)) < QtyMod
  BY DEF LevelsFit
<1>1. /\ SumFunctionOnSet(Open, Queued(s, p)) \in Nat
      /\ SumFunctionOnSet(Open, Queued(s, p)) <= SumFunctionOnSet(Open, RestingOn(s))
  BY QueueSums
<1>2. SumFunctionOnSet(Open, RestingOn(s)) \in Nat
  BY QueueSums, SumNat
<1> QED BY <1>1, <1>2 DEF SidesFit

\* A level that a step leaves alone, with the orders queued there.
LEMMA TotalKept ==
  ASSUME IInv, FinitelyMany, TotalsMatch, DOMAIN orders \subseteq DOMAIN orders',
         NEW t \in Side, NEW q \in DOMAIN book[t], book'[t][q] = book[t][q],
         \A id \in Queued(t, q) : /\ orders'[id].filled = orders[id].filled
                                  /\ orders'[id].quantity = orders[id].quantity
  PROVE  book'[t][q].total = SumFunctionOnSet(Open', ToSet(book'[t][q].queue))
<1>1. /\ IsFiniteSet(Queued(t, q)) /\ Queued(t, q) \subseteq DOMAIN orders
  BY QueueSums
<1>2. \A id \in Queued(t, q) : Open[id] = Open'[id]
  BY <1>1 DEF Open, Remaining
<1>3. SumFunctionOnSet(Open, Queued(t, q)) = SumFunctionOnSet(Open', Queued(t, q))
  BY <1>1, <1>2, SumCongruent
<1> QED BY <1>3 DEF TotalsMatch, Queued

\* A trade takes its quantity off the level's total, once.
LEMMA AfterTradeTotal ==
  ASSUME NEW lv \in PriceLevel, NEW o, NEW qty \in Nat, qty <= lv.total,
         IsFilled(o) => Remaining(o) = 0
  PROVE  /\ AfterTrade(lv, o, qty).total = lv.total - qty
         /\ AfterTrade(lv, o, qty).queue = IF IsFilled(o) THEN Tail(lv.queue) ELSE lv.queue
<1>1. lv.total \in Nat /\ lv.total < QtyMod
  BY DEF PriceLevel, Quantity
<1>2. UpdateTotal(lv, qty).total = lv.total - qty /\ UpdateTotal(lv, qty).queue = lv.queue
  BY <1>1 DEF UpdateTotal, PriceLevel
<1>3. lv.total - qty \in Nat /\ lv.total - qty < QtyMod
  BY <1>1
<1>4. CASE IsFilled(o)
  <2>1. (lv.total - qty) - Remaining(o) = lv.total - qty
    BY <1>3, <1>4
  <2>2. (lv.total - qty) % QtyMod = lv.total - qty
    BY <1>3, NoWrap
  <2> QED BY <1>2, <1>4, <2>1, <2>2 DEF AfterTrade, PopFront
<1>5. CASE ~IsFilled(o)
  BY <1>2, <1>5 DEF AfterTrade
<1> QED BY <1>4, <1>5

\* What a trade does to the level it took place at, and to the other levels.
LEMMA FillTotals ==
  ASSUME IInv, FinitelyMany, TotalsMatch,
         NEW s \in Side, NEW p \in DOMAIN book[s], NEW m \in Queued(s, p), NEW qty \in Nat,
         m = Head(book[s][p].queue), Trades(s, p, m, qty)
  PROVE  /\ qty <= book[s][p].total
         /\ DOMAIN book' = Side
         /\ book[s][p].total = qty => DOMAIN book'[s] = DOMAIN book[s] \ {p}
         /\ book[s][p].total # qty => DOMAIN book'[s] = DOMAIN book[s]
         /\ \A q \in DOMAIN book[s] \ {p} : book'[s][q] = book[s][q]
         /\ \A t \in Side \ {s} : book'[t] = book[t]
         /\ p \in DOMAIN book'[s] =>
              /\ book'[s][p].total = book[s][p].total - qty
              /\ book'[s][p].total = SumFunctionOnSet(Open', ToSet(book'[s][p].queue))
<1> DEFINE lv == book[s][p]
           Q == Queued(s, p)
           after == AfterTrade(lv, orders'[m], qty)
           f == Open
           g == Open'
<1>1. /\ lv \in PriceLevel /\ lv.queue \in Seq(OrderId) /\ lv.queue # <<>>
      /\ Distinct(lv.queue) /\ Q = ToSet(lv.queue)
      /\ lv.total \in Nat /\ lv.total = SumFunctionOnSet(f, Q)
  BY LevelFacts DEF Queued, TotalsMatch, PriceLevel, Quantity
<1>2. /\ IsFiniteSet(Q) /\ Q \subseteq DOMAIN orders
      /\ \A id \in Q : f[id] \in Nat /\ f[id] > 0
  BY QueueSums
<1>3. /\ m \in DOMAIN orders /\ DOMAIN orders' = DOMAIN orders
      /\ orders[m].quantity \in Nat /\ orders[m].filled \in Nat
      /\ f[m] = orders[m].quantity - orders[m].filled
      /\ orders'[m].quantity = orders[m].quantity
      /\ orders'[m].filled = orders[m].filled + qty
      /\ qty <= f[m] /\ qty > 0
  BY <1>2, OrderFields DEF Trades, SameTerms, Remaining, Open
<1>4. /\ g[m] = f[m] - qty /\ g[m] \in Nat
      /\ Remaining(orders'[m]) = g[m]
      /\ IsFilled(orders'[m]) <=> g[m] = 0
  <2>1. g[m] = Remaining(orders'[m])
    BY <1>3 DEF Open
  <2>2. Remaining(orders'[m]) = f[m] - qty /\ f[m] - qty \in Nat
    <3> HIDE DEF f, g, lv, Q
    <3> QED BY <1>3 DEF Remaining
  <2>3. IsFilled(orders'[m]) <=> f[m] - qty = 0
    <3> HIDE DEF f, g, lv, Q
    <3> QED BY <1>3 DEF IsFilled
  <2> HIDE DEF f, g, lv, Q
  <2> QED BY <2>1, <2>2, <2>3
<1>5. \A id \in Q \ {m} : g[id] = f[id]
  <2>1. pc = "drain" => incoming \notin Q
    BY QueuedOrder
  <2>2. ASSUME NEW id \in Q \ {m} PROVE g[id] = f[id]
    <3>1. id \in DOMAIN orders
      BY <1>2
    <3>2. id # incoming
      BY <1>2, <2>2, QueuedOrder DEF Trades, Opposite, Side
    <3> QED BY <1>3, <2>2, <3>1, <3>2 DEF Trades, Open
  <2> QED BY <2>2
<1>6. f[m] <= lv.total
  BY <1>1, <1>2, TermAtMostSum
<1>7. qty <= lv.total
  <2>1. f[m] \in Nat /\ lv.total \in Nat /\ qty \in Nat /\ qty <= f[m]
    BY <1>1, <1>2, <1>3
  <2> HIDE DEF f, lv
  <2> QED BY <1>6, <2>1
<1>8. /\ after.total = lv.total - qty
      /\ after.queue = IF g[m] = 0 THEN Tail(lv.queue) ELSE lv.queue
  BY <1>1, <1>4, <1>7, AfterTradeTotal
<1>9. /\ DOMAIN book = Side
      /\ book' = [book EXCEPT ![s] = StoreLevel(@, p, after)]
  BY DEF IInv, TypeOK, BookType, Trades
<1> HIDE DEF f, g, after
<1>10. ToSet(after.queue) = IF g[m] = 0 THEN Q \ {m} ELSE Q
  BY <1>1, <1>8, TailQueue
<1>11. lv.total - qty = SumFunctionOnSet(g, ToSet(after.queue))
  <2>1. CASE g[m] = 0
    <3>1. ToSet(after.queue) = Q \ {m} /\ IsFiniteSet(Q \ {m})
      BY <1>2, <1>10, <2>1, FS_Subset
    <3>2. SumFunctionOnSet(g, Q \ {m}) = SumFunctionOnSet(f, Q \ {m})
      BY <1>5, <3>1, SumCongruent
    <3>3. SumFunctionOnSet(f, Q) = f[m] + SumFunctionOnSet(f, Q \ {m})
      <4>1. m \in Q /\ \A x \in Q : f[x] \in Int
        BY <1>2
      <4> HIDE DEF Q
      <4> QED BY <1>2, <4>1, SumRemove
    <3>4. SumFunctionOnSet(f, Q \ {m}) \in Int
      BY <1>2, <3>1, SumType
    <3>5. f[m] \in Int /\ qty \in Int /\ g[m] = f[m] - qty
          /\ lv.total = SumFunctionOnSet(f, Q)
      BY <1>1, <1>2, <1>4
    <3> HIDE DEF lv, Q
    <3> QED BY <2>1, <3>1, <3>2, <3>3, <3>4, <3>5
  <2>2. CASE g[m] # 0
    <3>1. SumFunctionOnSet(g, Q) = SumFunctionOnSet(f, Q) - f[m] + g[m]
      <4>1. /\ m \in Q /\ \A x \in Q : f[x] \in Int
            /\ g[m] \in Int
        BY <1>2, <1>4
      <4> HIDE DEF Q
      <4> QED BY <1>2, <1>5, <4>1, SumChange
    <3> QED BY <1>1, <1>2, <1>4, <1>10, <2>2, <3>1
  <2> QED BY <2>1, <2>2
<1>12. after.queue = <<>> <=> lv.total = qty
  <2>1. CASE after.queue = <<>>
    <3>1. ToSet(after.queue) = {}
      BY <2>1, EmptyQueue
    <3>2. lv.total - qty = 0
      BY <1>11, <3>1, SumEmpty
    <3> QED BY <1>1, <2>1, <3>2
  <2>2. CASE after.queue # <<>>
    <3>1. after.queue \in Seq(OrderId)
      BY <1>1, <1>8, TailQueue
    <3>2. PICK id : id \in ToSet(after.queue)
      BY <2>2, <3>1, EmptyQueue
    <3>3. /\ IsFiniteSet(ToSet(after.queue))
          /\ \A x \in ToSet(after.queue) : g[x] \in Nat /\ g[x] > 0
      <4>1. ToSet(after.queue) \subseteq Q /\ (g[m] = 0 => m \notin ToSet(after.queue))
        BY <1>10
      <4>2. /\ \A x \in Q : f[x] \in Nat /\ f[x] > 0
            /\ IsFiniteSet(Q) /\ g[m] \in Nat
        BY <1>2, <1>4
      <4> HIDE DEF lv, Q
      <4> QED BY <1>5, <4>1, <4>2, FS_Subset
    <3>4. g[id] <= SumFunctionOnSet(g, ToSet(after.queue))
      BY <3>2, <3>3, TermAtMostSum
    <3> QED BY <1>1, <1>11, <2>2, <3>2, <3>3, <3>4
  <2> QED BY <2>1, <2>2
<1>13. /\ DOMAIN StoreLevel(book[s], p, after) =
            IF after.queue = <<>> THEN DOMAIN book[s] \ {p} ELSE DOMAIN book[s]
       /\ \A q \in DOMAIN StoreLevel(book[s], p, after) :
            StoreLevel(book[s], p, after)[q] = IF q = p THEN after ELSE book[s][q]
  <2> HIDE DEF lv, Q
  <2> QED BY DEF StoreLevel, EraseLevel, SetLevel
<1>14. /\ book'[s] = StoreLevel(book[s], p, after) /\ DOMAIN book' = Side
       /\ \A t \in Side \ {s} : book'[t] = book[t]
  BY <1>9
<1> HIDE DEF lv, Q
<1>15. /\ \A q \in DOMAIN book[s] \ {p} : book'[s][q] = book[s][q]
       /\ p \in DOMAIN book'[s] => book'[s][p] = after
  BY <1>13, <1>14
<1> QED BY <1>7, <1>8, <1>11, <1>12, <1>13, <1>14, <1>15 DEF lv, g

\* restOrder() adds what the order has left to the total of its level.
LEMMA RestTotals ==
  ASSUME IInv, FinitelyMany, TotalsMatch, LevelsFit',
         Returns, RestOrder(incoming, orders[incoming])
  PROVE  TotalsMatch'
<1> DEFINE me  == incoming
           s   == orders[me].side
           p   == orders[me].price
           rem == Remaining(orders[me])
           old == IF p \in DOMAIN book[s] THEN book[s][p] ELSE EmptyLevel
           Q   == ToSet(old.queue)
           lv  == AddToLevel(old, me, rem)
           g   == Open'
<1>1. /\ me \in DOMAIN orders /\ me \in OrderId /\ me \notin Resting /\ s \in Side
      /\ rem \in Nat /\ DOMAIN orders' = DOMAIN orders
      /\ \A id \in DOMAIN orders : /\ g[id] = Open[id] /\ g[id] \in Nat
                                   /\ orders'[id].filled = orders[id].filled
                                   /\ orders'[id].quantity = orders[id].quantity
  <2>1. me \in DOMAIN orders /\ me \in OrderId /\ me \notin Resting
    BY DEF Returns, IInv, TypeOK, OrdersType, IncomingLoose
  <2>2. s \in Side /\ rem \in Nat
    BY <2>1, OrderFields
  <2>3. /\ DOMAIN orders' = DOMAIN orders
        /\ \A id \in DOMAIN orders : /\ orders'[id].filled = orders[id].filled
                                     /\ orders'[id].quantity = orders[id].quantity
    BY DEF Returns, SameTerms
  <2>4. \A id \in DOMAIN orders : g[id] = Open[id] /\ Open[id] \in Nat
    BY <2>3, OrderFields DEF Open, Remaining
  <2> QED BY <2>1, <2>2, <2>3, <2>4
<1>2. /\ old.queue \in Seq(OrderId) /\ Distinct(old.queue) /\ old.total \in Nat
      /\ me \notin Q /\ IsFiniteSet(Q) /\ Q \subseteq DOMAIN orders
      /\ old.total = SumFunctionOnSet(g, Q)
  <2>1. CASE p \in DOMAIN book[s]
    <3>1. old = book[s][p] /\ Q = Queued(s, p)
      BY <2>1 DEF Queued
    <3>2. me \notin Queued(s, p)
      BY <1>1, <2>1, QueuedOrder DEF Returns
    <3>3. /\ book[s][p].queue \in Seq(OrderId) /\ Distinct(book[s][p].queue)
          /\ book[s][p].total \in Nat
      BY <1>1, <2>1, LevelFacts DEF PriceLevel, Quantity
    <3>4. IsFiniteSet(Queued(s, p)) /\ Queued(s, p) \subseteq DOMAIN orders
      BY <1>1, <2>1, QueueSums
    <3>5. SumFunctionOnSet(Open, Queued(s, p)) = SumFunctionOnSet(g, Queued(s, p))
      BY <1>1, <3>4, SumCongruent
    <3> HIDE DEF g
    <3> QED BY <1>1, <2>1, <3>1, <3>2, <3>3, <3>4, <3>5 DEF TotalsMatch
  <2>2. CASE p \notin DOMAIN book[s]
    <3>1. old = EmptyLevel
      BY <2>2
    <3>2. old.queue = <<>> /\ old.total = 0 /\ Q = {}
      BY <3>1, EmptyQueue DEF EmptyLevel
    <3> HIDE DEF old, Q, g
    <3>3. SumFunctionOnSet(g, Q) = 0 /\ IsFiniteSet(Q)
      BY <3>2, SumEmpty, FS_EmptySet
    <3> QED BY <3>2, <3>3, EmptyQueue DEF Distinct
  <2> QED BY <2>1, <2>2
<1>3. /\ DOMAIN book = Side /\ book'[s] = SetLevel(book[s], p, lv)
      /\ \A t \in Side \ {s} : book'[t] = book[t]
  BY <1>1 DEF RestOrder, IInv, TypeOK, BookType
<1>4. /\ lv.queue = Append(old.queue, me) /\ lv.total = (old.total + rem) % QtyMod
  BY DEF AddToLevel
<1>5. g[me] = rem
  BY <1>1 DEF Open
<1> HIDE DEF old, Q, lv, rem, g
<1>6. /\ DOMAIN book'[s] = DOMAIN book[s] \cup {p} /\ book'[s][p] = lv
      /\ \A q \in DOMAIN book[s] \ {p} : book'[s][q] = book[s][q]
  BY <1>3 DEF SetLevel
<1>7. ToSet(lv.queue) = Q \cup {me}
  BY <1>1, <1>2, <1>4, AppendQueue DEF Q
<1>8. lv.total = SumFunctionOnSet(g, ToSet(lv.queue))
  <2>1. SumFunctionOnSet(g, Q \cup {me}) = g[me] + SumFunctionOnSet(g, Q)
    <3>1. (\A x \in Q : g[x] \in Int) /\ g[me] \in Int
      BY <1>1, <1>2
    <3> HIDE DEF me
    <3> QED BY <1>2, <3>1, SumAdd
  <2>2. old.total + rem = SumFunctionOnSet(g, ToSet(lv.queue))
    BY <1>1, <1>2, <1>5, <1>7, <2>1
  <2>3. SumFunctionOnSet(g, ToSet(lv.queue)) < QtyMod
    <3>1. p \in DOMAIN book'[s]
      BY <1>6
    <3>2. SumFunctionOnSet(g, ToSet(book'[s][p].queue)) < QtyMod
      BY <1>1, <3>1 DEF LevelsFit, Queued, g
    <3> QED BY <1>6, <3>2
  <2>4. old.total + rem \in Nat /\ old.total + rem < QtyMod
    <3>1. rem \in Nat
      BY <1>1 DEF rem
    <3> QED BY <1>2, <2>2, <2>3, <3>1
  <2>5. (old.total + rem) % QtyMod = old.total + rem
    BY <2>4, NoWrap
  <2> QED BY <1>4, <2>2, <2>5
<1>9. ASSUME NEW t \in Side, NEW q \in DOMAIN book'[t]
      PROVE  book'[t][q].total = SumFunctionOnSet(g, ToSet(book'[t][q].queue))
  <2>1. CASE t = s /\ q = p
    BY <1>6, <1>8, <2>1
  <2>2. CASE t # s \/ q # p
    <3>1. q \in DOMAIN book[t] /\ book'[t][q] = book[t][q]
      BY <1>3, <1>6, <1>9, <2>2
    <3>2. Queued(t, q) \subseteq DOMAIN orders
      BY <3>1, QueueSums
    <3> QED BY <1>1, <3>1, <3>2, TotalKept DEF g
  <2> QED BY <2>1, <2>2
<1> QED BY <1>9 DEF TotalsMatch, Queued, g

\* cancelOrder() takes what the order had left off the total of its level.
LEMMA CancelTotals ==
  ASSUME IInv, FinitelyMany, TotalsMatch, NEW id \in OrderId, CancelOrder(id)
  PROVE  TotalsMatch'
<1> DEFINE s   == index[id].side
           p   == index[id].price
           rem == Remaining(orders[id])
           old == book[s][p]
           Q   == Queued(s, p)
           lv  == RemoveFromLevel(old, id, rem)
<1>1. /\ id \in Resting /\ s \in Side /\ p \in DOMAIN book[s] /\ id \in Q
      /\ UNCHANGED orders /\ book' = [book EXCEPT ![s] = CancelAt(@, p, id)]
  BY DEF CancelOrder, IInv, TypeOK, IndexType, IndexExact, Resting, Location
<1>2. /\ old.queue \in Seq(OrderId) /\ Distinct(old.queue) /\ Q = ToSet(old.queue)
      /\ old.total \in Nat /\ old.total < QtyMod
      /\ old.total = SumFunctionOnSet(Open, Q)
  BY <1>1, LevelFacts DEF PriceLevel, Quantity, Queued, TotalsMatch
<1>3. /\ IsFiniteSet(Q) /\ Q \subseteq DOMAIN orders
      /\ \A x \in DOMAIN orders : Open[x] \in Nat
  BY <1>1, QueueSums
<1>4. Open[id] = rem /\ rem \in Nat
  BY <1>1, <1>3 DEF Open
<1>5. /\ lv.queue = RemoveFirst(old.queue, id)
      /\ lv.total = (old.total - rem) % QtyMod
  BY <1>1, <1>2 DEF RemoveFromLevel
<1>6. /\ DOMAIN book = Side /\ book'[s] = StoreLevel(book[s], p, lv)
      /\ \A t \in Side \ {s} : book'[t] = book[t]
  BY <1>1 DEF IInv, TypeOK, BookType, CancelAt
<1> HIDE DEF lv, rem
<1>7. /\ p \in DOMAIN book'[s] => book'[s][p] = lv
      /\ \A q \in DOMAIN book'[s] \ {p} : q \in DOMAIN book[s] /\ book'[s][q] = book[s][q]
  BY <1>6 DEF StoreLevel, EraseLevel, SetLevel
<1>8. ToSet(lv.queue) = Q \ {id}
  BY <1>1, <1>2, <1>5, RemoveQueue
<1>9. lv.total = SumFunctionOnSet(Open, ToSet(lv.queue))
  <2> HIDE DEF Q, old
  <2>1. id \in Q /\ (\A x \in Q : Open[x] \in Nat) /\ (\A x \in Q : Open[x] \in Int)
    BY <1>1, <1>3
  <2>2. SumFunctionOnSet(Open, Q) = Open[id] + SumFunctionOnSet(Open, Q \ {id})
    BY <1>3, <2>1, SumRemove
  <2>3. SumFunctionOnSet(Open, Q \ {id}) \in Nat
    <3>1. IsFiniteSet(Q \ {id})
      BY <1>3, FS_Subset
    <3> QED BY <2>1, <3>1, SumNat
  <2>4. old.total - rem = SumFunctionOnSet(Open, Q \ {id})
    BY <1>2, <1>4, <2>2, <2>3
  <2>5. old.total - rem \in Nat /\ old.total - rem < QtyMod
    BY <1>2, <1>4, <2>3, <2>4
  <2>6. (old.total - rem) % QtyMod = old.total - rem
    BY <2>5, NoWrap
  <2> QED BY <1>5, <1>8, <2>4, <2>6
<1>10. Open' = Open
  BY <1>1 DEF Open
<1>11. ASSUME NEW t \in Side, NEW q \in DOMAIN book'[t]
       PROVE  book'[t][q].total = SumFunctionOnSet(Open', ToSet(book'[t][q].queue))
  <2>1. CASE t = s /\ q = p
    BY <1>7, <1>9, <1>10, <1>11, <2>1
  <2>2. CASE t # s \/ q # p
    <3>1. q \in DOMAIN book[t] /\ book'[t][q] = book[t][q]
      BY <1>6, <1>7, <1>11, <2>2
    <3> QED BY <1>1, <3>1, TotalKept
  <2> QED BY <2>1, <2>2
<1> QED BY <1>11 DEF TotalsMatch, Queued

\* Only a trade changes what an order has left.
LEMMA KeptIfNoFill ==
  ASSUME IInv, [Next]_vars, ~Fill
  PROVE  /\ DOMAIN orders \subseteq DOMAIN orders'
         /\ \A id \in DOMAIN orders : /\ orders'[id].filled = orders[id].filled
                                      /\ orders'[id].quantity = orders[id].quantity
<1>1. ASSUME NEW i \in OrderId, NEW side \in Side, NEW type \in OrderType,
             NEW price \in Price, NEW qty \in OrderQty,
             Submit(i, side, type, price, qty)
      PROVE  /\ DOMAIN orders \subseteq DOMAIN orders'
             /\ \A id \in DOMAIN orders : orders'[id] = orders[id]
  <2>1. DOMAIN orders' = DOMAIN orders \cup {i}
    BY <1>1, Submitted
  <2>2. \A id \in DOMAIN orders : orders'[id] = orders[id]
    BY <1>1, Submitted
  <2> QED BY <2>1, <2>2
<1>2. CASE Returns
  BY <1>2 DEF Returns, SameTerms
<1>3. CASE UNCHANGED orders
  BY <1>3
<1> QED BY <1>1, <1>2, <1>3, StepKinds

LEMMA TotalsStep ==
  ASSUME IInv, FinitelyMany, TotalsMatch, LevelsFit', [Next]_vars
  PROVE  TotalsMatch'
<1>1. CASE Fill
  <2>1. PICK s \in Side : \E p \in DOMAIN book[s] : \E m \in Queued(s, p), qty \in Nat :
          m = Head(book[s][p].queue) /\ Trades(s, p, m, qty)
    BY <1>1, FillTrades
  <2>2. PICK p \in DOMAIN book[s] : \E m \in Queued(s, p), qty \in Nat :
          m = Head(book[s][p].queue) /\ Trades(s, p, m, qty)
    BY <2>1
  <2>3. PICK m \in Queued(s, p), qty \in Nat :
          m = Head(book[s][p].queue) /\ Trades(s, p, m, qty)
    BY <2>2
  <2>4. /\ DOMAIN book'[s] \subseteq DOMAIN book[s]
        /\ \A q \in DOMAIN book[s] \ {p} : book'[s][q] = book[s][q]
        /\ \A t \in Side \ {s} : book'[t] = book[t]
        /\ p \in DOMAIN book'[s] =>
             book'[s][p].total = SumFunctionOnSet(Open', ToSet(book'[s][p].queue))
    BY <2>3, FillTotals
  <2>5. ASSUME NEW t \in Side, NEW q \in DOMAIN book'[t]
        PROVE  book'[t][q].total = SumFunctionOnSet(Open', ToSet(book'[t][q].queue))
    <3>1. CASE t = s /\ q = p
      BY <2>4, <2>5, <3>1
    <3>2. CASE t # s \/ q # p
      <4>1. q \in DOMAIN book[t] /\ book'[t][q] = book[t][q]
        BY <2>4, <2>5, <3>2
      <4>2. m \notin Queued(t, q)
        <5>1. index[m] = [side |-> s, price |-> p]
          BY <2>3, QueuedOrder
        <5>2. m \in Queued(t, q) => index[m] = [side |-> t, price |-> q]
          BY <4>1, QueuedOrder
        <5> QED BY <3>2, <5>1, <5>2
      <4>3. Queued(t, q) \subseteq DOMAIN orders /\ incoming \notin Queued(t, q)
        BY <1>1, <4>1, QueueSums, QueuedOrder DEF Fill
      <4>4. DOMAIN orders' = DOMAIN orders
        BY <2>3 DEF Trades, SameTerms
      <4>5. \A id \in Queued(t, q) : orders'[id] = orders[id]
        BY <2>3, <4>2, <4>3 DEF Trades
      <4> QED BY <4>1, <4>4, <4>5, TotalKept
    <3> QED BY <3>1, <3>2
  <2> QED BY <2>5 DEF TotalsMatch, Queued
<1>2. CASE FinishLimit /\ RestOrder(incoming, orders[incoming])
  BY <1>2, MatchReturns, RestTotals
<1>3. ASSUME NEW id \in OrderId, CancelOrder(id) PROVE TotalsMatch'
  BY <1>3, CancelTotals
<1>4. ASSUME UNCHANGED book, ~Fill PROVE TotalsMatch'
  <2>1. /\ DOMAIN orders \subseteq DOMAIN orders'
        /\ \A id \in DOMAIN orders : /\ orders'[id].filled = orders[id].filled
                                     /\ orders'[id].quantity = orders[id].quantity
    BY <1>4, KeptIfNoFill
  <2>2. ASSUME NEW t \in Side, NEW q \in DOMAIN book[t], NEW id \in Queued(t, q)
        PROVE  /\ orders'[id].filled = orders[id].filled
               /\ orders'[id].quantity = orders[id].quantity
    BY <2>1, QueuedOrder
  <2> QED BY <1>4, <2>1, <2>2, TotalKept DEF TotalsMatch, Queued
<1> QED BY <1>1, <1>2, <1>3, <1>4
        DEF Next, Submit, Match, FokPass, FokKill, FinishLimit, FinishMarket,
            FinishIoc, FinishFok, vars

LEMMA InitTotals == Init => FinitelyMany /\ TotalsMatch
<1> SUFFICES ASSUME Init PROVE FinitelyMany /\ TotalsMatch
  OBVIOUS
<1>1. DOMAIN orders = {} /\ \A s \in Side : DOMAIN book[s] = {}
  BY DEF Init
<1> QED BY <1>1, FS_EmptySet DEF FinitelyMany, TotalsMatch

LEMMA FiniteOrders == Spec => []FinitelyMany
<1>1. IInv /\ FinitelyMany /\ [Next]_vars => FinitelyMany'
  BY FiniteStep
<1> QED BY <1>1, InitTotals, Invariance, PTL DEF Spec

(***************************************************************************)
(* As long as what rests on each side stays below 2^64, a level's running  *)
(* total is what its orders have left, after any partial fills, pops and   *)
(* cancels.  The premise is needed, and is about the state, not about the  *)
(* callers: the clamp in updateTotal() makes a total that has once wrapped *)
(* wrong for as long as the level exists.                                  *)
(***************************************************************************)
THEOREM TotalsExact == Spec /\ []SidesFit => []TotalsMatch
<1>1. IInv /\ FinitelyMany /\ TotalsMatch /\ LevelsFit' /\ [Next]_vars => TotalsMatch'
  BY TotalsStep
<1> QED BY <1>1, InitTotals, Invariance, FiniteOrders, SidesFitLevels, PTL DEF Spec

------------------------------------------------------------------------------
(***************************************************************************)
(* Fill or kill.  The pre-check adds the totals of the levels the order    *)
(* crosses; the loop takes from the orders in them.  While the loop of a   *)
(* FOK order runs, what it still wants is on offer: each trade takes the   *)
(* same quantity off both.                                                 *)
(***************************************************************************)
LevelTotals(s) == [q \in DOMAIN book[s] |-> book[s][q].total]

Reach(o) == {p \in DOMAIN book[Opposite(o.side)] : Crosses(o, p)}

Offered(o) == SumFunctionOnSet(LevelTotals(Opposite(o.side)), Reach(o))

FokCovered ==
  /\ pc = "precheck" => orders[incoming].filled = 0
  /\ pc = "drain" /\ orders[incoming].type = "FOK" =>
       Remaining(orders[incoming]) <= Offered(orders[incoming])

\* The levels of a side are finitely many, with natural totals.
LEMMA OfferSums ==
  ASSUME IInv, NEW s \in Side, NEW P \in SUBSET DOMAIN book[s]
  PROVE  /\ IsFiniteSet(DOMAIN book[s]) /\ IsFiniteSet(P)
         /\ \A q \in DOMAIN book[s] : LevelTotals(s)[q] \in Nat
         /\ SumFunctionOnSet(LevelTotals(s), P) \in Nat
<1>1. DOMAIN book[s] \subseteq MinPrice .. MaxPrice
  BY DEF IInv, TypeOK, BookType, Price
<1>2. IsFiniteSet(MinPrice .. MaxPrice)
  <2>1. MinPrice \in Int /\ MaxPrice \in Int
    OBVIOUS
  <2> QED BY <2>1, FS_Interval
<1>3. IsFiniteSet(DOMAIN book[s]) /\ IsFiniteSet(P)
  BY <1>1, <1>2, FS_Subset
<1>4. \A q \in DOMAIN book[s] : LevelTotals(s)[q] \in Nat
  BY LevelFacts DEF LevelTotals, PriceLevel, Quantity
<1>5. SumFunctionOnSet(LevelTotals(s), P) \in Nat
  BY <1>3, <1>4, SumNat
<1> QED BY <1>3, <1>4, <1>5

\* If the pre-check passes, the quantity is on offer.
LEMMA PrecheckCovers ==
  ASSUME IInv, NEW id \in DOMAIN orders, CanFill(orders[id])
  PROVE  orders[id].quantity <= Offered(orders[id])
<1> DEFINE o == orders[id]
           s == Opposite(o.side)
           f == LevelTotals(s)
<1>1. /\ o.side \in Side /\ s \in Side /\ o.price \in Int /\ o.quantity \in Nat
  BY OrderFields DEF Opposite, Side, Price
<1>2. PICK p \in DOMAIN book[s] : Crosses(o, p) /\ Available(s, p) >= o.quantity
  BY DEF CanFill
<1> DEFINE P == {q \in DOMAIN book[s] : AtLeastAsGood(s, q, p)}
<1>3. DOMAIN book[s] \subseteq Int
  BY <1>1 DEF IInv, TypeOK, BookType, Price
<1>4. P \subseteq Reach(o)
  BY <1>1, <1>2, <1>3 DEF AtLeastAsGood, Reach, Crosses, Opposite, Side
<1>5. /\ IsFiniteSet(Reach(o)) /\ Reach(o) \subseteq DOMAIN book[s]
      /\ \A q \in Reach(o) : f[q] \in Nat
      /\ SumFunctionOnSet(f, Reach(o)) \in Nat
      /\ SumFunctionOnSet(f, P) \in Nat
  BY <1>1, OfferSums DEF Reach
<1>6. SumFunctionOnSet(f, P) <= SumFunctionOnSet(f, Reach(o))
  <2> HIDE DEF f, P
  <2> QED BY <1>4, <1>5, SumSubset
<1>7. Available(s, p) = SumFunctionOnSet(f, P) % QtyMod
  BY DEF Available, LevelTotals
<1>8. SumFunctionOnSet(f, P) % QtyMod <= SumFunctionOnSet(f, P)
  <2> HIDE DEF f, P
  <2>1. ASSUME NEW n \in Nat PROVE n % QtyMod <= n
    OBVIOUS
  <2> QED BY <1>5, <2>1
<1>9. Offered(o) = SumFunctionOnSet(f, Reach(o))
  BY DEF Offered
<1>10. SumFunctionOnSet(f, P) % QtyMod \in Int
  <2> HIDE DEF f, P
  <2> QED BY <1>5
<1> HIDE DEF f, P, o, s
<1>11. o.quantity <= Offered(o)
  BY <1>1, <1>2, <1>5, <1>6, <1>7, <1>8, <1>9, <1>10
<1> QED BY <1>11 DEF o

\* A trade takes its quantity off what is on offer.
LEMMA FillOffers ==
  ASSUME IInv, FinitelyMany, TotalsMatch, Fill
  PROVE  /\ SameTerms /\ UNCHANGED <<incoming, pc>> /\ incoming \in DOMAIN orders
         /\ \E qty \in Nat :
              /\ Offered(orders[incoming])' = Offered(orders[incoming]) - qty
              /\ Remaining(orders'[incoming]) = Remaining(orders[incoming]) - qty
<1>1. PICK s \in Side : \E p \in DOMAIN book[s] : \E m \in Queued(s, p), qty \in Nat :
        /\ m = Head(book[s][p].queue) /\ s = Opposite(orders[incoming].side)
        /\ Crosses(orders[incoming], p) /\ Trades(s, p, m, qty)
  BY FillTrades
<1>2. PICK p \in DOMAIN book[s] : \E m \in Queued(s, p), qty \in Nat :
        /\ m = Head(book[s][p].queue) /\ s = Opposite(orders[incoming].side)
        /\ Crosses(orders[incoming], p) /\ Trades(s, p, m, qty)
  BY <1>1
<1>3. PICK m \in Queued(s, p), qty \in Nat :
        /\ m = Head(book[s][p].queue) /\ s = Opposite(orders[incoming].side)
        /\ Crosses(orders[incoming], p) /\ Trades(s, p, m, qty)
  BY <1>2
<1> DEFINE o == orders[incoming]
           R == Reach(o)
           f == LevelTotals(s)
           g == LevelTotals(s)'
<1>4. /\ incoming \in DOMAIN orders /\ SameTerms /\ UNCHANGED <<incoming, pc>>
      /\ orders'[incoming].filled = o.filled + qty
      /\ orders'[incoming].side = o.side /\ orders'[incoming].price = o.price
      /\ orders'[incoming].type = o.type /\ orders'[incoming].quantity = o.quantity
  BY <1>3 DEF Trades, SameTerms
<1>5. Remaining(orders'[incoming]) = Remaining(o) - qty
  BY <1>4, OrderFields DEF Remaining
<1>6. /\ qty <= book[s][p].total
      /\ book[s][p].total = qty => DOMAIN book'[s] = DOMAIN book[s] \ {p}
      /\ book[s][p].total # qty => DOMAIN book'[s] = DOMAIN book[s]
      /\ \A q \in DOMAIN book[s] \ {p} : book'[s][q] = book[s][q]
      /\ p \in DOMAIN book'[s] => book'[s][p].total = book[s][p].total - qty
  <2>1. m = Head(book[s][p].queue) /\ Trades(s, p, m, qty)
    BY <1>3
  <2> HIDE DEF o, R, f, g
  <2> QED BY <2>1, FillTotals
<1>7. /\ IsFiniteSet(R) /\ R \subseteq DOMAIN book[s] /\ p \in R
      /\ \A q \in R : f[q] \in Nat
      /\ \A q \in R : f[q] \in Int
      /\ SumFunctionOnSet(f, R) \in Nat
  <2>1. R \subseteq DOMAIN book[s] /\ p \in R
    BY <1>3 DEF Reach
  <2> HIDE DEF R
  <2> QED BY <2>1, OfferSums
<1>8. Reach(o)' = IF book[s][p].total = qty THEN R \ {p} ELSE R
  BY <1>3, <1>4, <1>6 DEF Reach, Crosses
<1>9. Offered(o) = SumFunctionOnSet(f, R) /\ Offered(o)' = SumFunctionOnSet(g, Reach(o)')
  BY <1>3, <1>4 DEF Offered
<1>10. /\ f[p] = book[s][p].total
       /\ \A q \in DOMAIN book'[s] \ {p} : q \in DOMAIN book[s] /\ g[q] = f[q]
       /\ p \in DOMAIN book'[s] => g[p] = f[p] - qty
  BY <1>6 DEF LevelTotals
<1>11. SumFunctionOnSet(g, Reach(o)') = SumFunctionOnSet(f, R) - qty
  <2>1. CASE book[s][p].total = qty
    <3>1. Reach(o)' = R \ {p} /\ DOMAIN book'[s] = DOMAIN book[s] \ {p}
      BY <1>6, <1>8, <2>1
    <3>2. IsFiniteSet(R \ {p}) /\ \A q \in R \ {p} : g[q] = f[q]
      BY <1>7, <1>10, <3>1, FS_Subset
    <3> HIDE DEF f, g, R
    <3>3. SumFunctionOnSet(g, R \ {p}) = SumFunctionOnSet(f, R \ {p})
      BY <3>2, SumCongruent
    <3>4. SumFunctionOnSet(f, R) = f[p] + SumFunctionOnSet(f, R \ {p})
      BY <1>7, SumRemove
    <3>5. SumFunctionOnSet(f, R \ {p}) \in Int
      BY <1>7, <3>2, SumType
    <3> QED BY <1>7, <1>10, <2>1, <3>1, <3>3, <3>4, <3>5
  <2>2. CASE book[s][p].total # qty
    <3>1. Reach(o)' = R /\ DOMAIN book'[s] = DOMAIN book[s]
      BY <1>6, <1>8, <2>2
    <3>2. g[p] = f[p] - qty /\ g[p] \in Int /\ \A q \in R \ {p} : g[q] = f[q]
      BY <1>7, <1>10, <3>1
    <3> HIDE DEF f, g, R
    <3>3. SumFunctionOnSet(g, R) = SumFunctionOnSet(f, R) - f[p] + g[p]
      BY <1>7, <3>2, SumChange
    <3> QED BY <1>7, <3>1, <3>2, <3>3
  <2> QED BY <2>1, <2>2
<1> HIDE DEF f, g, R
<1> QED BY <1>4, <1>5, <1>9, <1>11

LEMMA CoveredStep ==
  ASSUME IInv, FinitelyMany, TotalsMatch, FokCovered, [Next]_vars
  PROVE  FokCovered'
<1>1. CASE Fill
  <2>1. SameTerms /\ UNCHANGED <<incoming, pc>> /\ incoming \in DOMAIN orders
    BY <1>1, FillOffers
  <2>2. PICK qty \in Nat :
          /\ Offered(orders[incoming])' = Offered(orders[incoming]) - qty
          /\ Remaining(orders'[incoming]) = Remaining(orders[incoming]) - qty
    BY <1>1, FillOffers
  <2>3. pc = "drain" /\ orders'[incoming].type = orders[incoming].type
    BY <1>1, <2>1 DEF Fill, SameTerms
  <2>4. Offered(orders[incoming]) \in Nat /\ Remaining(orders[incoming]) \in Nat
    <3>1. Opposite(orders[incoming].side) \in Side
      BY DEF Opposite, Side
    <3>2. Reach(orders[incoming]) \in SUBSET DOMAIN book[Opposite(orders[incoming].side)]
      BY DEF Reach
    <3> QED BY <2>1, <3>1, <3>2, OfferSums, OrderFields DEF Offered
  <2> QED BY <2>1, <2>2, <2>3, <2>4 DEF FokCovered
<1>2. CASE FokPass
  <2>1. /\ pc = "precheck" /\ CanFill(orders[incoming]) /\ pc' = "drain"
        /\ UNCHANGED <<orders, book, incoming>> /\ incoming \in DOMAIN orders
    BY <1>2 DEF FokPass, IInv, TypeOK, CallType
  <2>2. orders[incoming].filled = 0
    BY <2>1 DEF FokCovered
  <2>3. orders[incoming].quantity <= Offered(orders[incoming])
    BY <2>1, PrecheckCovers
  <2>4. Remaining(orders[incoming]) = orders[incoming].quantity
    BY <2>1, <2>2, OrderFields DEF Remaining
  <2>5. Offered(orders[incoming])' = Offered(orders[incoming])
    BY <2>1 DEF Offered, LevelTotals, Reach
  <2> QED BY <2>1, <2>3, <2>4, <2>5 DEF FokCovered
<1>3. ASSUME NEW id \in OrderId, NEW side \in Side, NEW type \in OrderType,
             NEW price \in Price, NEW qty \in OrderQty,
             Submit(id, side, type, price, qty)
      PROVE  FokCovered'
  <2>1. /\ incoming' = id /\ orders'[id].filled = 0 /\ orders'[id].type = type
        /\ pc' = IF type = "FOK" THEN "precheck" ELSE "drain"
    BY <1>3, Submitted
  <2> QED BY <2>1 DEF FokCovered
<1>4. CASE Returns
  BY <1>4 DEF Returns, FokCovered
<1>5. ASSUME NEW id \in OrderId, CancelOrder(id) PROVE FokCovered'
  BY <1>5 DEF CancelOrder, FokCovered
<1>6. CASE UNCHANGED vars
  BY <1>6 DEF vars, FokCovered, Offered, LevelTotals, Reach
<1> QED BY <1>1, <1>2, <1>3, <1>4, <1>5, <1>6, MatchReturns DEF Next, Match

\* The loop ends a FOK order's call with nothing wanted.
LEMMA CoveredFilled ==
  ASSUME IInv, FokCovered, DrainOver, orders[incoming].type = "FOK"
  PROVE  orders[incoming].filled = orders[incoming].quantity
<1> DEFINE o == orders[incoming]
           s == Opposite(o.side)
<1>1. incoming \in DOMAIN orders /\ s \in Side
  BY DEF DrainOver, IInv, TypeOK, CallType, Opposite, Side
<1>2. CASE IsFilled(o)
  BY <1>1, <1>2, OrderFields DEF IsFilled
<1>3. CASE ~IsFilled(o)
  <2>1. Reach(o) = {}
    BY <1>1, <1>3, DrainedUncrossed DEF Reach
  <2>2. Offered(o) = 0
    BY <2>1, SumEmpty DEF Offered
  <2>3. Remaining(o) <= 0
    BY <2>2 DEF FokCovered, DrainOver
  <2> QED BY <1>1, <1>3, <2>3, OrderFields
<1> QED BY <1>2, <1>3

\* What rests is a LIMIT order.
LEMMA QueuedType ==
  ASSUME IInv, NEW s \in Side, NEW p \in DOMAIN book[s], NEW id \in Queued(s, p)
  PROVE  orders[id].type = "LIMIT"
<1>1. index[id] = [side |-> s, price |-> p] /\ orders[id].type = "LIMIT"
  BY QueuedOrder
<1> QED BY <1>1

LEMMA FokStep ==
  ASSUME IInv, FinitelyMany, FokCovered, FokAllOrNothing, [Next]_vars
  PROVE  FokAllOrNothing'
<1> DEFINE Done(o) == o.type = "FOK" =>
                        \/ o.filled = o.quantity /\ o.status = "FILLED"
                        \/ o.filled = 0 /\ o.status = "CANCELLED"
<1>1. ASSUME NEW id \in DOMAIN orders, id # incoming \/ pc = "idle" PROVE Done(orders[id])
  BY <1>1 DEF FokAllOrNothing
<1>2. CASE Fill
  <2>1. PICK s \in Side : \E p \in DOMAIN book[s] : \E m \in Queued(s, p), qty \in Nat :
          Trades(s, p, m, qty)
    BY <1>2, FillTrades
  <2>2. PICK p \in DOMAIN book[s] : \E m \in Queued(s, p), qty \in Nat :
          Trades(s, p, m, qty)
    BY <2>1
  <2>3. PICK m \in Queued(s, p), qty \in Nat : Trades(s, p, m, qty)
    BY <2>2
  <2>4. m \in DOMAIN orders /\ orders[m].type = "LIMIT"
    <3>1. m \in DOMAIN orders
      BY QueuedOrder
    <3>2. orders[m].type = "LIMIT"
      BY QueuedType
    <3> QED BY <3>1, <3>2
  <2>5. DOMAIN orders' = DOMAIN orders /\ orders'[m].type = "LIMIT" /\ pc' # "idle"
        /\ incoming' = incoming
    BY <1>2, <2>3, <2>4 DEF Trades, SameTerms, Fill
  <2>6. ASSUME NEW id \in DOMAIN orders, id # incoming PROVE Done(orders'[id])
    BY <1>1, <2>3, <2>4, <2>5, <2>6 DEF Trades
  <2> QED BY <2>5, <2>6 DEF FokAllOrNothing
<1>3. ASSUME NEW id \in OrderId, NEW side \in Side, NEW type \in OrderType,
             NEW price \in Price, NEW qty \in OrderQty,
             Submit(id, side, type, price, qty)
      PROVE  FokAllOrNothing'
  <2>1. /\ pc = "idle" /\ incoming' = id /\ pc' # "idle"
        /\ DOMAIN orders' = DOMAIN orders \cup {id}
        /\ \A i \in DOMAIN orders : orders'[i] = orders[i]
    BY <1>3, Submitted
  <2>2. ASSUME NEW i \in DOMAIN orders', i # id PROVE Done(orders'[i])
    BY <1>1, <2>1, <2>2
  <2> QED BY <2>1, <2>2 DEF FokAllOrNothing
<1>4. CASE Returns
  <2>1. /\ DOMAIN orders' = DOMAIN orders /\ incoming' = incoming /\ pc # "idle"
        /\ orders'[incoming].filled = orders[incoming].filled
        /\ orders'[incoming].quantity = orders[incoming].quantity
        /\ orders'[incoming].type = orders[incoming].type
        /\ incoming \in DOMAIN orders
    BY <1>4 DEF Returns, SameTerms
  <2>2. Done(orders'[incoming])
    <3>1. CASE FokKill
      BY <2>1, <3>1, MatchReturns DEF FokKill, FokCovered
    <3>2. CASE FinishFok
      <4>1. DrainOver /\ orders[incoming].type = "FOK"
        BY <3>2 DEF FinishFok, Finish
      <4> QED BY <2>1, <3>2, <4>1, MatchReturns, CoveredFilled
    <3>3. CASE FinishLimit \/ FinishMarket \/ FinishIoc
      BY <2>1, <3>3 DEF FinishLimit, FinishMarket, FinishIoc, Finish
    <3>4. pc' # pc
      BY <1>4 DEF Returns
    <3>5. FokKill \/ FinishFok \/ FinishLimit \/ FinishMarket \/ FinishIoc
      <4>1. ~Fill /\ ~FokPass
        BY <1>4 DEF Returns, Fill, FillAt, FokPass
      <4>2. Match
        BY <2>1, <3>4 DEF Next, Submit, CancelOrder, vars
      <4> QED BY <4>1, <4>2 DEF Match
    <3> QED BY <3>1, <3>2, <3>3, <3>5
  <2>3. ASSUME NEW id \in DOMAIN orders, id # incoming PROVE Done(orders'[id])
    BY <1>1, <1>4, <2>3 DEF Returns
  <2> QED BY <2>1, <2>2, <2>3 DEF FokAllOrNothing
<1>5. CASE FokPass
  BY <1>5 DEF FokPass, FokAllOrNothing
<1>6. ASSUME NEW id \in OrderId, CancelOrder(id) PROVE FokAllOrNothing'
  BY <1>6 DEF CancelOrder, FokAllOrNothing
<1>7. CASE UNCHANGED vars
  BY <1>7 DEF vars, FokAllOrNothing
<1> QED BY <1>2, <1>3, <1>4, <1>5, <1>6, <1>7, MatchReturns DEF Next, Match

(***************************************************************************)
(* Under the same premise the pre-check of a FOK order and the loop agree: *)
(* the order fills in full or is CANCELLED without a trade.                *)
(***************************************************************************)
THEOREM FokHonest == Spec /\ []SidesFit => []FokAllOrNothing
<1>1. Init => FokCovered /\ FokAllOrNothing
  BY DEF Init, FokCovered, FokAllOrNothing
<1>2. IInv /\ FinitelyMany /\ TotalsMatch /\ FokCovered /\ [Next]_vars => FokCovered'
  BY CoveredStep
<1>3. IInv /\ FinitelyMany /\ FokCovered /\ FokAllOrNothing /\ [Next]_vars =>
        FokAllOrNothing'
  BY FokStep
<1> QED BY <1>1, <1>2, <1>3, TotalsExact, Invariance, FiniteOrders, PTL DEF Spec

------------------------------------------------------------------------------
(***************************************************************************)
(* The program's own check of a book.                                      *)
(***************************************************************************)
\* The levels of a side hold no more than what rests on it.
LEMMA VolumeFits ==
  ASSUME IInv, FinitelyMany, TotalsMatch, SidesFit, NEW s \in Side
  PROVE  SumFunctionOnSet(LevelTotals(s), DOMAIN book[s]) < QtyMod
<1> DEFINE P == DOMAIN book[s]
           A == [p \in P |-> Queued(s, p)]
           T == LevelTotals(s)
           U == UNION {A[p] : p \in P}
<1>1. /\ IsFiniteSet(P) /\ SumFunctionOnSet(T, P) \in Nat
  BY OfferSums
<1>2. ASSUME NEW p \in P
      PROVE  /\ IsFiniteSet(A[p]) /\ A[p] \subseteq RestingOn(s)
             /\ \A x \in A[p] : Open[x] \in Int
             /\ T[p] = SumFunctionOnSet(Open, A[p])
  <2>1. A[p] = Queued(s, p) /\ T[p] = book[s][p].total
    BY DEF LevelTotals
  <2>2. /\ IsFiniteSet(Queued(s, p)) /\ Queued(s, p) \subseteq RestingOn(s)
        /\ Queued(s, p) \subseteq DOMAIN orders
        /\ \A id \in DOMAIN orders : Open[id] \in Nat
    BY QueueSums
  <2> HIDE DEF A, T
  <2> QED BY <2>1, <2>2 DEF TotalsMatch
<1>3. ASSUME NEW p \in P, NEW q \in P, p # q PROVE A[p] \cap A[q] = {}
  <2>1. ASSUME NEW id \in Queued(s, p), id \in Queued(s, q) PROVE FALSE
    <3>1. index[id] = [side |-> s, price |-> p] /\ index[id] = [side |-> s, price |-> q]
      BY <2>1, QueuedOrder
    <3> QED BY <1>3, <3>1
  <2> QED BY <2>1
<1>4. /\ RestingOn(s) \subseteq DOMAIN orders /\ IsFiniteSet(RestingOn(s))
      /\ \A id \in DOMAIN orders : Open[id] \in Nat
  <2>1. RestingOn(s) \subseteq DOMAIN orders
    BY RestingOrder DEF RestingOn
  <2> QED BY <2>1, FS_Subset, OrderFields DEF FinitelyMany, Open
<1>5. U \subseteq RestingOn(s)
  BY <1>2
<1> HIDE DEF P, A, T, U
<1>6. SumFunctionOnSet(T, P) = SumFunctionOnSet(Open, U)
  BY <1>1, <1>2, <1>3, SumOfSums DEF U
<1>7. SumFunctionOnSet(Open, U) <= SumFunctionOnSet(Open, RestingOn(s))
  BY <1>4, <1>5, SumSubset
<1>8. SumFunctionOnSet(Open, RestingOn(s)) \in Nat
  BY <1>4, SumNat
<1>9. SumFunctionOnSet(Open, RestingOn(s)) < QtyMod
  BY DEF SidesFit
<1> QED BY <1>1, <1>6, <1>7, <1>8, <1>9 DEF P, T

\* A level has a positive total and open orders.
LEMMA LevelOpen ==
  ASSUME IInv, FinitelyMany, TotalsMatch, NEW s \in Side, NEW p \in DOMAIN book[s]
  PROVE  /\ book[s][p].total \in Nat /\ book[s][p].total > 0
         /\ LevelsSeen[s][p].qty = book[s][p].total
         /\ LevelsSeen[s][p].open # <<>>
         /\ 0 \notin ToSet(LevelsSeen[s][p].open)
<1> DEFINE queue == book[s][p].queue
<1>1. /\ queue \in Seq(OrderId) /\ queue # <<>> /\ book[s][p].total \in Nat
  BY LevelFacts DEF PriceLevel, Quantity
<1>2. LevelsSeen[s][p] = [qty |-> book[s][p].total,
                          open |-> [i \in DOMAIN queue |-> Remaining(orders[queue[i]])]]
  BY DEF LevelsSeen
<1>3. Len(queue) \in Nat /\ Len(queue) > 0 /\ DOMAIN queue = 1 .. Len(queue)
  <2> HIDE DEF queue
  <2> QED BY <1>1, EmptySeq, LenProperties
<1>4. ASSUME NEW i \in DOMAIN queue
      PROVE  /\ queue[i] \in Queued(s, p)
             /\ Remaining(orders[queue[i]]) > 0 /\ Remaining(orders[queue[i]]) \in Nat
  <2>1. queue[i] \in Queued(s, p)
    BY DEF Queued, ToSet
  <2>2. /\ Queued(s, p) \subseteq DOMAIN orders
        /\ \A id \in DOMAIN orders : Open[id] \in Nat
        /\ \A id \in Queued(s, p) : Open[id] > 0
    BY QueueSums
  <2>3. queue[i] \in DOMAIN orders
    BY <2>1, <2>2
  <2>4. Open[queue[i]] = Remaining(orders[queue[i]])
    BY <2>3 DEF Open
  <2> HIDE DEF queue
  <2> QED BY <2>1, <2>2, <2>3, <2>4
<1>5. book[s][p].total > 0
  <2>1. /\ queue[1] \in Queued(s, p) /\ IsFiniteSet(Queued(s, p))
        /\ \A id \in Queued(s, p) : Open[id] \in Nat /\ Open[id] > 0
        /\ book[s][p].total = SumFunctionOnSet(Open, Queued(s, p))
    BY <1>3, <1>4, QueueSums DEF TotalsMatch
  <2>2. Open[queue[1]] <= SumFunctionOnSet(Open, Queued(s, p))
    <3> HIDE DEF queue
    <3> QED BY <2>1, TermAtMostSum
  <2> HIDE DEF queue
  <2> QED BY <1>1, <2>1, <2>2
<1>6. LevelsSeen[s][p].open # <<>>
  <2>1. 1 \in DOMAIN LevelsSeen[s][p].open
    BY <1>2, <1>3
  <2>2. DOMAIN <<>> = {}
    OBVIOUS
  <2> QED BY <2>1, <2>2
<1>7. 0 \notin ToSet(LevelsSeen[s][p].open)
  <2>1. /\ DOMAIN LevelsSeen[s][p].open = DOMAIN queue
        /\ \A i \in DOMAIN queue : LevelsSeen[s][p].open[i] = Remaining(orders[queue[i]])
    BY <1>2
  <2>2. \A i \in DOMAIN LevelsSeen[s][p].open : LevelsSeen[s][p].open[i] # 0
    BY <1>4, <2>1
  <2> QED BY <2>2 DEF ToSet
<1> QED BY <1>1, <1>2, <1>5, <1>6, <1>7

LEMMA ChecksPass ==
  IInv /\ FinitelyMany /\ NotCrossed /\ TotalsMatch /\ SidesFit => CheckerPasses
<1> SUFFICES ASSUME IInv, FinitelyMany, NotCrossed, TotalsMatch, SidesFit
             PROVE  CheckBook(LevelsSeen, index, QtyMod)
  BY DEF CheckerPasses
<1>1. /\ DOMAIN LevelsSeen = Side
      /\ \A s \in Side : DOMAIN LevelsSeen[s] = DOMAIN book[s]
  BY DEF LevelsSeen
<1>2. ~CrossedBook(LevelsSeen)
  <2>1. \A s \in Side : DOMAIN book[s] \subseteq Int
    <3>1. Price \subseteq Int
      BY DEF Price
    <3>2. \A s \in Side : DOMAIN book[s] \subseteq Price
      BY DEF IInv, TypeOK, BookType
    <3> QED BY <3>1, <3>2
  <2> QED BY <1>1, <2>1 DEF CrossedBook, NotCrossed, Side
<1>3. LevelsNonempty(LevelsSeen)
  <2> SUFFICES ASSUME NEW s \in Side, NEW p \in DOMAIN book[s]
               PROVE  LevelsSeen[s][p].qty # 0 /\ LevelsSeen[s][p].open # <<>>
    BY <1>1 DEF LevelsNonempty
  <2>1. /\ book[s][p].total \in Nat /\ book[s][p].total > 0
        /\ LevelsSeen[s][p].qty = book[s][p].total /\ LevelsSeen[s][p].open # <<>>
    BY LevelOpen
  <2> QED BY <2>1
<1>4. ASSUME NEW s \in Side, LevelsSeen[s] # <<>> PROVE TotalQty(LevelsSeen[s], QtyMod) # 0
  <2>1. LevelTotals(s) = [p \in DOMAIN LevelsSeen[s] |-> LevelsSeen[s][p].qty]
    BY <1>1, LevelOpen DEF LevelTotals
  <2>2. TotalQty(LevelsSeen[s], QtyMod) =
          SumFunctionOnSet(LevelTotals(s), DOMAIN book[s]) % QtyMod
    <3>1. DOMAIN LevelTotals(s) = DOMAIN book[s]
      BY DEF LevelTotals
    <3> QED BY <2>1, <3>1 DEF TotalQty, SumFunction, SumFunctionOnSet, FoldFunction
  <2>3. PICK p \in DOMAIN book[s] : TRUE
    <3>1. LevelsSeen[s] = [p \in DOMAIN book[s] |-> LevelsSeen[s][p]]
      BY DEF LevelsSeen
    <3>2. DOMAIN book[s] # {}
      BY <1>4, <3>1
    <3> QED BY <3>2
  <2>4. /\ IsFiniteSet(DOMAIN book[s])
        /\ \A q \in DOMAIN book[s] : LevelTotals(s)[q] \in Nat
        /\ SumFunctionOnSet(LevelTotals(s), DOMAIN book[s]) \in Nat
    BY OfferSums
  <2>5. LevelTotals(s)[p] > 0
    BY <2>3, LevelOpen DEF LevelTotals
  <2>6. LevelTotals(s)[p] <= SumFunctionOnSet(LevelTotals(s), DOMAIN book[s])
    BY <2>3, <2>4, TermAtMostSum
  <2>7. SumFunctionOnSet(LevelTotals(s), DOMAIN book[s]) < QtyMod
    BY VolumeFits
  <2>8. SumFunctionOnSet(LevelTotals(s), DOMAIN book[s]) % QtyMod =
          SumFunctionOnSet(LevelTotals(s), DOMAIN book[s])
    BY <2>4, <2>7, NoWrap
  <2> QED BY <2>2, <2>3, <2>4, <2>5, <2>6, <2>8
<1>5. VolumeNonzero(LevelsSeen, QtyMod)
  BY <1>4 DEF VolumeNonzero
<1>6. CheckInvariants(LevelsSeen, index)
  <2>1. \A s \in Side : \A p \in DOMAIN book[s] : 0 \notin ToSet(LevelsSeen[s][p].open)
    BY LevelOpen
  <2>2. \A id \in DOMAIN index : /\ index[id].side \in Side
                                 /\ index[id].price \in DOMAIN book[index[id].side]
    BY DEF IInv, TypeOK, IndexType, IndexExact, Resting, Location
  <2> QED BY <1>1, <1>2, <2>1, <2>2 DEF CheckInvariants
<1> QED BY <1>2, <1>3, <1>5, <1>6 DEF CheckBook

(***************************************************************************)
(* Under the same premise InvariantChecker::checkBook() reports nothing of *)
(* any book, whatever calls came before.                                   *)
(***************************************************************************)
THEOREM CheckerContent == Spec /\ []SidesFit => []CheckerPasses
BY ChecksPass, TotalsExact, Uncrossed, Invariance, FiniteOrders, PTL
------------------------------------------------------------------------------
(***************************************************************************)
(* When the premise holds.  The code has no bound of its own, so a caller  *)
(* has to see to it: it is enough that all the quantities it ever names    *)
(* together stay below 2^64.                                               *)
(***************************************************************************)
QuantitiesFit(most) ==
  /\ IsFiniteSet(OrderId) /\ \A q \in OrderQty : q <= most
  /\ Cardinality(OrderId) * most < QtyMod

NamedQuantities == \A id \in DOMAIN orders : orders[id].quantity \in OrderQty

\* An order keeps the quantity it was submitted with.
LEMMA NamedStep ==
  ASSUME IInv, NamedQuantities, [Next]_vars
  PROVE  NamedQuantities'
<1>1. ASSUME NEW id \in OrderId, NEW side \in Side, NEW type \in OrderType,
             NEW price \in Price, NEW qty \in OrderQty,
             Submit(id, side, type, price, qty)
      PROVE  NamedQuantities'
  <2>1. /\ DOMAIN orders' = DOMAIN orders \cup {id}
        /\ \A i \in DOMAIN orders : orders'[i] = orders[i]
        /\ orders'[id].quantity = qty
    BY <1>1, Submitted
  <2> QED BY <2>1 DEF NamedQuantities
<1>2. ASSUME SameTerms PROVE NamedQuantities'
  BY <1>2 DEF SameTerms, NamedQuantities
<1>3. CASE Fill
  BY <1>2, <1>3, FillTrades DEF Trades
<1> QED BY <1>1, <1>2, <1>3, StepKinds DEF Returns, NamedQuantities

\* What rests on a side is at most all that was ever named.
LEMMA NamedFit ==
  ASSUME NEW most \in Nat, QuantitiesFit(most), IInv, NamedQuantities
  PROVE  SidesFit
<1> SUFFICES ASSUME NEW s \in Side
             PROVE  SumFunctionOnSet(Open, RestingOn(s)) < QtyMod
  BY DEF SidesFit
<1>1. RestingOn(s) \subseteq DOMAIN orders /\ DOMAIN orders \subseteq OrderId
  BY RestingOrder DEF RestingOn, IInv, TypeOK, OrdersType
<1>2. RestingOn(s) \subseteq OrderId /\ IsFiniteSet(OrderId)
  BY <1>1 DEF QuantitiesFit
<1>3. /\ IsFiniteSet(RestingOn(s))
      /\ Cardinality(RestingOn(s)) <= Cardinality(OrderId)
      /\ Cardinality(RestingOn(s)) \in Nat /\ Cardinality(OrderId) \in Nat
  BY <1>2, FS_Subset, FS_CardinalityType
<1>4. \A id \in RestingOn(s) : Open[id] \in Nat /\ Open[id] <= most
  <2> SUFFICES ASSUME NEW id \in DOMAIN orders
               PROVE  Open[id] \in Nat /\ Open[id] <= most
    BY <1>1
  <2>1. /\ Open[id] \in Nat /\ Open[id] <= orders[id].quantity
        /\ orders[id].quantity \in Nat
    BY OrderFields DEF Open
  <2>2. orders[id].quantity <= most
    BY DEF NamedQuantities, QuantitiesFit
  <2> QED BY <2>1, <2>2
<1>5. /\ SumFunctionOnSet(Open, RestingOn(s)) \in Nat
      /\ SumFunctionOnSet(Open, RestingOn(s)) <= Cardinality(RestingOn(s)) * most
  BY <1>3, <1>4, SumNat, SumBound
<1>6. \A m, n \in Nat : m <= n => m * most <= n * most
  OBVIOUS
<1>7. /\ Cardinality(RestingOn(s)) * most \in Nat /\ Cardinality(OrderId) * most \in Nat
      /\ Cardinality(RestingOn(s)) * most <= Cardinality(OrderId) * most
  BY <1>3, <1>6
<1>8. Cardinality(OrderId) * most < QtyMod
  BY DEF QuantitiesFit
<1>9. \A a, b, c, d \in Nat : a <= b /\ b <= c /\ c < d => a < d
  OBVIOUS
<1> HIDE DEF SidesFit
<1> QED BY <1>5, <1>7, <1>8, <1>9

(***************************************************************************)
(* If the quantities named fit, what rests on a side always does: then     *)
(* totals are exact, FOK orders are honest and the check passes, without   *)
(* any premise on the states.                                              *)
(***************************************************************************)
THEOREM SmallQuantities ==
  ASSUME NEW most \in Nat, QuantitiesFit(most)
  PROVE  Spec => [](SidesFit /\ TotalsMatch /\ FokAllOrNothing /\ CheckerPasses)
<1>1. Init => NamedQuantities
  BY DEF Init, NamedQuantities
<1>2. IInv /\ NamedQuantities /\ [Next]_vars => NamedQuantities'
  BY NamedStep
<1>3. IInv /\ NamedQuantities => SidesFit
  BY NamedFit
<1> QED BY <1>1, <1>2, <1>3, TotalsExact, FokHonest, CheckerContent, Invariance, PTL
        DEF Spec
==============================================================================
