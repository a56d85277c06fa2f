----------------------------- MODULE PoolRunProofs -----------------------------
(***************************************************************************)
(* Theorems about PoolRun, for every stream: which slots are occupied, and *)
(* that the pool is large enough.  The engine's part of every step is one  *)
(* that MatchingEngineProofs is about.                                     *)
(***************************************************************************)
EXTENDS PoolRun, FiniteSetTheorems, SequenceTheorems, TLAPS

E == INSTANCE MatchingEngineProofs WITH MaxProcessed <- Orders

USE StreamAssumption

------------------------------------------------------------------------------
(***************************************************************************)
(* The engine of PoolRun is that of the theorems.                          *)
(***************************************************************************)

\* Its constants are constants MatchingEngine is about.
LEMMA EngineParameters == E!BoundsAssumption
BY DEF E!BoundsAssumption, E!IsFiniteSet, IsFiniteSet

\* What the two instances say of a book is the same.
LEMMA SameMatching ==
  /\ \A S : Engine!Cardinality(S) = E!Cardinality(S)
  /\ \A o, q, i : Engine!Taken(o, q, i) = E!Taken(o, q, i)
  /\ \A o, q : Engine!Filled(o, q) = E!Filled(o, q)
  /\ \A s : Engine!Opposite(s) = E!Opposite(s)
<1>1. \A S : Engine!Cardinality(S) = E!Cardinality(S)
  BY DEF Engine!Cardinality, E!Cardinality
<1>2. \A f, S : Engine!SumFunctionOnSet(f, S) = E!SumFunctionOnSet(f, S)
  BY DEF Engine!SumFunctionOnSet, E!SumFunctionOnSet,
         Engine!FoldFunctionOnSet, E!FoldFunctionOnSet,
         Engine!MapThenFoldSet, E!MapThenFoldSet
<1>3. \A q, n : Engine!Depth(q, n) = E!Depth(q, n)
  BY <1>2 DEF Engine!Depth, E!Depth
<1>4. /\ \A s : Engine!Opposite(s) = E!Opposite(s)
      /\ \A a, b : Engine!Lesser(a, b) = E!Lesser(a, b)
      /\ \A s, p, q : Engine!AsGood(s, p, q) <=> E!AsGood(s, p, q)
  BY DEF Engine!Opposite, E!Opposite, Engine!Lesser, E!Lesser, Engine!AsGood, E!AsGood
<1>5. \A o, p : Engine!Marketable(o, p) <=> E!Marketable(o, p)
  BY <1>4 DEF Engine!Marketable, E!Marketable
<1>6. \A o, q : Engine!Reach(o, q) = E!Reach(o, q)
  BY DEF Engine!Reach, E!Reach, Engine!Cardinality, E!Cardinality,
         Engine!Marketable, E!Marketable, Engine!AsGood, E!AsGood,
         Engine!Opposite, E!Opposite
<1>7. \A o, q : Engine!Killed(o, q) <=> E!Killed(o, q)
  BY <1>3, <1>6 DEF Engine!Killed, E!Killed
<1>8. \A o, q, i : Engine!Taken(o, q, i) = E!Taken(o, q, i)
  BY <1>3, <1>4, <1>6, <1>7 DEF Engine!Taken, E!Taken
<1>9. \A o, q : Engine!Filled(o, q) = E!Filled(o, q)
  BY <1>3, <1>4, <1>6, <1>7 DEF Engine!Filled, E!Filled
<1> QED BY <1>1, <1>4, <1>8, <1>9

LEMMA SameBooks ==
  /\ \A o, q : Engine!Fills(o, q) = E!Fills(o, q)
  /\ \A o, q : Engine!Outcome(o, q) = E!Outcome(o, q)
  /\ \A o, b : Engine!BookAfter(o, b) = E!BookAfter(o, b)
  /\ \A id, b : Engine!BookWithout(id, b) = E!BookWithout(id, b)
  /\ \A b : Engine!RestingIds(b) = E!RestingIds(b)
<1>1. \A o, q : Engine!Fills(o, q) = E!Fills(o, q)
  <2> SUFFICES ASSUME NEW o, NEW q PROVE Engine!Fills(o, q) = E!Fills(o, q)
    OBVIOUS
  <2>1. {j \in DOMAIN q : Engine!Taken(o, q, j) > 0} = {j \in DOMAIN q : E!Taken(o, q, j) > 0}
    BY SameMatching
  <2> QED BY <2>1, SameMatching DEF Engine!Fills, E!Fills
<1>2. \A o, q : Engine!Drained(o, q) = E!Drained(o, q)
  <2> SUFFICES ASSUME NEW o, NEW q PROVE Engine!Drained(o, q) = E!Drained(o, q)
    OBVIOUS
  <2> DEFINE a == [i \in DOMAIN q |-> [q[i] EXCEPT !.open = @ - Engine!Taken(o, q, i)]]
             b == [i \in DOMAIN q |-> [q[i] EXCEPT !.open = @ - E!Taken(o, q, i)]]
  <2>1. a = b
    BY SameMatching
  <2> HIDE DEF a, b
  <2>2. Engine!Drained(o, q) =
          SubSeq(a, Engine!Cardinality({i \in DOMAIN q : a[i].open = 0}) + 1, Len(q))
    BY DEF Engine!Drained, a
  <2>3. E!Drained(o, q) =
          SubSeq(b, E!Cardinality({i \in DOMAIN q : b[i].open = 0}) + 1, Len(q))
    BY DEF E!Drained, b
  <2> QED BY <2>1, <2>2, <2>3, SameMatching
<1>3. \A s, q, e : Engine!Insert(s, q, e) = E!Insert(s, q, e)
  BY DEF Engine!Insert, E!Insert, Engine!InsertAt, E!InsertAt, Engine!Cardinality,
         E!Cardinality, Engine!AsGood, E!AsGood
<1>4. \A o, b : Engine!BookAfter(o, b) = E!BookAfter(o, b)
  BY <1>2, <1>3, SameMatching DEF Engine!BookAfter, E!BookAfter
<1>5. \A o, q : Engine!Outcome(o, q) = E!Outcome(o, q)
  BY SameMatching DEF Engine!Outcome, E!Outcome
<1>6. \A id, b : Engine!BookWithout(id, b) = E!BookWithout(id, b)
  BY DEF Engine!BookWithout, E!BookWithout, Engine!RemoveFirstMatch, E!RemoveFirstMatch,
         Engine!SelectInSeq, E!SelectInSeq, Engine!RemoveAt, E!RemoveAt,
         Engine!Min, E!Min, Engine!Side, E!Side
<1>7. \A b : Engine!RestingIds(b) = E!RestingIds(b)
  BY DEF Engine!RestingIds, E!RestingIds, Engine!ToSet, E!ToSet, Engine!Side, E!Side
<1> QED BY <1>1, <1>4, <1>5, <1>6, <1>7

\* So are its calls.
LEMMA SameEngine ==
  /\ Engine!Init <=> E!Init
  /\ \A s : Engine!RegisterSymbol(s) <=> E!RegisterSymbol(s)
  /\ \A o : Engine!SubmitOrder(o) <=> E!SubmitOrder(o)
  /\ Engine!Input = E!Input
  /\ Engine!AllResting = E!AllResting /\ Engine!AllResting' = E!AllResting'
<1>1. Engine!Init <=> E!Init
  BY DEF Engine!Init, E!Init, Engine!Result, E!Result
<1>2. \A s : Engine!RegisterSymbol(s) <=> E!RegisterSymbol(s)
  BY DEF Engine!RegisterSymbol, E!RegisterSymbol, Engine!Emplace, E!Emplace,
         Engine!EmptyBook, E!EmptyBook, Engine!Result, E!Result, Engine!Side, E!Side
<1>3. \A s, id : Engine!Cancel(s, id) <=> E!Cancel(s, id)
  BY SameBooks DEF Engine!Cancel, E!Cancel, Engine!Resting, E!Resting,
         Engine!Result, E!Result, Engine!Rejected, E!Rejected
<1>4. \A o : Engine!Valid(o) <=> E!Valid(o)
  BY DEF Engine!Valid, E!Valid
<1>5. \A o : Engine!Reject(o) <=> E!Reject(o)
  BY DEF Engine!Reject, E!Reject, Engine!Result, E!Result, Engine!Rejected, E!Rejected
<1>6. \A o : Engine!Execute(o) <=> E!Execute(o)
  BY SameBooks, SameMatching
     DEF Engine!Execute, E!Execute, Engine!RecordId, E!RecordId,
         Engine!Result, E!Result, Engine!Rejected, E!Rejected
<1>7. \A o : Engine!SubmitOrder(o) <=> E!SubmitOrder(o)
  BY <1>3, <1>4, <1>5, <1>6 DEF Engine!SubmitOrder, E!SubmitOrder
<1>8. Engine!Input = E!Input
  BY DEF Engine!Input, E!Input, Engine!Side, E!Side, Engine!OrderType, E!OrderType
<1>9. Engine!AllResting = E!AllResting /\ Engine!AllResting' = E!AllResting'
  BY SameBooks DEF Engine!AllResting, E!AllResting, Engine!Resting, E!Resting
<1> QED BY <1>1, <1>2, <1>7, <1>8, <1>9

------------------------------------------------------------------------------
(***************************************************************************)
(* The pool: which slots it hands out and takes back.                      *)
(***************************************************************************)
Slots == 0 .. Orders

Occupied == {i \in Slots : storage[i] # NoOrder}

\* The elements of a sequence, and that they are all different.
Elements(s) == {s[n] : n \in DOMAIN s}
Different(s) == \A m, n \in DOMAIN s : s[m] = s[n] => m = n

PoolInv == /\ storage \in [Slots -> OrderId \cup {NoOrder}]
           /\ freelist \in Seq(Slots) /\ Different(freelist)
           /\ Elements(freelist) = Slots \ Occupied
           /\ allocated = Cardinality(Occupied)

LEMMA SlotsFinite ==
  /\ IsFiniteSet(Slots) /\ Cardinality(Slots) = Orders + 1
  /\ Orders \in Nat
<1>1. IsFiniteSet(0 .. Orders) /\ Cardinality(0 .. Orders) = Orders - 0 + 1
  BY FS_Interval
<1> QED BY <1>1 DEF Slots

\* As many elements as places.
LEMMA DifferentCount ==
  ASSUME NEW S, NEW s \in Seq(S), Different(s)
  PROVE  Cardinality(Elements(s)) = Len(s)
<1>1. DOMAIN s = 1 .. Len(s) /\ Len(s) \in Nat
  BY LenProperties
<1>2. s \in Bijection(1 .. Len(s), Elements(s))
  <2>1. s = [n \in 1 .. Len(s) |-> s[n]]
    BY <1>1
  <2>2. s \in [1 .. Len(s) -> Elements(s)]
    BY <1>1, <2>1 DEF Elements
  <2>3. \A m, n \in 1 .. Len(s) : s[m] = s[n] => m = n
    BY <1>1 DEF Different
  <2>4. \A x \in Elements(s) : \E n \in 1 .. Len(s) : s[n] = x
    BY <1>1 DEF Elements
  <2> QED BY <2>2, <2>3, <2>4 DEF Bijection, Injection, Surjection, IsInjective
<1>3. ExistsBijection(1 .. Len(s), Elements(s))
  BY <1>2 DEF ExistsBijection
<1>4. IsFiniteSet(1 .. Len(s)) /\ Cardinality(1 .. Len(s)) = Len(s)
  BY <1>1, FS_Interval
<1> QED BY <1>3, <1>4, FS_Bijection

\* The constructor puts every slot on the freelist.
LEMMA PoolStarts == Pool!Init => PoolInv /\ Occupied = {}
<1> SUFFICES ASSUME Pool!Init PROVE PoolInv /\ Occupied = {}
  OBVIOUS
<1>1. /\ storage = [i \in Slots |-> NoOrder] /\ allocated = 0
      /\ freelist = [n \in 1 .. (Orders + 1) |-> Orders + 1 - n]
  BY DEF Pool!Init, Pool!Slot, Slots
<1>2. Occupied = {} /\ Cardinality({}) = 0
  BY <1>1, FS_EmptySet DEF Occupied
<1>3. Orders \in Nat
  BY SlotsFinite
<1>4. freelist \in Seq(Slots)
  <2>1. \A n \in 1 .. (Orders + 1) : Orders + 1 - n \in Slots
    BY <1>3 DEF Slots
  <2> QED BY <1>1, <1>3, <2>1, IsASeq
<1>5. Different(freelist)
  BY <1>1, <1>3 DEF Different
<1>6. Elements(freelist) = Slots
  <2>1. ASSUME NEW i \in Slots PROVE i \in Elements(freelist)
    <3>1. Orders + 1 - i \in 1 .. (Orders + 1) /\ Orders + 1 - (Orders + 1 - i) = i
      BY <1>3 DEF Slots
    <3> QED BY <1>1, <3>1 DEF Elements
  <2>2. ASSUME NEW n \in DOMAIN freelist PROVE freelist[n] \in Slots
    BY <1>1, <1>3 DEF Slots
  <2> QED BY <2>1, <2>2 DEF Elements
<1> QED BY <1>1, <1>2, <1>4, <1>5, <1>6 DEF PoolInv

\* alloc() hands out a free slot.
LEMMA AllocStep ==
  ASSUME PoolInv, NEW id \in OrderId, Pool!Alloc(id)
  PROVE  LET c == Last(freelist) IN
         /\ c \in Slots \ Occupied
         /\ storage' = [storage EXCEPT ![c] = id]
         /\ Occupied' = Occupied \cup {c} /\ PoolInv'
<1> DEFINE n == Len(freelist)
           c == freelist[n]
<1>1. /\ freelist # <<>> /\ freelist' = SubSeq(freelist, 1, n - 1)
      /\ storage' = [storage EXCEPT ![c] = id] /\ allocated' = allocated + 1
      /\ Last(freelist) = c
  BY DEF Pool!Alloc, Pool!Popped, Pool!Front, Pool!Last, Last
<1>2. n \in Nat /\ n >= 1 /\ DOMAIN freelist = 1 .. n
  BY <1>1, EmptySeq, LenProperties DEF PoolInv
<1>3. c \in Slots \ Occupied
  BY <1>2 DEF PoolInv, Elements
<1>4. /\ freelist' \in Seq(Slots) /\ Len(freelist') = n - 1
      /\ \A i \in 1 .. (n - 1) : freelist'[i] = freelist[i]
      /\ DOMAIN freelist' = 1 .. (n - 1)
  <2>1. \A i \in 1 .. (n - 1) : freelist[i] \in Slots
    BY <1>2 DEF PoolInv
  <2>2. /\ freelist' \in Seq(Slots)
        /\ Len(freelist') = IF 1 <= n - 1 THEN (n - 1) - 1 + 1 ELSE 0
        /\ \A i \in 1 .. (n - 1) - 1 + 1 : freelist'[i] = freelist[1 + i - 1]
    <3> HIDE DEF n
    <3> QED BY <1>1, <1>2, <2>1, SubSeqProperties
  <2>3. Len(freelist') = n - 1 /\ (n - 1) - 1 + 1 = n - 1
    <3>1. \A l \in Nat : l >= 1 => /\ (l - 1) - 1 + 1 = l - 1
                                   /\ (IF 1 <= l - 1 THEN (l - 1) - 1 + 1 ELSE 0) = l - 1
      OBVIOUS
    <3> HIDE DEF n
    <3> QED BY <1>2, <2>2, <3>1
  <2>4. \A i \in 1 .. (n - 1) : 1 + i - 1 = i
    BY <1>2
  <2> QED BY <2>2, <2>3, <2>4, LenProperties
<1>5. storage \in [Slots -> OrderId \cup {NoOrder}] /\ id # NoOrder
  BY DEF PoolInv, StreamAssumption
<1>6. Occupied' = Occupied \cup {c}
  BY <1>1, <1>3, <1>5 DEF Occupied
<1>7. Different(freelist')
  BY <1>2, <1>4 DEF PoolInv, Different
<1>8. Elements(freelist') = Elements(freelist) \ {c}
  <2>1. ASSUME NEW i \in 1 .. (n - 1) PROVE freelist'[i] \in Elements(freelist) \ {c}
    <3>1. /\ i \in DOMAIN freelist /\ n \in DOMAIN freelist /\ i # n
          /\ freelist'[i] = freelist[i]
      <4> HIDE DEF n
      <4> QED BY <1>2, <1>4
    <3>2. freelist[i] # c
      BY <3>1 DEF PoolInv, Different
    <3> QED BY <3>1, <3>2 DEF Elements
  <2>2. ASSUME NEW i \in 1 .. n, freelist[i] # c PROVE freelist[i] \in Elements(freelist')
    <3>1. i \in 1 .. (n - 1)
      BY <1>2, <2>2
    <3> QED BY <1>4, <3>1 DEF Elements
  <2> QED BY <1>2, <1>4, <2>1, <2>2 DEF Elements
<1>9. Cardinality(Occupied') = Cardinality(Occupied) + 1
  <2>1. Occupied \subseteq Slots
    BY DEF Occupied
  <2>2. IsFiniteSet(Occupied)
    BY <2>1, SlotsFinite, FS_Subset
  <2> QED BY <1>3, <1>6, <2>2, FS_AddElement
<1>10. storage' \in [Slots -> OrderId \cup {NoOrder}]
  BY <1>1, <1>5
<1> HIDE DEF c
<1>11. PoolInv'
  BY <1>1, <1>4, <1>6, <1>7, <1>8, <1>9, <1>10 DEF PoolInv
<1> QED BY <1>1, <1>3, <1>6, <1>11

\* dealloc() of occupied slots, each once, frees them.
LEMMA DeallocStep ==
  ASSUME PoolInv, NEW freed \in Seq(Slots), Different(freed),
         Elements(freed) \subseteq Occupied, Pool!Dealloc(freed)
  PROVE  /\ Occupied' = Occupied \ Elements(freed) /\ PoolInv'
         /\ \A i \in Slots \ Elements(freed) : storage'[i] = storage[i]
<1> DEFINE n == Len(freelist)
           k == Len(freed)
<1>1. /\ storage' = [i \in Slots |-> IF i \in Elements(freed) THEN NoOrder ELSE storage[i]]
      /\ freelist' = freelist \o freed /\ allocated' = allocated - k
  BY DEF Pool!Dealloc, Pool!Slot, Pool!ToSet, Slots, Elements
<1>2. /\ n \in Nat /\ DOMAIN freelist = 1 .. n /\ freelist \in Seq(Slots)
      /\ k \in Nat /\ DOMAIN freed = 1 .. k
  BY LenProperties DEF PoolInv
<1>3. Occupied' = Occupied \ Elements(freed)
  BY <1>1 DEF Occupied
<1>4. /\ freelist' \in Seq(Slots) /\ Len(freelist') = n + k
      /\ DOMAIN freelist' = 1 .. (n + k)
      /\ \A i \in 1 .. (n + k) :
           freelist'[i] = IF i <= n THEN freelist[i] ELSE freed[i - n]
  <2>1. /\ freelist' \in Seq(Slots) /\ Len(freelist') = n + k
        /\ \A i \in 1 .. n + k : freelist'[i] = IF i <= n THEN freelist[i] ELSE freed[i - n]
    <3>1. freelist \in Seq(Slots) /\ freed \in Seq(Slots) /\ freelist' = freelist \o freed
      BY <1>1, <1>2
    <3> QED BY <3>1, ConcatProperties
  <2> QED BY <1>2, <2>1, LenProperties
<1> HIDE DEF n, k
<1>5. Elements(freelist') = Elements(freelist) \cup Elements(freed)
  <2>1. ASSUME NEW i \in 1 .. (n + k)
        PROVE  freelist'[i] \in Elements(freelist) \cup Elements(freed)
    <3>1. CASE i <= n
      <4>1. i \in 1 .. n /\ freelist'[i] = freelist[i]
        BY <1>2, <1>4, <3>1
      <4> QED BY <1>2, <4>1 DEF Elements
    <3>2. CASE i > n
      <4>1. i - n \in 1 .. k /\ freelist'[i] = freed[i - n]
        BY <1>2, <1>4, <3>2
      <4> QED BY <1>2, <4>1 DEF Elements
    <3> QED BY <1>2, <3>1, <3>2
  <2>2. ASSUME NEW i \in 1 .. n PROVE freelist[i] \in Elements(freelist')
    <3>1. i \in 1 .. (n + k) /\ freelist'[i] = freelist[i]
      BY <1>2, <1>4
    <3> QED BY <1>4, <3>1 DEF Elements
  <2>3. ASSUME NEW j \in 1 .. k PROVE freed[j] \in Elements(freelist')
    <3>1. PICK m \in 1 .. (n + k) : m = n + j
      BY <1>2
    <3>2. ~(m <= n) /\ m - n = j
      BY <1>2, <3>1
    <3>3. freelist'[m] = freed[j]
      BY <1>4, <3>2
    <3> QED BY <1>4, <3>3 DEF Elements
  <2>4. \A x \in Elements(freelist') : x \in Elements(freelist) \cup Elements(freed)
    BY <1>4, <2>1 DEF Elements
  <2>5. \A x \in Elements(freelist) \cup Elements(freed) : x \in Elements(freelist')
    BY <1>2, <2>2, <2>3 DEF Elements
  <2> QED BY <2>4, <2>5
<1>6. Elements(freelist) \cap Elements(freed) = {}
  BY DEF PoolInv
<1>7. Different(freelist')
  <2> SUFFICES ASSUME NEW i \in 1 .. (n + k), NEW j \in 1 .. (n + k), i < j
               PROVE  freelist'[i] # freelist'[j]
    BY <1>2, <1>4 DEF Different
  <2>1. CASE j <= n
    <3>1. /\ i \in DOMAIN freelist /\ j \in DOMAIN freelist /\ i # j
          /\ freelist'[i] = freelist[i] /\ freelist'[j] = freelist[j]
      BY <1>2, <1>4, <2>1
    <3> QED BY <3>1 DEF PoolInv, Different
  <2>2. CASE i > n
    <3>1. /\ i - n \in 1 .. k /\ j - n \in 1 .. k /\ i - n # j - n
          /\ freelist'[i] = freed[i - n] /\ freelist'[j] = freed[j - n]
      BY <1>2, <1>4, <2>2
    <3> QED BY <1>2, <3>1 DEF Different
  <2>3. CASE i <= n /\ j > n
    <3>1. /\ i \in 1 .. n /\ j - n \in 1 .. k
          /\ freelist'[i] = freelist[i] /\ freelist'[j] = freed[j - n]
      BY <1>2, <1>4, <2>3
    <3>2. freelist[i] \in Elements(freelist) /\ freed[j - n] \in Elements(freed)
      BY <1>2, <3>1 DEF Elements
    <3> QED BY <1>6, <3>1, <3>2
  <2> QED BY <1>2, <2>1, <2>2, <2>3
<1>8. Cardinality(Occupied') = Cardinality(Occupied) - k
  <2>1. Occupied \subseteq Slots
    BY DEF Occupied
  <2>2. IsFiniteSet(Occupied)
    BY <2>1, SlotsFinite, FS_Subset
  <2>3. Occupied \cap Elements(freed) = Elements(freed)
    OBVIOUS
  <2>4. Cardinality(Elements(freed)) = k
    BY DifferentCount DEF k
  <2>5. Cardinality(Occupied \ Elements(freed)) =
          Cardinality(Occupied) - Cardinality(Occupied \cap Elements(freed))
    BY <2>2, FS_Difference
  <2> QED BY <1>3, <2>3, <2>4, <2>5
<1>9. storage' \in [Slots -> OrderId \cup {NoOrder}]
  BY <1>1 DEF PoolInv
<1>10. Elements(freelist') = Slots \ Occupied'
  <2>1. Elements(freed) \subseteq Slots
    BY DEF Occupied
  <2> QED BY <1>3, <1>5, <2>1 DEF PoolInv
<1>11. PoolInv'
  <2>1. allocated' = Cardinality(Occupied) - k
    BY <1>1 DEF PoolInv
  <2> QED BY <1>4, <1>7, <1>8, <1>9, <1>10, <2>1 DEF PoolInv
<1> QED BY <1>1, <1>3, <1>11

------------------------------------------------------------------------------
(***************************************************************************)
(* The pointers: which slots the levels and poolOrder keep occupied.       *)
(***************************************************************************)
Pointed == {slotOf[id] : id \in DOMAIN slotOf}

LevelsPoint == /\ DOMAIN slotOf = E!AllResting
               /\ \A id \in DOMAIN slotOf : slotOf[id] \in Slots /\ storage[slotOf[id]] = id

CurrentIn(ph, cur) ==
  \/ ph \in {"alloc", "engine"} /\ cur = <<>>
  \/ ph \in {"submit", "end"} /\ \E c \in Slots : cur = <<c>>

PointersInv == /\ LevelsPoint /\ CurrentIn(phase, current)
               /\ Occupied = Pointed \cup Elements(current)
               /\ phase = "submit" => Elements(current) \cap Pointed = {}

IInv == E!IInv /\ PoolInv /\ PointersInv

\* The elements of short sequences.
LEMMA ShortElements ==
  /\ Elements(<<>>) = {} /\ Different(<<>>)
  /\ \A x : Elements(<<x>>) = {x} /\ Different(<<x>>) /\ <<x>>[1] = x
BY DEF Elements, Different

\* What the engine's invariant says of the ids.
LEMMA RestingAreIds ==
  ASSUME E!IInv
  PROVE  /\ E!AllResting \subseteq OrderId
         /\ IsFiniteSet(E!AllResting) /\ Cardinality(E!AllResting) \in 0 .. Orders
<1>1. /\ E!AllResting \subseteq usedIds /\ usedIds \subseteq OrderId
      /\ E!IsFiniteSet(usedIds) /\ E!Cardinality(usedIds) <= ordersProcessed
      /\ ordersProcessed \in 0 .. Orders
  BY DEF E!IInv, E!BooksInv, E!TypeOK
<1>2. E!Cardinality(usedIds) = Cardinality(usedIds) /\ IsFiniteSet(usedIds)
  BY <1>1 DEF E!Cardinality, Cardinality, E!IsFiniteSet, IsFiniteSet
<1>3. /\ IsFiniteSet(E!AllResting) /\ Cardinality(E!AllResting) <= Cardinality(usedIds)
      /\ Cardinality(E!AllResting) \in Nat /\ Cardinality(usedIds) \in Nat
  BY <1>1, <1>2, FS_Subset, FS_CardinalityType
<1> QED BY <1>1, <1>2, <1>3

\* No call of the engine, no change of it.
LEMMA EngineRests ==
  ASSUME E!IInv, UNCHANGED engineVars
  PROVE  E!IInv' /\ E!AllResting' = E!AllResting
<1>1. UNCHANGED E!vars
  BY DEF engineVars, E!vars
<1>2. E!AllResting' = E!AllResting
  BY DEF engineVars, E!AllResting, E!Resting
<1> QED BY <1>1, <1>2, E!StutterKeeps, EngineParameters

LEMMA RegisterStep ==
  ASSUME IInv, Register
  PROVE  IInv'
<1>1. PICK s \in Symbol : E!RegisterSymbol(s)
  BY SameEngine DEF Register
<1>2. UNCHANGED <<storage, freelist, allocated, slotOf, current, phase>>
  BY DEF Register, poolVars
<1>3. E!IInv' /\ E!Traceable
  BY <1>1, E!NextKeeps, EngineParameters DEF IInv, E!Next
<1>4. UNCHANGED usedIds /\ result' = E!Result("PENDING", <<>>)
  BY <1>1 DEF E!RegisterSymbol
<1>5. E!AllResting' = E!AllResting
  <2>1. E!Makers' = {} /\ result'.status = "PENDING"
    BY <1>4 DEF E!Result, E!Makers, E!ToSet
  <2> QED BY <1>3, <1>4, <2>1 DEF E!Traceable
<1> QED BY <1>2, <1>3, <1>5
        DEF IInv, PoolInv, PointersInv, LevelsPoint, Occupied, Pointed

LEMMA AllocKeeps ==
  ASSUME IInv, NEW id \in OrderId, Alloc(id)
  PROVE  IInv'
<1> DEFINE c == Last(freelist)
<1>1. /\ phase = "alloc" /\ Pool!Alloc(id) /\ current' = <<c>>
      /\ phase' = "submit" /\ UNCHANGED engineVars /\ UNCHANGED slotOf
  BY DEF Alloc
<1>2. /\ c \in Slots \ Occupied /\ storage' = [storage EXCEPT ![c] = id]
      /\ Occupied' = Occupied \cup {c} /\ PoolInv'
  BY <1>1, AllocStep DEF IInv
<1> HIDE DEF c
<1>3. E!IInv' /\ E!AllResting' = E!AllResting
  BY <1>1, EngineRests DEF IInv
<1>4. LevelsPoint /\ Occupied = Pointed /\ Pointed' = Pointed
  <2>1. current = <<>>
    BY <1>1 DEF IInv, PointersInv, CurrentIn
  <2> QED BY <1>1, <2>1, ShortElements DEF IInv, PointersInv, Pointed
<1>5. LevelsPoint'
  <2>1. \A i \in DOMAIN slotOf : slotOf[i] \in Pointed
    BY DEF Pointed
  <2>2. \A i \in DOMAIN slotOf : storage'[slotOf[i]] = storage[slotOf[i]]
    BY <1>2, <1>4, <2>1 DEF IInv, PoolInv
  <2> QED BY <1>1, <1>3, <1>4, <2>2 DEF LevelsPoint
<1>6. Elements(current') = {c} /\ CurrentIn(phase', current')
  BY <1>1, <1>2, ShortElements DEF CurrentIn
<1>7. PointersInv'
  BY <1>2, <1>4, <1>5, <1>6 DEF PointersInv
<1> QED BY <1>2, <1>3, <1>7 DEF IInv

\* The ids that leave the books are those Gone lists, each once.
LEMMA GoneAre ==
  ASSUME E!IInv, NEW o \in E!Input, E!SubmitOrder(o)
  PROVE  LET gone == Gone(o) IN
         /\ gone \in Seq(E!AllResting) /\ Different(gone)
         /\ Elements(gone) = E!AllResting \ E!AllResting'
<1> DEFINE left == E!AllResting \ E!AllResting'
           fills == result'.trades
           firsts == {i \in DOMAIN fills : fills[i].maker \in left}
<1>1. Gone(o) = IF o.type = "CANCEL" THEN IF o.id \in left THEN <<o.id>> ELSE <<>>
                ELSE [i \in 1 .. Cardinality(firsts) |-> fills[i].maker]
  BY SameEngine DEF Gone
<1>2. /\ o.type = "CANCEL" => left \subseteq {o.id}
      /\ o.type # "CANCEL" => E!Releases
  BY E!SubmitReleases, EngineParameters
<1>3. CASE o.type = "CANCEL" /\ o.id \in left
  <2>1. Gone(o) = <<o.id>> /\ left = {o.id} /\ o.id \in E!AllResting
    BY <1>1, <1>2, <1>3
  <2> QED BY <2>1, ShortElements
<1>4. CASE o.type = "CANCEL" /\ o.id \notin left
  <2>1. Gone(o) = <<>> /\ left = {}
    BY <1>1, <1>2, <1>4
  <2> QED BY <2>1, ShortElements
<1>5. CASE o.type # "CANCEL"
  <2>1. /\ Len(fills) \in Nat /\ DOMAIN fills = 1 .. Len(fills)
        /\ \A i, j \in 1 .. Len(fills) : fills[i].maker = fills[j].maker => i = j
    BY <1>2, <1>5 DEF E!Releases
  <2>2. PICK n \in 0 .. Len(fills) : left = {fills[i].maker : i \in 1 .. n}
    BY <1>2, <1>5 DEF E!Releases
  <2> HIDE DEF left, fills
  <2>3. firsts = 1 .. n
    <3>1. ASSUME NEW i \in 1 .. n PROVE i \in firsts
      BY <2>1, <2>2
    <3>2. ASSUME NEW i \in firsts PROVE i \in 1 .. n
      <4>1. i \in 1 .. Len(fills) /\ fills[i].maker \in left
        BY <2>1
      <4>2. PICK j \in 1 .. n : fills[i].maker = fills[j].maker
        BY <2>2, <4>1
      <4> QED BY <2>1, <2>2, <4>1, <4>2
    <3> QED BY <3>1, <3>2
  <2>4. Cardinality(firsts) = n /\ n \in Nat
    <3>1. n \in Nat
      BY <2>1
    <3>2. Cardinality(1 .. n) = n
      BY <3>1, FS_Interval
    <3> QED BY <2>3, <3>1, <3>2
  <2>5. Gone(o) = [i \in 1 .. n |-> fills[i].maker]
    BY <1>1, <1>5, <2>4
  <2>6. \A i \in 1 .. n : fills[i].maker \in E!AllResting
    BY <2>2 DEF left
  <2>7. Gone(o) \in Seq(E!AllResting)
    BY <2>4, <2>5, <2>6, IsASeq
  <2>8. Different(Gone(o))
    BY <2>1, <2>2, <2>5 DEF Different
  <2>9. Elements(Gone(o)) = left
    BY <2>2, <2>5 DEF Elements
  <2> QED BY <2>7, <2>8, <2>9 DEF left
<1> QED BY <1>3, <1>4, <1>5

LEMMA SubmitKeeps ==
  ASSUME IInv, NEW o \in Engine!Input, Submit(o)
  PROVE  IInv'
<1> DEFINE gone == Gone(o)
           freed == SlotsOf(gone)
<1>1. /\ phase = "submit" /\ storage[current[1]] = o.id /\ E!SubmitOrder(o) /\ o \in E!Input
      /\ slotOf' = [id \in E!AllResting' |-> IF id \in DOMAIN slotOf THEN slotOf[id]
                                             ELSE current[1]]
      /\ Pool!Dealloc(freed) /\ phase' = "end" /\ UNCHANGED current
  BY SameEngine DEF Submit
<1>2. PICK c \in Slots : current = <<c>>
  BY <1>1 DEF IInv, PointersInv, CurrentIn
<1>3. /\ LevelsPoint /\ current[1] = c /\ Elements(current) = {c}
      /\ Occupied = Pointed \cup {c} /\ c \notin Pointed
  BY <1>1, <1>2, ShortElements DEF IInv, PointersInv
<1>4. E!IInv' /\ E!AllResting' \subseteq E!AllResting \cup {o.id}
  BY <1>1, E!NextKeeps, E!SubmitReleases, EngineParameters DEF IInv, E!Next
<1>5. /\ gone \in Seq(E!AllResting) /\ Different(gone)
      /\ Elements(gone) = E!AllResting \ E!AllResting'
  BY <1>1, GoneAre DEF IInv
<1>6. freed = [i \in DOMAIN gone |-> slotOf[gone[i]]]
  BY DEF SlotsOf
<1> HIDE DEF freed, gone
<1>7. /\ freed \in Seq(Slots) /\ Different(freed) /\ Elements(freed) \subseteq Pointed
      /\ \A x : x \in Elements(freed) <=> \E id \in Elements(gone) : x = slotOf[id]
  <2>1. Len(gone) \in Nat /\ DOMAIN gone = 1 .. Len(gone)
    BY <1>5, LenProperties
  <2>2. \A i \in 1 .. Len(gone) : gone[i] \in DOMAIN slotOf
    BY <1>3, <1>5, <2>1 DEF LevelsPoint
  <2>3. \A i \in 1 .. Len(gone) : slotOf[gone[i]] \in Slots
    BY <1>3, <2>2 DEF LevelsPoint
  <2>4. freed \in Seq(Slots)
    BY <1>6, <2>1, <2>3, IsASeq
  <2>5. Different(freed)
    <3> SUFFICES ASSUME NEW i \in 1 .. Len(gone), NEW j \in 1 .. Len(gone),
                        slotOf[gone[i]] = slotOf[gone[j]]
                 PROVE  i = j
      BY <1>6, <2>1 DEF Different
    <3>1. gone[i] = gone[j]
      BY <1>3, <2>2 DEF LevelsPoint
    <3> QED BY <1>5, <2>1, <3>1 DEF Different
  <2>6. Elements(freed) \subseteq Pointed
    BY <1>6, <2>1, <2>2 DEF Elements, Pointed
  <2>7. \A x : x \in Elements(freed) <=> \E id \in Elements(gone) : x = slotOf[id]
    BY <1>6 DEF Elements
  <2> QED BY <2>4, <2>5, <2>6, <2>7
<1>8. /\ Occupied' = Occupied \ Elements(freed) /\ PoolInv'
      /\ \A i \in Slots \ Elements(freed) : storage'[i] = storage[i]
  BY <1>1, <1>3, <1>7, DeallocStep DEF IInv
<1>9. DOMAIN slotOf' = E!AllResting' /\ DOMAIN slotOf = E!AllResting
  BY <1>1, <1>3 DEF LevelsPoint
<1>10. \A id \in E!AllResting' :
         \/ id \in E!AllResting /\ slotOf'[id] = slotOf[id]
         \/ id = o.id /\ slotOf'[id] = c
  BY <1>1, <1>3, <1>4, <1>9
<1>11. ASSUME NEW id \in E!AllResting', id \in E!AllResting
       PROVE  slotOf[id] \in Slots \ Elements(freed) /\ storage[slotOf[id]] = id
  <2>1. slotOf[id] \in Slots /\ storage[slotOf[id]] = id
    BY <1>3, <1>9, <1>11 DEF LevelsPoint
  <2>2. \A g \in Elements(gone) : storage[slotOf[g]] = g /\ g # id
    BY <1>3, <1>5, <1>9 DEF LevelsPoint
  <2> QED BY <1>7, <2>1, <2>2
<1>12. LevelsPoint'
  <2>1. ASSUME NEW id \in E!AllResting'
        PROVE  slotOf'[id] \in Slots /\ storage'[slotOf'[id]] = id
    <3>1. CASE id \in E!AllResting /\ slotOf'[id] = slotOf[id]
      BY <1>8, <1>11, <3>1
    <3>2. CASE id = o.id /\ slotOf'[id] = c
      BY <1>1, <1>3, <1>7, <1>8, <3>2
    <3> QED BY <1>10, <3>1, <3>2
  <2> QED BY <1>9, <2>1 DEF LevelsPoint
<1>13. Occupied' = Pointed' \cup {c}
  <2>1. ASSUME NEW x \in Occupied' PROVE x \in Pointed' \cup {c}
    <3>1. CASE x # c
      <4>1. PICK id \in E!AllResting : x = slotOf[id]
        BY <1>3, <1>8, <1>9, <3>1 DEF Pointed
      <4>2. id \in E!AllResting'
        BY <1>5, <1>7, <1>8, <4>1
      <4>3. slotOf'[id] = slotOf[id]
        BY <1>1, <1>9, <4>2
      <4> QED BY <1>9, <4>1, <4>2, <4>3 DEF Pointed
    <3> QED BY <3>1
  <2>2. ASSUME NEW id \in E!AllResting' PROVE slotOf'[id] \in Occupied'
    <3>1. E!AllResting' \subseteq OrderId
      BY <1>4 DEF E!IInv, E!BooksInv, E!TypeOK
    <3> QED BY <1>9, <1>12, <3>1 DEF LevelsPoint, Occupied, StreamAssumption
  <2>3. c \in Occupied'
    BY <1>3, <1>7, <1>8
  <2> QED BY <1>9, <2>1, <2>2, <2>3 DEF Pointed
<1>14. CurrentIn(phase', current') /\ Elements(current') = {c}
  BY <1>1, <1>2, <1>3 DEF CurrentIn
<1>15. PointersInv'
  BY <1>1, <1>12, <1>13, <1>14 DEF PointersInv
<1> QED BY <1>4, <1>8, <1>15 DEF IInv

LEMMA EndKeeps ==
  ASSUME IInv, EndIteration
  PROVE  IInv'
<1> DEFINE freed == IF \E id \in DOMAIN slotOf : slotOf[id] = current[1]
                    THEN <<>> ELSE current
<1>1. /\ phase = "end" /\ Pool!Dealloc(freed) /\ current' = <<>> /\ phase' = "alloc"
      /\ UNCHANGED engineVars /\ UNCHANGED slotOf
  BY DEF EndIteration
<1>2. PICK c \in Slots : current = <<c>>
  BY <1>1 DEF IInv, PointersInv, CurrentIn
<1>3. LevelsPoint /\ Occupied = Pointed \cup {c} /\ current[1] = c
  BY <1>2, ShortElements DEF IInv, PointersInv
<1>4. freed = (IF c \in Pointed THEN <<>> ELSE <<c>>)
  BY <1>2, <1>3 DEF Pointed
<1> HIDE DEF freed
<1>5. /\ freed \in Seq(Slots) /\ Different(freed)
      /\ Elements(freed) = {c} \ Pointed
  BY <1>4, ShortElements
<1>6. /\ Occupied' = Occupied \ Elements(freed) /\ PoolInv'
      /\ \A i \in Slots \ Elements(freed) : storage'[i] = storage[i]
  BY <1>1, <1>3, <1>5, DeallocStep DEF IInv
<1>7. E!IInv' /\ E!AllResting' = E!AllResting
  BY <1>1, EngineRests DEF IInv
<1>8. LevelsPoint'
  <2>1. \A id \in DOMAIN slotOf : slotOf[id] \in Slots \ Elements(freed)
    BY <1>3, <1>5 DEF LevelsPoint, Pointed
  <2> QED BY <1>1, <1>3, <1>6, <1>7, <2>1 DEF LevelsPoint
<1>9. Pointed' = Pointed /\ Occupied' = Pointed'
  BY <1>1, <1>3, <1>5, <1>6 DEF Pointed
<1>10. PointersInv'
  BY <1>1, <1>8, <1>9, ShortElements DEF PointersInv, CurrentIn
<1> QED BY <1>6, <1>7, <1>10 DEF IInv

LEMMA DestroyKeeps ==
  ASSUME IInv, DestroyPool
  PROVE  IInv'
<1>1. /\ phase = "alloc" /\ phase' = "engine"
      /\ UNCHANGED <<storage, freelist, allocated, slotOf, current>>
      /\ UNCHANGED engineVars
  BY DEF DestroyPool, poolVars
<1>2. E!IInv' /\ E!AllResting' = E!AllResting
  BY <1>1, EngineRests DEF IInv
<1> QED BY <1>1, <1>2 DEF IInv, PoolInv, PointersInv, LevelsPoint, CurrentIn,
                          Occupied, Pointed

LEMMA InitHolds == Init => IInv
<1> SUFFICES ASSUME Init PROVE IInv
  OBVIOUS
<1>1. E!Init /\ Pool!Init /\ slotOf = <<>> /\ current = <<>> /\ phase = "alloc"
  BY SameEngine DEF Init
<1>2. E!IInv
  BY <1>1, E!InitKeeps, EngineParameters
<1>3. PoolInv /\ Occupied = {}
  BY <1>1, PoolStarts
<1>4. E!AllResting = {} /\ DOMAIN slotOf = {} /\ Pointed = {}
  BY <1>1 DEF E!Init, E!AllResting, Pointed
<1>5. PointersInv
  BY <1>1, <1>3, <1>4, ShortElements DEF PointersInv, LevelsPoint, CurrentIn
<1> QED BY <1>2, <1>3, <1>5 DEF IInv

LEMMA Invariance == Spec => []IInv
<1>1. ASSUME IInv, [Next]_vars PROVE IInv'
  <2>1. CASE Register
    BY <1>1, <2>1, RegisterStep
  <2>2. ASSUME NEW id \in OrderId, Alloc(id) PROVE IInv'
    BY <1>1, <2>2, AllocKeeps
  <2>3. ASSUME NEW o \in Engine!Input, Submit(o) PROVE IInv'
    BY <1>1, <2>3, SubmitKeeps
  <2>4. CASE EndIteration
    BY <1>1, <2>4, EndKeeps
  <2>5. CASE DestroyPool
    BY <1>1, <2>5, DestroyKeeps
  <2>6. CASE UNCHANGED vars
    <3>1. UNCHANGED <<storage, freelist, allocated, slotOf, current, phase>>
          /\ UNCHANGED engineVars
      BY <2>6 DEF vars, poolVars
    <3>2. E!IInv' /\ E!AllResting' = E!AllResting
      BY <1>1, <3>1, EngineRests DEF IInv
    <3> QED BY <1>1, <3>1, <3>2
            DEF IInv, PoolInv, PointersInv, LevelsPoint, Occupied, Pointed
  <2> QED BY <1>1, <2>1, <2>2, <2>3, <2>4, <2>5, <2>6 DEF Next
<1> QED BY <1>1, InitHolds, PTL DEF Spec

------------------------------------------------------------------------------
(***************************************************************************)
(* Exactly the orders that a pointer keeps alive occupy slots, one each,   *)
(* and a resting order's slot holds that order: the deleter gives a slot   *)
(* back when its order has left its level, neither before nor never.       *)
(***************************************************************************)
THEOREM SlotsAreHeld == Spec => []SlotsHeld
<1>1. ASSUME IInv PROVE SlotsHeld
  <2>1. Pool!Live = Occupied /\ Held = Pointed \cup Elements(current)
    BY DEF Pool!Live, Pool!Slot, Occupied, Slots, Held, Pointed, Elements, ToSet
  <2>2. Occupied = Pointed \cup Elements(current) /\ LevelsPoint
    BY <1>1 DEF IInv, PointersInv
  <2>3. \A i, j \in DOMAIN slotOf : slotOf[i] = slotOf[j] => i = j
    BY <2>2 DEF LevelsPoint
  <2> QED BY <2>1, <2>2, <2>3, SameEngine DEF SlotsHeld, LevelsPoint
<1> QED BY <1>1, Invariance, PTL

(***************************************************************************)
(* The freelist holds the slots in which nothing lives, each once, and     *)
(* allocated_ counts the others.  runPool() keeps dealloc()'s contract: it *)
(* never gives a slot back twice.                                          *)
(***************************************************************************)
THEOREM FreelistIsExact == Spec => []FreelistExact
<1>1. ASSUME IInv PROVE FreelistExact
  <2>1. Pool!Live = Occupied /\ Pool!Slot = Slots /\ Pool!ToSet(freelist) = Elements(freelist)
    BY DEF Pool!Live, Pool!Slot, Occupied, Slots, Elements, Pool!ToSet
  <2>2. \A S : Pool!Cardinality(S) = Cardinality(S)
    BY DEF Pool!Cardinality, Cardinality
  <2>3. /\ Elements(freelist) = Slots \ Occupied /\ allocated = Cardinality(Occupied)
        /\ Len(freelist) = Cardinality(Elements(freelist))
    BY <1>1, DifferentCount DEF IInv, PoolInv
  <2> QED BY <2>1, <2>2, <2>3 DEF FreelistExact, Pool!FreelistExact
<1> QED BY <1>1, Invariance, PTL

(***************************************************************************)
(* alloc() never throws in runPool(): the pool was sized "to hold all      *)
(* submitted orders simultaneously", and at the top of an iteration fewer  *)
(* slots are occupied than orders were submitted.                          *)
(***************************************************************************)
NeverExhausted == phase = "alloc" /\ ordersProcessed < Orders => freelist # <<>>

THEOREM PoolSuffices == Spec => []NeverExhausted
<1>1. ASSUME IInv, phase = "alloc" PROVE freelist # <<>>
  <2>1. current = <<>>
    BY <1>1 DEF IInv, PointersInv, CurrentIn
  <2>2. Occupied = Pointed /\ DOMAIN slotOf = E!AllResting
    BY <1>1, <2>1, ShortElements DEF IInv, PointersInv, LevelsPoint
  <2>3. /\ IsFiniteSet(E!AllResting) /\ Cardinality(E!AllResting) \in 0 .. Orders
    BY <1>1, RestingAreIds DEF IInv
  <2>4. Pointed = {slotOf[id] : id \in E!AllResting}
    BY <2>2 DEF Pointed
  <2>5. Cardinality(Pointed) <= Cardinality(E!AllResting)
    <3> DEFINE f == [id \in E!AllResting |-> slotOf[id]]
    <3>1. f \in Surjection(E!AllResting, Pointed)
      BY <2>4 DEF Surjection
    <3> QED BY <2>3, <3>1, FS_Surjection
  <2>6. Elements(freelist) = Slots \ Occupied /\ freelist \in Seq(Slots)
    BY <1>1 DEF IInv, PoolInv
  <2>7. Slots # Occupied
    BY <2>2, <2>3, <2>5, SlotsFinite
  <2>8. Slots \ Occupied # {}
    BY <2>7 DEF Occupied
  <2> QED BY <2>6, <2>8, ShortElements
<1> QED BY <1>1, Invariance, PTL DEF NeverExhausted

(***************************************************************************)
(* A run in pool mode is a run of the engine: the loop uses the engine as  *)
(* its interface allows, and the deleters that run inside a call change    *)
(* nothing of it.  So what MatchingEngineProofs shows of the engine holds  *)
(* of it here.                                                             *)
(***************************************************************************)
THEOREM EngineRunsAlone == Spec => Engine!Spec
<1>1. Init => Engine!Init
  BY DEF Init
<1>2. ASSUME [Next]_vars PROVE [Engine!Next]_(Engine!vars)
  <2>1. UNCHANGED engineVars => UNCHANGED Engine!vars
    BY DEF engineVars, Engine!vars
  <2>2. CASE Register
    BY <2>2 DEF Register, Engine!Next
  <2>3. ASSUME NEW id \in OrderId, Alloc(id) PROVE UNCHANGED Engine!vars
    BY <2>1, <2>3 DEF Alloc
  <2>4. ASSUME NEW o \in Engine!Input, Submit(o) PROVE Engine!Next
    BY <2>4 DEF Submit, Engine!Next
  <2>5. CASE EndIteration
    BY <2>1, <2>5 DEF EndIteration
  <2>6. CASE DestroyPool
    BY <2>1, <2>6 DEF DestroyPool
  <2>7. CASE UNCHANGED vars
    BY <2>1, <2>7 DEF vars
  <2> QED BY <1>2, <2>2, <2>3, <2>4, <2>5, <2>6, <2>7 DEF Next
<1> QED BY <1>1, <1>2, PTL DEF Spec, Engine!Spec
==============================================================================
